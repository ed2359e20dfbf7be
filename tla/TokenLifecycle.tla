---------------------------- MODULE TokenLifecycle ----------------------------
(***************************************************************************)
(* The life of the tokens of the Token Service, from creation to deletion, *)
(* as driven by its HTTP handlers.  A worker is one server process: every  *)
(* handler is an `async def' that never awaits, so a process serves one    *)
(* request at a time; several processes share one PostgreSQL database at   *)
(* READ COMMITTED.  A request is a frame with a program counter.  Each     *)
(* SELECT whose result is used later is one step, and the flush and commit *)
(* at the end of a unit of work are one step, in which the database checks *)
(* its constraints.  A request whose first read fails changes nothing and  *)
(* is no step.  After the last commit the frame holds a response that      *)
(* carries a token or a JWT, to be delivered, or lost if the process dies. *)
(***************************************************************************)
EXTENDS TokenStore

CONSTANTS
    Workers,          \* server processes
    Ops,              \* the operations the clients of this instance use
    Lifetimes,        \* lifetimes a client asks for, in ticks
    Rotatables,       \* values of `rotatable' a client asks for
    MaxLifetime,      \* [token] max_lifetime_days
    SessionLifetime,  \* [token] session_lifetime_seconds
    MaxTime,          \* bound: the last clock value
    MaxFresh,         \* bound: no request is sent that could draw a number
                      \* once this one is drawn
    MaxAttest,        \* bound: ids in one attestation request
    MaxLost           \* bound: tokens that have had a response lost

AllOps == {"create", "admin", "jwt", "rotate", "attest", "delete", "mfa",
           "adduser", "deluser"}

ASSUME LifecycleAssumption ==
    /\ Ops \subseteq AllOps
    /\ Lifetimes \subseteq Int /\ Rotatables \subseteq BOOLEAN
    /\ MaxLifetime \in Nat /\ SessionLifetime \in Nat
    /\ MaxTime \in Nat /\ MaxFresh \in Nat
    /\ MaxAttest \in Nat /\ MaxLost \in Nat

VARIABLES
    users,    \* the uids with a row in "user"
    tokens,   \* the table "token": id -> row
    now,      \* the clock the processes read
    fresh,    \* the next number uuid4() or make_token() draws
    req,      \* worker -> frame of the request it serves
    creds,    \* the strings id.secret that some client has received
    permits,  \* ghost: token id -> rotations attested for and not yet made
    lost      \* ghost: ids of tokens with a response lost after commit

vars == <<users, tokens, now, fresh, req, creds, permits, lost>>

-----------------------------------------------------------------------------
(* Frames. *)

NoCred == [id |-> 0, value |-> Plain(0)]

NoRow == [user |-> None, parent |-> None,
          name |-> SessionName, ext |-> None, value |-> Plain(0),
          nbf |-> 0, exp |-> 0, session |-> FALSE, rotatable |-> FALSE]

Idle == [op    |-> "none",  \* which endpoint
         pc    |-> "idle",  \* what the handler does next
         user  |-> None,    \* the authenticated user, or the one of the path
         asked |-> None,    \* parent_id of the request
         cred  |-> NoCred,  \* X-Token of the request; then the response
         id    |-> 0,       \* the token being removed or named in a response
         row   |-> NoRow,   \* the ORM object being built, read or changed
         at    |-> 0,       \* the clock reading the handler decides on
         basis |-> None,    \* the row whose nbf and exp decided
         ids   |-> {},      \* ids of an attestation
         snap  |-> [i \in {} |-> NoRow],  \* rows the attestation has read
         gone  |-> {},      \* what session.delete has marked
         todo  |-> {}]      \* of ids or gone, what awaits a SELECT of its own

Pcs == {"idle", "insert", "retry", "window", "issue", "load", "save", "read",
        "check", "attest", "remove", "cascade", "delete", "session", "replace",
        "jwt", "deluser", "reply"}

Goto(w, f) == req' = [req EXCEPT ![w] = f]

(* An early return or an exception: the session is closed without a       *)
(* commit, and the client gets an error response.                         *)
Fail(w) == Goto(w, Idle) /\ UNCHANGED <<users, tokens, now, fresh, creds, permits, lost>>

(* The handler goes on to its next step and changes nothing but itself.   *)
Step(w, f) == Goto(w, f) /\ UNCHANGED <<users, tokens, now, fresh, creds, permits, lost>>

At(w, op, pc) == req[w].op \in op /\ req[w].pc = pc

Begin(w, op) == op \in Ops /\ req[w].pc = "idle"

(* A bound: the ids and secrets drawn so far leave room for one more.     *)
Room == fresh <= MaxFresh

(* The operations whose response carries a token string. *)
Issuing == {"create", "admin", "rotate"}

-----------------------------------------------------------------------------
(* POST /token: routers.tokens.create, shared.create_token_for_user.      *)
(* adapter.to_token builds the Token; no upper limit is put on exp.       *)

NewRow(u, p, n, x, life, sess, rot) ==
    [user |-> u, parent |-> p, name |-> n, ext |-> x, value |-> Plain(0),
     nbf |-> now, exp |-> now + life, session |-> sess, rotatable |-> rot]

BeginCreate(w, u, n, life, rot) ==
    /\ Begin(w, "create") /\ Room
    /\ u \in users
    /\ Step(w, [Idle EXCEPT !.op = "create", !.pc = "insert", !.user = u,
                            !.row = NewRow(u, None, n, None, life, FALSE, rot)])

(* POST /admin/token/{user_uid}: internal.tokens.create_token_for_user.   *)
(* The path may name no user.  create_token first reads the parent, which *)
(* must exist, whoever owns it; no parent is asked for by null or by "".  *)
BeginAdmin(w, u, p, n, x, life, rot) ==
    /\ Begin(w, "admin") /\ Room
    /\ p \in DOMAIN tokens \cup {None, Blank}
    /\ Step(w, [Idle EXCEPT !.op = "admin", !.pc = "insert", !.user = u, !.asked = p,
                            !.row = NewRow(u, IF p = Blank THEN None ELSE p,
                                           n, x, life, FALSE, rot)])

(* A subtoken keeps its secret in the clear, any other token is hashed.   *)
Stored(r, s) == [r EXCEPT !.value = IF r.parent # None THEN Plain(s) ELSE Hashed(s)]

(* Seeded fault: the id drawn may be drawn again. *)
InsertTokenDrawsAgain(w) ==
    LET r == req[w].row IN
    /\ At(w, {"create", "admin"}, "insert")
    /\ References(tokens, users, r) /\ Unique(tokens, r)
    /\ tokens' = Insert(tokens, fresh, Stored(r, fresh))
    /\ permits' = Insert(permits, fresh, 0)
    /\ Goto(w, [req[w] EXCEPT !.pc = "reply",
                              !.cred = [id |-> fresh, value |-> Plain(fresh)]])
    /\ UNCHANGED <<users, now, fresh, creds, lost>>

InsertToken(w) ==
    LET r == req[w].row IN
    /\ At(w, {"create", "admin"}, "insert")
    /\ References(tokens, users, r) /\ Unique(tokens, r)
    /\ tokens' = Insert(tokens, fresh, Stored(r, fresh))
    /\ permits' = Insert(permits, fresh, IF r.rotatable THEN 1 ELSE 0)
    /\ fresh' = fresh + 1
    /\ Goto(w, [req[w] EXCEPT !.pc = "reply",
                              !.cred = [id |-> fresh, value |-> Plain(fresh)]])
    /\ UNCHANGED <<users, now, creds, lost>>

(* The commit fails: UOWAlreadyExists sends an admin request to the retry *)
(* path, any other failure is an error response.                          *)
InsertRefused(w) ==
    LET r == req[w].row IN
    /\ At(w, {"create", "admin"}, "insert")
    /\ ~(References(tokens, users, r) /\ Unique(tokens, r))
    /\ IF req[w].op = "admin" /\ ~Unique(tokens, r)
       THEN Step(w, [req[w] EXCEPT !.pc = "retry"])
       ELSE Fail(w)

(* Seeded fault: the first of several rows is taken. *)
RetryLookupFirst(w) ==
    /\ At(w, {"admin"}, "retry")
    /\ \E i \in Subtokens(tokens, req[w].row.name, req[w].asked, req[w].row.ext) :
          Step(w, [req[w] EXCEPT !.pc = "reply",
                                 !.cred = [id |-> i, value |-> tokens[i].value]])

(* Seeded fault: the answer is the secret of the insert that failed.      *)
RetryLookupOwnSecret(w) ==
    /\ At(w, {"admin"}, "retry")
    /\ \E i \in Subtokens(tokens, req[w].row.name, req[w].asked, req[w].row.ext) :
          Step(w, [req[w] EXCEPT !.pc = "reply",
                                 !.cred = [id |-> i, value |-> Plain(fresh)]])

(* In a new transaction: get_subtoken, and its row's stored value is the  *)
(* answer.  No row is an AttributeError, several a MultipleResultsFound.  *)
RetryLookup(w) ==
    LET found == Subtokens(tokens, req[w].row.name, req[w].asked, req[w].row.ext) IN
    /\ At(w, {"admin"}, "retry")
    /\ \/ \E i \in found :
            /\ found = {i}
            /\ Step(w, [req[w] EXCEPT !.pc = "reply",
                                      !.cred = [id |-> i, value |-> tokens[i].value]])
       \/ Cardinality(found) # 1 /\ Fail(w)

-----------------------------------------------------------------------------
(* X-Token authentication: dependencies.TokenAuthenticator, one session.  *)

(* services.authenticated: the row is read, then the clock.  A token that *)
(* does not exist is a 401.                                               *)
ReadToken(w, op, c) ==
    /\ Begin(w, op)
    /\ op = "rotate" => Room
    /\ c.id \in DOMAIN tokens
    /\ Step(w, [Idle EXCEPT !.op = op, !.pc = "window", !.cred = c,
                            !.row = tokens[c.id], !.at = now])

(* Seeded fault: the value sent is not compared. *)
CheckWindowUnmatched(w) ==
    LET f == req[w]
        p == f.row.parent
        basis == IF p \in DOMAIN tokens THEN p ELSE f.cred.id
    IN
    /\ At(w, {"jwt", "rotate"}, "window")
    /\ basis \in DOMAIN tokens /\ Live(tokens[basis], f.at)
    /\ Step(w, [f EXCEPT !.pc = "issue", !.basis = basis])

(* services.valid reads the parent: its window decides, or the token's    *)
(* own if there is no parent row.                                         *)
CheckWindow(w) ==
    LET f == req[w]
        p == f.row.parent
        basis == IF p \in DOMAIN tokens THEN tokens[p] ELSE f.row
        ok == Live(basis, f.at) /\ Matches(f.cred.value, f.row)
    IN
    /\ At(w, {"jwt", "rotate"}, "window")
    /\ \/ /\ ok
          /\ Step(w, [f EXCEPT !.pc = "issue",
                               !.basis = IF p \in DOMAIN tokens THEN p ELSE f.cred.id])
       \/ ~ok /\ Fail(w)

(* Seeded fault: the row held in the session is used without a SELECT. *)
IssueJwtFromMemory(w) ==
    /\ At(w, {"jwt", "rotate"}, "issue")
    /\ Step(w, [req[w] EXCEPT !.pc = IF req[w].op = "jwt" THEN "reply" ELSE "load"])

(* create_jwt_from_token selects the row again, to an AttributeError if   *)
(* it has gone; the attributes are still those first read.                *)
IssueJwt(w) ==
    LET i == req[w].cred.id IN
    /\ At(w, {"jwt", "rotate"}, "issue")
    /\ \/ /\ i \in DOMAIN tokens
          /\ Step(w, [req[w] EXCEPT !.pc = IF req[w].op = "jwt" THEN "reply" ELSE "load"])
       \/ i \notin DOMAIN tokens /\ Fail(w)

-----------------------------------------------------------------------------
(* PUT /token/rotate: authentication has ended its transaction;           *)
(* services.rotate_token runs in another.                                 *)

(* exp_days or max_lifetime_days. *)
Days(d) == IF d = 0 THEN MaxLifetime ELSE d

LoadForRotation(w, d) ==
    LET i == req[w].cred.id
        ok == Days(d) <= MaxLifetime /\ i \in DOMAIN tokens /\ tokens[i].rotatable
    IN
    /\ At(w, {"rotate"}, "load")
    /\ \/ ok /\ Step(w, [req[w] EXCEPT !.pc = "save",
                                       !.row = [tokens[i] EXCEPT !.exp = now + Days(d)]])
       \/ ~ok /\ Fail(w)

(* Seeded faults: the permit is not used up; the secret is stored in the  *)
(* clear; the secret hashed is another than the one answered.             *)
Rotate(w, value, rotatable) ==
    LET i == req[w].cred.id IN
    /\ At(w, {"rotate"}, "save")
    /\ i \in DOMAIN tokens
    /\ tokens' = [tokens EXCEPT ![i].value = value, ![i].exp = req[w].row.exp,
                                ![i].rotatable = rotatable]
    /\ permits' = [permits EXCEPT ![i] = @ - 1]
    /\ fresh' = fresh + 1
    /\ Goto(w, [req[w] EXCEPT !.pc = "reply",
                              !.cred = [id |-> i, value |-> Plain(fresh)]])
    /\ UNCHANGED <<users, now, creds, lost>>

SaveRotationKeepsPermit(w) == Rotate(w, Hashed(fresh), TRUE)
SaveRotationInClear(w) == Rotate(w, Plain(fresh), FALSE)
SaveRotationDrawsTwice(w) == Rotate(w, Hashed(fresh + 1), FALSE)

(* UPDATE token SET value, exp, rotatable WHERE id: hashed, whatever the  *)
(* token.  No row to update is a StaleDataError.                          *)
SaveRotation(w) ==
    LET i == req[w].cred.id IN
    /\ At(w, {"rotate"}, "save")
    /\ i \in DOMAIN tokens
    /\ tokens' = [tokens EXCEPT ![i].value = Hashed(fresh),
                                ![i].exp = req[w].row.exp,
                                ![i].rotatable = FALSE]
    /\ permits' = [permits EXCEPT ![i] = @ - 1]
    /\ fresh' = fresh + 1
    /\ Goto(w, [req[w] EXCEPT !.pc = "reply",
                              !.cred = [id |-> i, value |-> Plain(fresh)]])
    /\ UNCHANGED <<users, now, creds, lost>>

RotationStale(w) ==
    At(w, {"rotate"}, "save") /\ req[w].cred.id \notin DOMAIN tokens /\ Fail(w)

-----------------------------------------------------------------------------
(* PATCH /token/attestation: services.make_rotatable.  The clock is read  *)
(* before the transaction begins.                                         *)

BeginAttest(w, u, S) ==
    /\ Begin(w, "attest")
    /\ u \in users
    /\ Step(w, [Idle EXCEPT !.op = "attest", !.pc = "read", !.user = u,
                            !.ids = S, !.at = now])

(* One SELECT per id, before anything is decided; what is missing is a    *)
(* NotFound in the end.                                                   *)
ReadAttested(w, i) ==
    LET f == req[w] IN
    /\ At(w, {"attest"}, "read")
    /\ i \in f.ids \ DOMAIN f.snap
    /\ \/ /\ i \in DOMAIN tokens
          /\ Step(w, [f EXCEPT !.snap = Insert(@, i, tokens[i]),
                               !.todo = f.ids,
                               !.pc = IF f.ids \subseteq DOMAIN f.snap \cup {i}
                                      THEN "check" ELSE "read"])
       \/ i \notin DOMAIN tokens /\ Fail(w)

(* services.valid: a parent row is selected now, but one that was read    *)
(* above keeps the attributes it had then.                                *)
AttestWindow(f, i) ==
    LET p == f.snap[i].parent IN
    IF p \notin DOMAIN tokens THEN f.snap[i]
    ELSE IF p \in f.ids THEN f.snap[p] ELSE tokens[p]

(* The owners are compared first, then the dates one token at a time.     *)
CheckAttested(w, i) ==
    LET f == req[w]
        ok == (\A j \in f.ids : f.snap[j].user = f.user) /\ Live(AttestWindow(f, i), f.at)
    IN
    /\ At(w, {"attest"}, "check")
    /\ i \in f.todo
    /\ \/ ok /\ Step(w, [f EXCEPT !.todo = @ \ {i},
                                  !.pc = IF f.todo = {i} THEN "attest" ELSE "check"])
       \/ ~ok /\ Fail(w)

(* Seeded fault: only one row of the set is written. *)
DirtyFirst(f) == {i \in f.ids : ~f.snap[i].rotatable /\ \A j \in f.ids : i <= j}

(* The rows the flush writes: setting an attribute to the value it has    *)
(* emits no UPDATE.                                                       *)
Dirty(f) == {i \in f.ids : ~f.snap[i].rotatable}

(* Seeded fault: an UPDATE of every column, with the values once read. *)
SaveAttestationWholeRow(w) ==
    LET f == req[w] IN
    /\ At(w, {"attest"}, "attest")
    /\ f.ids \subseteq DOMAIN tokens
    /\ tokens' = [i \in DOMAIN tokens |->
                    IF i \in f.ids THEN [f.snap[i] EXCEPT !.rotatable = TRUE] ELSE tokens[i]]
    /\ permits' = [i \in DOMAIN permits |-> IF i \in f.ids THEN 1 ELSE permits[i]]
    /\ Goto(w, Idle)
    /\ UNCHANGED <<users, now, fresh, creds, lost>>

SaveAttestation(w) ==
    LET f == req[w] IN
    /\ At(w, {"attest"}, "attest")
    /\ Dirty(f) \subseteq DOMAIN tokens
    /\ tokens' = [i \in DOMAIN tokens |->
                    IF i \in Dirty(f) THEN [tokens[i] EXCEPT !.rotatable = TRUE]
                    ELSE tokens[i]]
    /\ permits' = [i \in DOMAIN permits |-> IF i \in f.ids THEN 1 ELSE permits[i]]
    /\ Goto(w, Idle)
    /\ UNCHANGED <<users, now, fresh, creds, lost>>

AttestationStale(w) ==
    /\ At(w, {"attest"}, "attest")
    /\ ~(Dirty(req[w]) \subseteq DOMAIN tokens)
    /\ Fail(w)

-----------------------------------------------------------------------------
(* DELETE /token/{token_value}, /token?name= and /admin/token/{uid}/{id}: *)
(* services.remove_token_by_value, _by_name and _by_id.                   *)

(* The user's tokens are listed and one is picked, by id or by name. *)
BeginDelete(w, u, i) ==
    /\ Begin(w, "delete")
    /\ u \in users /\ i \in Owned(tokens, u)
    /\ Step(w, [Idle EXCEPT !.op = "delete", !.pc = "remove", !.user = u, !.id = i])

(* SqlTokenRepo.remove selects the row again, and session.delete marks    *)
(* it.                                                                    *)
RemoveToken(w) ==
    LET f == req[w] IN
    /\ At(w, {"delete", "mfa"}, "remove")
    /\ \/ /\ f.id \in DOMAIN tokens
          /\ Step(w, [f EXCEPT !.gone = {f.id}, !.todo = {f.id}, !.pc = "cascade"])
       \/ f.id \notin DOMAIN tokens /\ Fail(w)

(* What a cascade leads up to. *)
Flush(f) == IF f.op = "mfa" THEN "replace" ELSE f.op

(* Seeded fault: the cascade stops at the direct subtokens. *)
CascadeOneLevel(w, i) ==
    LET f == req[w] IN
    /\ At(w, {"delete", "mfa", "deluser"}, "cascade")
    /\ i \in f.todo
    /\ Step(w, [f EXCEPT !.gone = @ \cup Children(tokens, {i}), !.todo = @ \ {i},
                         !.pc = IF f.todo = {i} THEN Flush(f) ELSE "cascade"])

(* The cascade "all, delete-orphan" of Token.subtokens: the subtokens of  *)
(* a marked row are selected and marked, until no row is left to look     *)
(* below.                                                                 *)
Cascade(w, i) ==
    LET f == req[w]
        below == Children(tokens, {i})
        rest == (f.todo \ {i}) \cup (below \ f.gone)
    IN
    /\ At(w, {"delete", "mfa", "deluser"}, "cascade")
    /\ i \in f.todo
    /\ Step(w, [f EXCEPT !.gone = @ \cup below, !.todo = rest,
                         !.pc = IF rest = {} THEN Flush(f) ELSE "cascade"])

(* Seeded fault: the foreign key is not enforced (orm.py:260-265 is what  *)
(* turns it on for SQLite).                                               *)
DeleteUnenforced(w) ==
    LET f == req[w] IN
    /\ At(w, {"delete"}, "delete")
    /\ tokens' = Delete(tokens, f.gone)
    /\ permits' = Delete(permits, f.gone)
    /\ Goto(w, Idle)
    /\ UNCHANGED <<users, now, fresh, creds, lost>>

(* DELETE of what was marked; a row that has gone meanwhile only warns.   *)
DeleteMarked(w) ==
    LET f == req[w] IN
    /\ At(w, {"delete"}, "delete")
    /\ Removable(tokens, f.gone)
    /\ tokens' = Delete(tokens, f.gone)
    /\ permits' = Delete(permits, f.gone)
    /\ Goto(w, Idle)
    /\ UNCHANGED <<users, now, fresh, creds, lost>>

(* A subtoken inserted since the marking violates the foreign key. *)
DeleteRefused(w) ==
    At(w, {"delete"}, "delete") /\ ~Removable(tokens, req[w].gone) /\ Fail(w)

-----------------------------------------------------------------------------
(* GET /mfa/jwt: services.update_session, then create_jwt_from_user.      *)

(* Both clock readings, of the handler and of update_session, precede the *)
(* transaction.                                                           *)
BeginMfa(w, u) ==
    /\ Begin(w, "mfa") /\ Room
    /\ u \in users
    /\ Step(w, [Idle EXCEPT !.op = "mfa", !.pc = "session", !.user = u, !.at = now,
                            !.row = NewRow(u, None, SessionName, None,
                                           SessionLifetime, TRUE, FALSE)])

(* Seeded faults: the session is returned, or replaced, without a look at *)
(* its dates.                                                             *)
ReadSessionTo(w, pc) ==
    LET f == req[w]
        S == Sessions(tokens, f.user)
    IN
    /\ At(w, {"mfa"}, "session")
    /\ \/ S = {} /\ Step(w, [f EXCEPT !.pc = "replace"])
       \/ \E i \in S : Step(w, [f EXCEPT !.id = i, !.pc = pc])

ReadSessionUndated(w) == ReadSessionTo(w, "jwt")
ReadSessionAnew(w) == ReadSessionTo(w, "remove")

ReadSession(w) ==
    LET f == req[w]
        S == Sessions(tokens, f.user)
    IN
    /\ At(w, {"mfa"}, "session")
    /\ \/ S = {} /\ Step(w, [f EXCEPT !.pc = "replace"])
       \/ \E i \in S :
            /\ S = {i}
            /\ Step(w, [f EXCEPT !.id = i,
                                 !.pc = IF Live(tokens[i], f.at) THEN "jwt" ELSE "remove"])
       \/ Cardinality(S) > 1 /\ Fail(w)

(* The new session's row goes in after the old session and its subtokens  *)
(* are flushed out, in one transaction.                                   *)
SessionAccepted(f) ==
    LET T == Delete(tokens, f.gone) IN
    Removable(tokens, f.gone) /\ References(T, users, f.row) /\ Unique(T, f.row)

ReplaceSession(w) ==
    LET f == req[w]
        r == [f.row EXCEPT !.value = Plain(fresh)]
    IN
    /\ At(w, {"mfa"}, "replace")
    /\ SessionAccepted(f)
    /\ tokens' = Insert(Delete(tokens, f.gone), fresh, r)
    /\ permits' = Insert(Delete(permits, f.gone), fresh, 0)
    /\ fresh' = fresh + 1
    /\ Goto(w, [f EXCEPT !.pc = "jwt", !.id = fresh])
    /\ UNCHANGED <<users, now, creds, lost>>

SessionRefused(w) ==
    At(w, {"mfa"}, "replace") /\ ~SessionAccepted(req[w]) /\ Fail(w)

(* The JWT names the session, which is not read again; the user is. *)
IssueSessionJwt(w) ==
    LET f == req[w] IN
    /\ At(w, {"mfa"}, "jwt")
    /\ \/ f.user \in users /\ Step(w, [f EXCEPT !.pc = "reply"])
       \/ f.user \notin users /\ Fail(w)

-----------------------------------------------------------------------------
(* POST and DELETE /admin/users: services.create_user and remove_user.    *)

AddUser(w, u) ==
    /\ Begin(w, "adduser")
    /\ u \notin users
    /\ users' = users \cup {u}
    /\ UNCHANGED <<tokens, now, fresh, req, creds, permits, lost>>

(* session.delete marks the tokens of the user, and then those below.     *)
BeginRemoveUser(w, u) ==
    LET own == Owned(tokens, u) IN
    /\ Begin(w, "deluser")
    /\ u \in users
    /\ Step(w, [Idle EXCEPT !.op = "deluser", !.user = u, !.gone = own, !.todo = own,
                            !.pc = IF own = {} THEN "deluser" ELSE "cascade"])

UserRemovable(f) == Removable(tokens, f.gone) /\ Owned(tokens, f.user) \subseteq f.gone

RemoveUser(w) ==
    LET f == req[w] IN
    /\ At(w, {"deluser"}, "deluser")
    /\ UserRemovable(f)
    /\ users' = users \ {f.user}
    /\ tokens' = Delete(tokens, f.gone)
    /\ permits' = Delete(permits, f.gone)
    /\ Goto(w, Idle)
    /\ UNCHANGED <<now, fresh, creds, lost>>

RemoveUserRefused(w) ==
    At(w, {"deluser"}, "deluser") /\ ~UserRemovable(req[w]) /\ Fail(w)

-----------------------------------------------------------------------------
(* The response, the clock and the failures.                              *)

Reply(w) ==
    LET f == req[w] IN
    /\ f.pc = "reply"
    /\ creds' = IF f.op \in Issuing THEN creds \cup {f.cred} ELSE creds
    /\ Goto(w, Idle)
    /\ UNCHANGED <<users, tokens, now, fresh, permits, lost>>

(* The process dies, the connection drops or the database gives an error, *)
(* at any point: what was not committed is undone, what was committed is  *)
(* not, and the response is lost.                                         *)
Crash(w) ==
    LET f == req[w] IN
    /\ f.pc # "idle"
    /\ lost' = IF f.pc = "reply" /\ f.op \in Issuing THEN lost \cup {f.cred.id} ELSE lost
    /\ Cardinality(lost') <= MaxLost
    /\ Goto(w, Idle)
    /\ UNCHANGED <<users, tokens, now, fresh, creds, permits>>

Tick ==
    /\ now < MaxTime
    /\ now' = now + 1
    /\ UNCHANGED <<users, tokens, fresh, req, creds, permits, lost>>

Init ==
    /\ users = Users
    /\ tokens = [i \in {} |-> NoRow]
    /\ now = 0 /\ fresh = 1
    /\ req = [w \in Workers |-> Idle]
    /\ creds = {} /\ lost = {}
    /\ permits = [i \in {} |-> 0]

(* Every id handed out so far, and numbers that never were one: an id in  *)
(* a request may name no row.                                             *)
Known == 1 .. fresh - 1

AdminNext(w) ==
    \/ \E u \in Users, p \in Known \cup {None, Blank}, n \in Names,
          x \in Externals \cup {None}, life \in Lifetimes, rot \in Rotatables :
          BeginAdmin(w, u, p, n, x, life, rot)
    \/ InsertToken(w) \/ InsertRefused(w) \/ RetryLookup(w)

UserNext(w) ==
    \/ \E u \in Users, n \in Names, life \in Lifetimes, rot \in Rotatables :
          BeginCreate(w, u, n, life, rot)
    \/ \E u \in Users, S \in SUBSET Known :
          Cardinality(S) \in 1 .. MaxAttest /\ BeginAttest(w, u, S)
    \/ \E i \in Known : ReadAttested(w, i) \/ CheckAttested(w, i)
    \/ SaveAttestation(w) \/ AttestationStale(w)

AuthNext(w) ==
    \/ \E op \in {"jwt", "rotate"}, c \in creds : ReadToken(w, op, c)
    \/ CheckWindow(w) \/ IssueJwt(w)
    \/ \E d \in Lifetimes : LoadForRotation(w, d)
    \/ SaveRotation(w) \/ RotationStale(w)

DeleteNext(w) ==
    \/ \E u \in Users, i \in Known : BeginDelete(w, u, i)
    \/ RemoveToken(w) \/ (\E i \in Known : Cascade(w, i))
    \/ DeleteMarked(w) \/ DeleteRefused(w)
    \/ \E u \in Users : BeginRemoveUser(w, u) \/ AddUser(w, u)
    \/ RemoveUser(w) \/ RemoveUserRefused(w)

MfaNext(w) ==
    \/ \E u \in Users : BeginMfa(w, u)
    \/ ReadSession(w) \/ ReplaceSession(w) \/ SessionRefused(w) \/ IssueSessionJwt(w)

Serve(w) ==
    \/ AdminNext(w) \/ UserNext(w) \/ AuthNext(w) \/ DeleteNext(w) \/ MfaNext(w)
    \/ Reply(w) \/ Crash(w)

Next == Tick \/ \E w \in Workers : Serve(w)

Spec == Init /\ [][Next]_vars
=============================================================================
