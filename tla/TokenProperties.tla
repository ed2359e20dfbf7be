--------------------------- MODULE TokenProperties ----------------------------
(***************************************************************************)
(* What TokenLifecycle must guarantee, stated apart from its actions.      *)
(***************************************************************************)
EXTENDS TokenLifecycle

-----------------------------------------------------------------------------
(* Types. *)

Cred == [id : Nat, value : Value]

FrameOK(f) ==
    /\ DOMAIN f = DOMAIN Idle
    /\ f.op \in AllOps \cup {"none"} /\ f.pc \in Pcs
    /\ f.user \in Users \cup {None}
    /\ f.asked \in Nat \cup {None, Blank}
    /\ f.cred \in Cred
    /\ f.id \in Nat /\ f.row \in Row /\ f.at \in Int
    /\ f.basis \in Nat \cup {None}
    /\ f.ids \subseteq Nat /\ f.gone \subseteq Nat /\ f.todo \subseteq Nat
    /\ DOMAIN f.snap \subseteq f.ids /\ \A i \in DOMAIN f.snap : f.snap[i] \in Row

(* Every variable stays of its type. *)
TypeOK ==
    /\ users \subseteq Users
    /\ fresh \in Nat \ {0} /\ now \in Nat
    /\ DOMAIN tokens \subseteq Known /\ \A i \in DOMAIN tokens : tokens[i] \in Row
    /\ DOMAIN permits = DOMAIN tokens /\ \A i \in DOMAIN permits : permits[i] \in Int
    /\ DOMAIN req = Workers /\ \A w \in Workers : FrameOK(req[w])
    /\ creds \subseteq Cred /\ \A c \in creds : c.id \in Known
    /\ lost \subseteq Known

-----------------------------------------------------------------------------
(* What holds however many processes serve the requests.                  *)

Replying(w, op) == req[w].op = op /\ req[w].pc = "reply"

(* A JWT is given for a subtoken only on the strength of its parent's     *)
(* nbf and exp: services.valid falls back to the subtoken's own dates     *)
(* when the parent's row has gone (services.py:59-64), but no request     *)
(* that took that branch gets as far as a JWT, however the parent's       *)
(* deletion falls among its three reads.                                  *)
JwtDecidedOnParent ==
    \A w \in Workers :
        Replying(w, "jwt") /\ req[w].row.parent # None => req[w].basis = req[w].row.parent

Accepted(T, c) == c.id \in DOMAIN T /\ Matches(c.value, T[c.id])

(* Revocation is final: a token string that a client holds and that is no *)
(* longer accepted, because its token was rotated, deleted, cascaded away *)
(* or replaced as an expired session, is never accepted again, whatever   *)
(* requests were in flight with older reads (services.py:141-160,         *)
(* 196-230, 330-345).                                                     *)
RevocationIsFinal ==
    [][\A c \in creds : ~Accepted(tokens, c) => ~Accepted(tokens', c)]_vars

Pending == {req[w].cred : w \in {v \in Workers : req[v].pc = "reply" /\ req[v].op \in Issuing}}

(* Rotation never strands a token: unless a response was lost, the secret *)
(* that a token's row now accepts is in a client's hands or in a response *)
(* on its way, even when several processes rotate it at once              *)
(* (services.py:330-345).  For tokens without a parent.                   *)
Reachable(i) ==
    \/ i \in lost
    \/ \E c \in creds \cup Pending : c.id = i /\ Matches(c.value, tokens[i])

TopLevelReachable ==
    \A i \in DOMAIN tokens : tokens[i].parent = None /\ ~tokens[i].session => Reachable(i)

(* The same for every token a client can hold, which README:194 and       *)
(* tests/e2e/test_server.py:1170 take for granted.                        *)
CredentialReachable == \A i \in DOMAIN tokens : ~tokens[i].session => Reachable(i)

(* An attestation, or a creation as rotatable, pays for no more rotations *)
(* than there are processes: one that finds the token rotatable loads it  *)
(* once, and what was loaded before the first commit is all that can      *)
(* still be written (services.py:329-340; permits counts down from 1).    *)
RotationsBounded == \A i \in DOMAIN permits : 1 - permits[i] <= Cardinality(Workers)

(* Concurrent GET /mfa/jwt leave a user one session, which is what        *)
(* get_session_token relies on (repository.py:66-79): it raises on two.   *)
OneSessionPerUser == \A u \in Users : Cardinality(Sessions(tokens, u)) <= 1

(* A removed user or parent leaves nothing behind: no token whose owner   *)
(* or parent is gone, though requests of either may still be under way    *)
(* (services.py:127, 396-401).                                            *)
NothingLeftBehind ==
    \A i \in DOMAIN tokens : References(tokens, users, tokens[i])

(* A subtoken is good for a JWT only while the token it is derived from   *)
(* would be, by the rule of services.valid (README:195: subtokens         *)
(* "inherit parent token lifetime constraints").                          *)
LifetimeInherited ==
    \A w \in Workers :
        LET p == req[w].row.parent IN
        Replying(w, "jwt") /\ p \in DOMAIN tokens /\ tokens[p].parent \in DOMAIN tokens =>
            Live(tokens[tokens[p].parent], req[w].at)

-----------------------------------------------------------------------------
(* What holds as long as one process serves the requests.                 *)

(* One attestation, or creation as rotatable, is good for one rotation.   *)
OneRotationPerAttestation == \A i \in DOMAIN tokens : permits[i] >= 0

(* A 204 from PATCH /token/attestation means that every token of the set  *)
(* exists and is rotatable (services.py:309-310).                         *)
AttestationSticks ==
    [][\A w \in Workers : SaveAttestation(w) =>
          \A i \in req[w].ids : i \in DOMAIN tokens' /\ tokens'[i].rotatable]_vars

(* The string an admin client receives, from the insert or from the retry *)
(* on AlreadyExists, is for a token of the user, name and external id it  *)
(* asked for; a subtoken's is accepted at once (internal/tokens.py:66-88).*)
AdminAnswerSound ==
    \A w \in Workers : Replying(w, "admin") =>
        LET c == req[w].cred
            r == req[w].row
        IN /\ c.id \in DOMAIN tokens
           /\ Key(tokens[c.id]) = Key(r)
           /\ r.parent # None => Accepted(tokens, c)

(* What PUT /token/rotate returns for a token without a parent is         *)
(* accepted.                                                              *)
RotationAnswerSound ==
    \A w \in Workers : Replying(w, "rotate") /\ req[w].row.parent = None =>
        Accepted(tokens, req[w].cred)

(* GET /mfa/jwt replaces a session, and so kills the subtokens below it,  *)
(* only if the session is over (mfa.py:33-35).  A second reading of one   *)
(* and the same clock value is no second request.                         *)
SessionReplacedWhenOver ==
    [][\A w \in Workers : ReplaceSession(w) =>
          \A i \in Sessions(tokens, req[w].user) \ DOMAIN tokens' :
              tokens[i].exp <= now \/ tokens[i].nbf = req[w].at]_vars

(* The JWT of GET /mfa/jwt names a session of that user which exists and  *)
(* was not over when the request was made (mfa.py:47-54).                 *)
SessionAnswerSound ==
    \A w \in Workers : Replying(w, "mfa") =>
        LET i == req[w].id IN
        i \in Sessions(tokens, req[w].user) /\ req[w].at < tokens[i].exp

(* A deletion is never refused for a row the cascade did not reach:       *)
(* what session.delete marks is closed under parent_id (orm.py:159,       *)
(* 192-194).                                                              *)
DeletionNeverRefused ==
    \A w \in Workers :
        /\ At(w, {"delete", "mfa"}, "delete") => Removable(tokens, req[w].gone)
        /\ At(w, {"mfa"}, "replace") => Removable(tokens, req[w].gone)
        /\ At(w, {"deluser"}, "deluser") => UserRemovable(req[w])

-----------------------------------------------------------------------------
(* The rows of the token table as AtomicTokens sees them. *)
Abstracted(T) ==
    [i \in DOMAIN T |->
        [owner |-> T[i].user, parent |-> T[i].parent, secret |-> T[i].value.secret,
         permit |-> T[i].rotatable, session |-> T[i].session]]

(* What clients were told of tokens, as pairs. *)
Told(C) == {<<c.id, c.value.secret>> : c \in C}

Atomic == INSTANCE AtomicTokens WITH
    Owners    <- Users,
    NoOne     <- None,
    Exclusive <- TRUE,
    accounts  <- users,
    table     <- Abstracted(tokens),
    drawn     <- fresh,
    known     <- Told(creds)

(* Served by one process, the handlers are atomic although none of them   *)
(* is: a rotation is paid for by the secret and the permit current at its *)
(* commit, not at its reads in an earlier transaction; a deletion takes   *)
(* the family as it is when the rows go; no client is told a secret that  *)
(* has been superseded (routers/tokens.py:66-90, services.py:121-345,     *)
(* 396-401, internal/tokens.py:66-88).                                    *)
HandlersAtomic == Atomic!Spec

Crowd == INSTANCE AtomicTokens WITH
    Owners    <- Users,
    NoOne     <- None,
    Exclusive <- FALSE,
    accounts  <- users,
    table     <- Abstracted(tokens),
    drawn     <- fresh,
    known     <- Told(creds)

(* However many processes serve, every commit is one whole promise made   *)
(* on the rows as they are then: a deletion marked in an earlier          *)
(* statement takes the family there is now or is refused, with users and  *)
(* sessions too; an attestation writes rows of the one user who asked; a  *)
(* new session leaves no other; no commit brings a row back              *)
(* (services.py:121-345, 396-401, repository.py:45-79, orm.py:159-194).   *)
HandlersSerial == Crowd!Spec
=============================================================================
