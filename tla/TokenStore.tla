------------------------------ MODULE TokenStore ------------------------------
(***************************************************************************)
(* The "token" table of store/orm.py as a value, and the operators of      *)
(* store/repository.py on it.  A table is a function from token ids to     *)
(* rows.  Nothing here has state: TokenLifecycle holds the table in a      *)
(* variable and applies these operators at the reads and at the commit of  *)
(* each transaction.                                                       *)
(***************************************************************************)
EXTENDS Integers, FiniteSets

CONSTANTS
    Users,        \* the uids that may ever have a row in "user"
    Names,        \* the names a client gives its tokens
    SessionName,  \* [token] session_name of settings.toml
    Externals,    \* the external ids an admin client sends, "" among them
    None,         \* SQL NULL, Python None
    Blank         \* the empty string, the default parent_id of a request

ASSUME StoreAssumption ==
    /\ None \notin Users \cup Externals \cup Nat
    /\ Blank \notin Nat \cup {None}

-----------------------------------------------------------------------------
(* Secrets.  make_token() draws a secret nobody has seen before: a number. *)
(* bcrypt is abstracted to a tag: a stored value is the secret itself or   *)
(* the salted hash of it.                                                  *)

Plain(s)  == [hashed |-> FALSE, secret |-> s]
Hashed(s) == [hashed |-> TRUE, secret |-> s]

Value == [hashed : BOOLEAN, secret : Nat]

Row == [user      : Users \cup {None},
        parent    : Nat \cup {None},
        name      : Names \cup {SessionName},
        ext       : Externals \cup {None},
        value     : Value,
        nbf       : Int,
        exp       : Int,
        session   : BOOLEAN,
        rotatable : BOOLEAN]

(* services.matches: a row with a parent is compared as plain text, any   *)
(* other by bcrypt, which raises on a stored value that is not a hash.    *)
Matches(val, r) ==
    IF r.parent # None
    THEN val = r.value
    ELSE r.value.hashed /\ val = Plain(r.value.secret)

(* The comparison nbf < now < exp of services.valid and update_session. *)
Live(r, t) == r.nbf < t /\ t < r.exp

-----------------------------------------------------------------------------
(* Constraints of the table. *)

Key(r) == <<r.user, r.name, r.parent, r.ext>>

(* Seeded fault: NULLs are distinct, as on a database without the option. *)
UniqueNullsDistinct(T, r) ==
    \A i \in DOMAIN T : Key(T[i]) = Key(r) => None \in {r.parent, r.ext}

(* UNIQUE (user_uid, name, parent_id, external_id) NULLS NOT DISTINCT. *)
Unique(T, r) == \A i \in DOMAIN T : Key(T[i]) # Key(r)

(* The foreign keys user_uid -> user.uid and parent_id -> token.id. *)
References(T, U, r) == r.user \in U /\ r.parent \in DOMAIN T \cup {None}

Children(T, S) == {i \in DOMAIN T : T[i].parent \in S}

(* No row that stays behind refers to a row of S. *)
Removable(T, S) == Children(T, S) \subseteq S

-----------------------------------------------------------------------------
(* Writes. *)

Insert(T, i, r) == [j \in DOMAIN T \cup {i} |-> IF j = i THEN r ELSE T[j]]

Delete(T, S) == [j \in DOMAIN T \ S |-> T[j]]

-----------------------------------------------------------------------------
(* Queries. *)

(* SqlTokenRepo.get_subtoken, which does not look at user_uid.  A None is  *)
(* rendered IS NULL; a parent_id of "" equals no stored parent.            *)
Subtokens(T, n, p, x) ==
    {i \in DOMAIN T : T[i].name = n /\ T[i].parent = p /\ T[i].ext = x}

(* SqlTokenRepo.get_session_token. *)
Sessions(T, u) ==
    {i \in DOMAIN T : T[i].user = u /\ T[i].name = SessionName /\ T[i].session}

(* User.tokens. *)
Owned(T, u) == {i \in DOMAIN T : T[i].user = u}
=============================================================================
