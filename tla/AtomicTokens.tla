----------------------------- MODULE AtomicTokens ------------------------------
(***************************************************************************)
(* What the token endpoints promise, each as one step: an attestation      *)
(* covers a set of tokens of one owner; a removal takes the whole family   *)
(* and nothing else; a user has one session; nobody trades the secret of a *)
(* token he was told nothing of.  Where requests are served one at a time  *)
(* the trade also takes the current secret and the permit, and a client is *)
(* only ever told a secret that is still current.  TokenLifecycle needs    *)
(* several reads and commits for each of these.  Dates are left out, and a *)
(* secret and its hash count as one: both are the row's, and of a rotated  *)
(* subtoken it is the hash that a caller must send.  So a client who is    *)
(* told the stored hash of a token without a parent, which nobody accepts, *)
(* counts as told its secret.                                              *)
(***************************************************************************)
EXTENDS Naturals

CONSTANTS
    Owners,    \* uids
    NoOne,     \* the parent of a token that has none
    Exclusive  \* whether requests are served one at a time

VARIABLES
    accounts,  \* the users there are
    table,     \* token id -> owner, parent, secret, permit, session
    drawn,     \* the next number drawn, for an id or a secret
    known      \* pairs of an id and a secret that clients were told

vars == <<accounts, table, drawn, known>>

(* The tokens at R and below them: closed under children, and everybody   *)
(* but the roots is somebody's child.                                     *)
Family(S, R) ==
    /\ R \subseteq S /\ S \subseteq DOMAIN table
    /\ \A i \in DOMAIN table : table[i].parent \in S => i \in S
    /\ \A i \in S \ R : table[i].parent \in S

Owned(u) == {i \in DOMAIN table : table[i].owner = u}

Session(u) == {i \in Owned(u) : table[i].session}

Without(S) == [i \in DOMAIN table \ S |-> table[i]]

With(T, u, p, permit, session) ==
    [i \in DOMAIN T \cup {drawn} |->
        IF i = drawn THEN [owner |-> u, parent |-> p, secret |-> drawn,
                           permit |-> permit, session |-> session]
        ELSE T[i]]

-----------------------------------------------------------------------------

Create(u, p, permit) ==
    /\ u \in accounts
    /\ table' = With(table, u, p, permit, FALSE)
    /\ drawn' = drawn + 1
    /\ UNCHANGED <<accounts, known>>

Rotate(i) ==
    /\ \E k \in known : k[1] = i
    /\ Exclusive => table[i].permit /\ <<i, table[i].secret>> \in known
    /\ table' = [table EXCEPT ![i].secret = drawn, ![i].permit = FALSE]
    /\ drawn' = drawn + 1
    /\ UNCHANGED <<accounts, known>>

(* Attested by the owner of them all. *)
Attest(u, S) ==
    /\ S \subseteq Owned(u)
    /\ table' = [i \in DOMAIN table |->
                    IF i \in S THEN [table[i] EXCEPT !.permit = TRUE] ELSE table[i]]
    /\ UNCHANGED <<accounts, drawn, known>>

Remove(i, S) ==
    /\ Family(S, {i})
    /\ table' = Without(S)
    /\ UNCHANGED <<accounts, drawn, known>>

(* A session takes the place of the one there was, and of what was        *)
(* derived from it.                                                       *)
Renew(u, S) ==
    /\ u \in accounts
    /\ Family(S, Session(u))
    /\ table' = With(Without(S), u, NoOne, FALSE, TRUE)
    /\ drawn' = drawn + 1
    /\ UNCHANGED <<accounts, known>>

Open(u) ==
    /\ u \notin accounts
    /\ accounts' = accounts \cup {u}
    /\ UNCHANGED <<table, drawn, known>>

Close(u, S) ==
    /\ u \in accounts
    /\ Family(S, Owned(u))
    /\ accounts' = accounts \ {u}
    /\ table' = Without(S)
    /\ UNCHANGED <<drawn, known>>

Tell(i, s) ==
    /\ Exclusive => i \in DOMAIN table /\ s = table[i].secret
    /\ known' = known \cup {<<i, s>>}
    /\ UNCHANGED <<accounts, table, drawn>>

Init ==
    /\ accounts = Owners
    /\ table = [i \in {} |-> NoOne]
    /\ drawn = 1
    /\ known = {}

(* What is promised whoever else is being served. *)
Manage ==
    \/ \E u \in Owners, permit \in BOOLEAN, p \in DOMAIN table \cup {NoOne} :
           Create(u, p, permit)
    \/ \E S \in SUBSET DOMAIN table :
           \/ \E i \in DOMAIN table : Remove(i, S)
           \/ \E u \in Owners : Attest(u, S) \/ Renew(u, S) \/ Close(u, S)
    \/ \E u \in Owners : Open(u)

Next ==
    \/ Manage
    \/ \E i \in DOMAIN table : Rotate(i)
    \/ \E i, s \in 0 .. drawn - 1 : Tell(i, s)

Spec == Init /\ [][Next]_vars
=============================================================================
