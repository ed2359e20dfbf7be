------------------------------- MODULE Assembly -------------------------------
(***************************************************************************)
(* What a process is made of when it starts (server.py make_app), and the  *)
(* part of POST /token and POST /krb/token that they share: an             *)
(* authenticator names a user, read in a transaction of its own, and       *)
(* create_token_for_user then creates a token for it in another.           *)
(* Kerberos.tla and OidcLogin.tla add two of the authenticators.           *)
(*                                                                         *)
(* Each client asks for one token, of its own name, until it has it.       *)
(***************************************************************************)
EXTENDS Naturals, Sequences

CONSTANTS
    Procs,        \* processes of the service
    Users,        \* uids
    Clients,      \* programs, and tabs of one browser
    Deployments,  \* the settings, with who the clients are
    None,         \* no uid, realm, page or process
    MaxFaults     \* how often something goes wrong that no step of ours repairs

VARIABLES
    config,  \* the settings, the same for every process
    proc,    \* process -> "down", "up" or "refused"
    req,     \* client -> its request: where it is, at which process, for whom
    users,   \* the table user
    tokens,  \* the table token: uid and client
    faults   \* faults so far

assembled == <<config, proc, req, users, tokens, faults>>

Idle == [pc |-> "idle", at |-> None, uid |-> None]

-----------------------------------------------------------------------------
(* Starting. *)

Authenticators == {"base_auth", "authlib_oidc", "local_dev"}

(* A string names realms between commas, blank ones do not count; the      *)
(* entries of a list all do.                                               *)
AsRealmTuple(value) ==
    IF value.string THEN SelectSeq(value.items, LAMBDA r : r # None) ELSE value.items

(* Seeded fault: several realms are allowed. *)
RefusedWithoutRealm(d) ==
    \/ d.auth_name \notin Authenticators
    \/ d.kerberos /\ (AsRealmTuple(d.allowed_realms) = <<>> \/ ~d.absolute)

(* KeyError of the factory, KerberosConfigError of the acceptor. *)
Refused(d) ==
    \/ d.auth_name \notin Authenticators
    \/ d.kerberos /\ (Len(AsRealmTuple(d.allowed_realms)) # 1 \/ ~d.absolute)

MakeApp(p) ==
    /\ proc[p] = "down"
    /\ proc' = [proc EXCEPT ![p] = IF Refused(config) THEN "refused" ELSE "up"]
    /\ UNCHANGED <<config, req, users, tokens, faults>>

Fault == faults < MaxFaults /\ faults' = faults + 1

(* Whoever waits for an answer of the process asks again. *)
Crash(p) ==
    /\ proc[p] = "up" /\ proc' = [proc EXCEPT ![p] = "down"] /\ Fault
    /\ req' = [c \in Clients |-> IF req[c].at = p THEN Idle ELSE req[c]]
    /\ UNCHANGED <<config, users, tokens>>

-----------------------------------------------------------------------------
(* Requests. *)

Via(c) == config.client[c].via

Send(c, p, from, to) ==
    /\ req[c].pc = from /\ proc[p] = "up"
    /\ req' = [req EXCEPT ![c] = [pc |-> to, at |-> p, uid |-> None]]

Answer(c, pc) == req' = [req EXCEPT ![c] = [Idle EXCEPT !.pc = pc]]

(* An authenticator's `get_user'; it answers 401 or, OIDC, 500.           *)
GetUser(c, uid) ==
    IF uid \in users
    THEN req' = [req EXCEPT ![c].pc = "known", ![c].uid = uid]
    ELSE Answer(c, "idle")

(* Seeded fault: nothing ties a token to its user. *)
CreateUnchecked(c) ==
    LET uid == req[c].uid IN
    /\ req[c].pc = "known" /\ Answer(c, "done")
    /\ tokens' = tokens \cup {[uid |-> uid, client |-> c]}
    /\ UNCHANGED <<config, proc, users, faults>>

(* create_token_for_user: the row refers to the user, who may be gone by   *)
(* now (500); the name may be taken (409): the client has its token.       *)
Create(c) ==
    LET uid == req[c].uid IN
    /\ req[c].pc = "known"
    /\ \/ uid \in users /\ Answer(c, "done")
          /\ tokens' = tokens \cup {[uid |-> uid, client |-> c]}
       \/ uid \notin users /\ Answer(c, "idle") /\ UNCHANGED tokens
    /\ UNCHANGED <<config, proc, users, faults>>

(* local_dev asks for no credential, and names the user of its settings.   *)
AskLocally(c, p) ==
    /\ config.auth_name = "local_dev"
    /\ Via(c) = "local" /\ Send(c, p, "idle", "post")
    /\ UNCHANGED <<config, proc, users, tokens, faults>>

LocalDev(c) ==
    /\ Via(c) = "local" /\ req[c].pc = "post" /\ GetUser(c, config.uid)
    /\ UNCHANGED <<config, proc, users, tokens, faults>>

-----------------------------------------------------------------------------
(* Administrators. *)

AddUser(u) ==
    /\ u \notin users /\ users' = users \cup {u}
    /\ UNCHANGED <<config, proc, req, tokens, faults>>

RemoveUser(u) ==
    /\ u \in users /\ users' = users \ {u}
    /\ tokens' = {t \in tokens : t.uid # u}
    /\ UNCHANGED <<config, proc, req, faults>>
=============================================================================
