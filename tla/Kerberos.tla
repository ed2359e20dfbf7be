------------------------------- MODULE Kerberos -------------------------------
(***************************************************************************)
(* POST /krb/token: KerberosAuthenticator (dependencies.py) and the        *)
(* acceptor behind it (auth/kerberos.py).  A credential is acquired from   *)
(* the keytab on first use and kept; each request has a context of its     *)
(* own.  GSSAPI itself is modelled by what the acceptor relies on: the     *)
(* keytab is read for the credential and again for each token, and a token *)
(* that continues a handshake means nothing to a new context.              *)
(***************************************************************************)
EXTENDS Assembly

VARIABLES
    keytab,  \* the file: "good" or "bad"
    creds    \* process -> its credential: "none" or "held"

kerberos == <<keytab, creds>>

-----------------------------------------------------------------------------
(* Administrators write the keytab, or break it. *)
WriteKeytab ==
    /\ keytab' \in {"good", "bad"} \ {keytab}
    /\ UNCHANGED creds /\ UNCHANGED assembled

NewAcceptor(p) == creds' = [creds EXCEPT ![p] = "none"]

(* A client asks without credentials, is challenged, and sends its token; *)
(* its mechanism may want another round.                                  *)
Negotiate(c, p) ==
    /\ config.kerberos /\ Via(c) = "negotiate"
    /\ \/ Send(c, p, "idle", "bare")
       \/ Send(c, p, "challenged", "negotiate")
       \/ Send(c, p, "leg", "continue")
    /\ UNCHANGED <<config, proc, users, tokens, faults>> /\ UNCHANGED kerberos

(* Seeded fault: whatever realm vouches for the name. *)
AnyRealmToUid(principal) ==
    IF principal.realm # None /\ principal.instance = None THEN principal.local ELSE None

(* Neither a realm that is not allowed nor an instance becomes a uid. *)
PrincipalToUid(principal) ==
    IF /\ principal.realm # None
       /\ \E i \in DOMAIN AsRealmTuple(config.allowed_realms) :
              AsRealmTuple(config.allowed_realms)[i] = principal.realm
       /\ principal.instance = None
    THEN principal.local ELSE None

Challenge(c) ==
    /\ req[c].pc = "bare" /\ Answer(c, "challenged")
    /\ UNCHANGED creds

Available(p) == creds[p] = "held" \/ (creds[p] = "none" /\ keytab = "good")

Acquire(p) == Available(p) /\ creds' = [creds EXCEPT ![p] = "held"]

(* Seeded fault: the failure is kept. *)
UnavailableKept(c) ==
    /\ req[c].pc \in {"negotiate", "continue"} /\ ~Available(req[c].at)
    /\ Answer(c, "idle") /\ creds' = [creds EXCEPT ![req[c].at] = "failed"]

(* No credential: 503, and nothing is kept. *)
Unavailable(c) ==
    /\ req[c].pc \in {"negotiate", "continue"} /\ ~Available(req[c].at)
    /\ Answer(c, "idle") /\ UNCHANGED creds

(* GSSError: 401. *)
Reject(c) ==
    /\ req[c].pc \in {"negotiate", "continue"} /\ Acquire(req[c].at)
    /\ keytab = "bad" \/ req[c].pc = "continue"
    /\ Answer(c, "idle")

(* Not complete: 401 with the token the mechanism wants to be sent. *)
Continue(c) ==
    /\ req[c].pc = "negotiate" /\ Acquire(req[c].at) /\ keytab = "good"
    /\ config.client[c].legs = 2 /\ Answer(c, "leg")

Accept(c) ==
    /\ req[c].pc = "negotiate" /\ Acquire(req[c].at) /\ keytab = "good"
    /\ config.client[c].legs = 1
    /\ GetUser(c, PrincipalToUid(config.client[c].principal))

KerberosCall(c) ==
    /\ Via(c) = "negotiate"
    /\ Challenge(c) \/ Unavailable(c) \/ Reject(c) \/ Continue(c) \/ Accept(c)
    /\ UNCHANGED <<config, proc, users, tokens, faults, keytab>>
=============================================================================
