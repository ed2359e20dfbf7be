------------------------------- MODULE UserAuth -------------------------------
(***************************************************************************)
(* The service with all its ways to authenticate a user: the authenticator *)
(* that AUTH.auth_name chooses, and Kerberos beside it.                    *)
(***************************************************************************)
EXTENDS Kerberos, OidcLogin

vars == <<config, proc, req, users, tokens, faults, keytab, creds,
          cookie, carried, landed, alone>>

(* Clients have a name in each of its parts, and tabs a page, a URL; a     *)
(* realm setting comes to a sequence.                                      *)
ASSUME AuthAssumption ==
    /\ None \notin Users \cup Procs
    /\ MaxFaults \in Nat
    /\ \A d \in Deployments :
           /\ LET realms == AsRealmTuple(d.allowed_realms) IN DOMAIN realms = 1..Len(realms)
           /\ \A c \in Clients :
                  LET principal == d.client[c].principal IN
                  /\ d.client[c].page \in Url
                  /\ principal = [local |-> principal.local, instance |-> principal.instance,
                                  realm |-> principal.realm]

Init ==
    /\ config \in Deployments
    /\ proc = [p \in Procs |-> "down"] /\ req = [c \in Clients |-> Idle]
    /\ users = {} /\ tokens = {} /\ faults = 0
    /\ keytab = "bad" /\ creds = [p \in Procs |-> "none"]
    /\ cookie = NoSession /\ carried = [t \in Clients |-> NoSession]
    /\ landed = [t \in Clients |-> None] /\ alone = [t \in Clients |-> FALSE]

(* Seeded fault: the credential is acquired when the app is made. *)
StartWithCredential(p) ==
    /\ config.kerberos => keytab = "good"
    /\ MakeApp(p) /\ NewAcceptor(p) /\ UNCHANGED keytab /\ UNCHANGED browser

Start(p) ==
    /\ MakeApp(p) /\ NewAcceptor(p) /\ UNCHANGED keytab /\ UNCHANGED browser

Stop(p) ==
    /\ Crash(p) /\ NewAcceptor(p) /\ UNCHANGED keytab /\ UNCHANGED browser

(* What a client, or the process it asked, does next. *)
Proceed(c) ==
    \/ /\ Create(c) /\ UNCHANGED kerberos
       /\ IF Via(c) = "browser" THEN Answered(c) ELSE UNCHANGED browser
    \/ /\ LocalDev(c) \/ \E p \in Procs : AskLocally(c, p)
       /\ UNCHANGED kerberos /\ UNCHANGED browser
    \/ KerberosCall(c) /\ UNCHANGED browser
    \/ (\E p \in Procs : Negotiate(c, p)) /\ UNCHANGED browser
    \/ OidcCall(c) /\ UNCHANGED kerberos
    \/ /\ \E p \in Procs : Open(c, p) \/ Login(c, p) \/ SignIn(c, p) \/ Post(c, p)
       /\ UNCHANGED kerberos

Environment ==
    \/ \E u \in Users : (AddUser(u) \/ RemoveUser(u)) /\ UNCHANGED <<kerberos, browser>>
    \/ config.kerberos /\ WriteKeytab /\ UNCHANGED browser
    \/ (\E t \in Clients : ProviderFails(t) \/ Close(t)) /\ UNCHANGED kerberos
    \/ Expire /\ UNCHANGED kerberos
    \/ \E p \in Procs : Stop(p)

Next == (\E p \in Procs : Start(p)) \/ (\E c \in Clients : Proceed(c)) \/ Environment

Spec == Init /\ [][Next]_vars

(* Processes are started again, handlers run, and clients ask until they  *)
(* have their token.                                                      *)
FairSpec ==
    /\ Spec /\ \A p \in Procs : WF_vars(Start(p))
    /\ \A c \in Clients : WF_vars(Proceed(c))
=============================================================================
