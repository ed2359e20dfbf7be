-------------------------- MODULE UserAuthProperties --------------------------
(***************************************************************************)
(* What the authenticators of users must guarantee.                        *)
(***************************************************************************)
EXTENDS UserAuth

Requests ==
    [pc : {"idle", "bare", "challenged", "negotiate", "leg", "continue", "page",
           "redirected", "login", "idp", "callback", "landed", "in", "post", "known",
           "done", "closed"},
     at : Procs \cup {None}, uid : Users \cup {None}]

Nexts == {Root} \cup {Kept(t) : t \in Clients}

Sessions ==
    [user : {None, config.person}, next : Nexts, states : SUBSET Clients]

(* Every variable stays of its type; requests are only at processes that  *)
(* are up, and tokens only of users that are there.                       *)
TypeOK ==
    /\ config \in Deployments
    /\ proc \in [Procs -> {"down", "up", "refused"}]
    /\ req \in [Clients -> Requests]
    /\ \A c \in Clients : req[c].at # None => proc[req[c].at] = "up"
    /\ users \subseteq Users /\ tokens \subseteq [uid : users, client : Clients]
    /\ faults \in 0..MaxFaults
    /\ keytab \in {"good", "bad"} /\ creds \in [Procs -> {"none", "held"}]
    /\ cookie \in Sessions /\ carried \in [Clients -> Sessions]
    /\ landed \in [Clients -> {None} \cup {Quote(n) : n \in Nexts}] /\ alone \in [Clients -> BOOLEAN]

(* Tokens of one uid are never had by two Kerberos principals, whatever   *)
(* realms are configured and whichever vouch for a name: not alice@A and  *)
(* alice@B, not alice and alice/admin (kerberos.py:140-151, 217-239).     *)
OnePrincipalPerUid ==
    \A t1, t2 \in tokens :
        /\ Via(t1.client) = "negotiate" /\ Via(t2.client) = "negotiate" /\ t1.uid = t2.uid
        => config.client[t1.client].principal = config.client[t2.client].principal

(* A page whose URL encodes what it must, once, and nothing else, and has *)
(* no "&", "#" or "+", and a query only where a proxy sets X-Target.      *)
Returnable(page) ==
    \A i \in DOMAIN page :
        LET x == page[i] IN
        /\ x.escapes = IF x.char = " " THEN 1 ELSE 0
        /\ x \notin {Raw("&"), Raw("#"), Raw("+")}
        /\ x = Raw("?") => config.x_target

(* A login leads back to the page it began at, if the page's URL survives *)
(* being quoted too little and unquoted twice, though other tabs load     *)
(* pages and create tokens meanwhile and set the cookie as it was before, *)
(* and whatever logins given up before have left in it, as long as no     *)
(* other tab logs in at the same time (dependencies.py:195-240).          *)
NextHonoured ==
    \A t \in Clients :
        req[t].pc = "landed" /\ alone[t] /\ Returnable(Page(t)) => landed[t] = Page(t)

Served(c) == <>(req[c].pc = "done")

(* A keytab put right is picked up, without a restart and however often   *)
(* calls failed before: whoever can prove a name that a user has gets a   *)
(* token, if the mechanism needs one leg (kerberos.py:161-184).           *)
KeytabPickedUp ==
    \A c \in Clients :
        /\ Via(c) = "negotiate" /\ config.client[c].legs = 1 /\ ~Refused(config)
        /\ <>[](keytab = "good" /\ PrincipalToUid(config.client[c].principal) \in users)
        => Served(c)

(* A keytab that stays unusable keeps nobody from the other endpoint      *)
(* (kerberos.py:163-167).                                                 *)
OthersServed ==
    \A c \in Clients :
        Via(c) = "local" /\ ~Refused(config) /\ <>[](config.uid \in users) => Served(c)

(* A tab whose rivals are served or closed at last gets in and gets its   *)
(* token, whatever they made of the cookie (dependencies.py:195-240).     *)
LoginEnds ==
    \A t \in Clients :
        /\ Via(t) = "browser" /\ [](req[t].pc # "closed")
        /\ <>[](/\ config.person \in users
                /\ \A u \in Clients \ {t} : req[u].pc \in {"done", "closed"})
        => Served(t)
=============================================================================
