------------------------------ MODULE AuthProofs -------------------------------
(***************************************************************************)
(* Theorems about UserAuth for any processes, users, clients and           *)
(* deployments.                                                            *)
(***************************************************************************)
EXTENDS UserAuthProperties, TLAPS

-----------------------------------------------------------------------------
(* How the request of a client changes. *)

ReqOK ==
    /\ req \in [Clients -> Requests]
    /\ \A c \in Clients : req[c].at # None => proc[req[c].at] = "up"

(* Only that of c, and to r. *)
Becomes(c, r) == req' = [req EXCEPT ![c] = r]

LEMMA BecomesOK ==
    ASSUME ReqOK, UNCHANGED proc, NEW c \in Clients, NEW r \in Requests, Becomes(c, r),
           r.at # None => proc[r.at] = "up"
    PROVE  /\ ReqOK' /\ req'[c] = r
           /\ \A d \in Clients \ {c} : req'[d] = req[d]
BY DEF ReqOK, Becomes

LEMMA Sent ==
    ASSUME ReqOK, UNCHANGED proc, NEW c \in Clients, NEW p \in Procs, NEW from, NEW to,
           to \in {"bare", "negotiate", "continue", "page", "login", "callback", "post"},
           Send(c, p, from, to)
    PROVE  /\ ReqOK' /\ req'[c] = [pc |-> to, at |-> p, uid |-> None]
           /\ \A d \in Clients \ {c} : req'[d] = req[d]
<1> DEFINE r == [pc |-> to, at |-> p, uid |-> None]
<1>1. r \in Requests /\ proc[p] = "up" /\ Becomes(c, r)
  BY DEF Send, Requests, Becomes
<1> QED BY <1>1, BecomesOK

LEMMA Replied ==
    ASSUME ReqOK, UNCHANGED proc, NEW c \in Clients, NEW pc,
           pc \in {"idle", "challenged", "leg", "redirected", "idp", "landed", "in",
                   "done", "closed"},
           Answer(c, pc)
    PROVE  /\ ReqOK' /\ req'[c] = [pc |-> pc, at |-> None, uid |-> None]
           /\ \A d \in Clients \ {c} : req'[d] = req[d]
<1> DEFINE r == [pc |-> pc, at |-> None, uid |-> None]
<1>1. [Idle EXCEPT !.pc = pc] = r
  BY DEF Idle
<1>2. Becomes(c, r)
  BY <1>1 DEF Answer, Becomes
<1>3. r \in Requests /\ r.at = None
  BY DEF Requests
<1> QED BY <1>2, <1>3, BecomesOK

LEMMA Got ==
    ASSUME ReqOK, UNCHANGED proc, users \subseteq Users, NEW c \in Clients, NEW uid,
           GetUser(c, uid)
    PROVE  /\ ReqOK'
           /\ \/ uid \in users /\ req'[c] = [pc |-> "known", at |-> req[c].at, uid |-> uid]
              \/ req'[c] = [pc |-> "idle", at |-> None, uid |-> None]
           /\ \A d \in Clients \ {c} : req'[d] = req[d]
<1>1. CASE uid \in users
  <2> DEFINE r == [pc |-> "known", at |-> req[c].at, uid |-> uid]
  <2>1. r \in Requests /\ r.at = req[c].at
    BY <1>1 DEF ReqOK, Requests
  <2>2. Becomes(c, r)
    <3> DEFINE q == [req[c] EXCEPT !.pc = "known", !.uid = uid]
    <3>1. Becomes(c, q)
      BY <1>1 DEF GetUser, Becomes, ReqOK
    <3>2. DOMAIN req[c] = {"pc", "at", "uid"}
      BY DEF ReqOK, Requests
    <3>3. q = [i \in DOMAIN req[c] |-> IF i = "uid" THEN uid ELSE IF i = "pc" THEN "known" ELSE req[c][i]]
      BY Zenon
    <3>4. r = [i \in {"pc", "at", "uid"} |-> r[i]]
      OBVIOUS
    <3> QED BY <3>1, <3>2, <3>3, <3>4
  <2>3. r.at # None => proc[r.at] = "up"
    BY <2>1 DEF ReqOK
  <2> QED BY <1>1, <2>1, <2>2, <2>3, BecomesOK
<1>2. CASE uid \notin users
  BY <1>2, Replied DEF GetUser
<1> QED BY <1>1, <1>2

-----------------------------------------------------------------------------
(* The inductive invariant. *)

ProcOK == config \in Deployments /\ proc \in [Procs -> {"down", "up", "refused"}]

TablesOK ==
    /\ users \subseteq Users /\ tokens \subseteq [uid : users, client : Clients]
    /\ faults \in 0..MaxFaults

KerberosOK == keytab \in {"good", "bad"} /\ creds \in [Procs -> {"none", "held"}]

BrowserOK ==
    /\ cookie \in Sessions /\ carried \in [Clients -> Sessions]
    /\ landed \in [Clients -> {None} \cup {Quote(n) : n \in Nexts}] /\ alone \in [Clients -> BOOLEAN]

LEMMA Parts == TypeOK <=> ProcOK /\ ReqOK /\ TablesOK /\ KerberosOK /\ BrowserOK
BY DEF TypeOK, ProcOK, ReqOK, TablesOK, KerberosOK, BrowserOK

(* A request that waits for an answer is at a process. *)
PlacedAt(r) ==
    r.pc \in {"bare", "negotiate", "continue", "page", "login", "callback", "post", "known"} =>
        r.at # None

Placed == \A c \in Clients : PlacedAt(req[c])

(* Processes that are up, and those that made a token, were not refused.  *)
Upright ==
    /\ \A p \in Procs : proc[p] = "up" => ~Refused(config)
    /\ tokens # {} => ~Refused(config)

(* What a Kerberos client is known as, and has its token as. *)
Uid(c) == PrincipalToUid(config.client[c].principal)

NamedAs(c, r) ==
    Via(c) = "negotiate" =>
        /\ r.pc # "idle" => config.kerberos
        /\ r.pc = "known" => r.uid = Uid(c)

Named ==
    /\ \A c \in Clients : NamedAs(c, req[c])
    /\ \A t \in tokens : Via(t.client) = "negotiate" => config.kerberos /\ t.uid = Uid(t.client)

(* A session with the state of the login of t has its page. *)
KeptBy(s, t) == t \in s.states => s.next = Kept(t)

Underway == {"login", "idp", "callback"}

(* No session has the state of a login that is yet to draw it.  While a   *)
(* tab logs in alone, every session with the state of its login, in the   *)
(* cookie or with a request, has its page.                                *)
FollowedBy(t) ==
    /\ req[t].pc = "login" =>
           t \notin cookie.states /\ \A v \in Clients : t \notin carried[v].states
    /\ alone[t] =>
           /\ req[t].pc \in Underway => \A v \in Clients \ {t} : ~LoggingIn(req[v])
           /\ req[t].pc \in Underway =>
                  KeptBy(cookie, t) /\ \A v \in Clients : KeptBy(carried[v], t)
           /\ req[t].pc = "landed" => landed[t] = Quote(Kept(t))

Followed == \A t \in Clients : FollowedBy(t)

Inv == TypeOK /\ Placed /\ Upright /\ Named /\ Followed

-----------------------------------------------------------------------------
(* Steps that leave the settings as they are; all do. *)

LEMMA SameConfig ==
    ASSUME UNCHANGED config
    PROVE  /\ \A c : Via(c)' = Via(c) /\ Uid(c)' = Uid(c) /\ Kept(c)' = Kept(c)
           /\ Sessions' = Sessions /\ Nexts' = Nexts
           /\ \A c, r : NamedAs(c, r) => NamedAs(c, r)'
<1>1. \A c : Via(c)' = Via(c) /\ Kept(c)' = Kept(c)
  BY DEF Via, Kept, Page
<1>2. \A c : Uid(c)' = Uid(c)
  BY DEF Uid, PrincipalToUid
<1>3. Sessions' = Sessions /\ Nexts' = Nexts
  BY <1>1 DEF Sessions, Nexts
<1>4. \A c, r : NamedAs(c, r) => NamedAs(c, r)'
  BY <1>1, <1>2 DEF NamedAs
<1> QED BY <1>1, <1>2, <1>3, <1>4

LEMMA OneRequest ==
    ASSUME Placed, Named, UNCHANGED <<config, tokens>>, NEW c \in Clients,
           \A d \in Clients \ {c} : req'[d] = req[d],
           PlacedAt(req'[c]), NamedAs(c, req'[c])
    PROVE  Placed' /\ Named'
<1>1. Placed'
  BY DEF Placed, PlacedAt
<1>2. \A d \in Clients : NamedAs(d, req'[d])
  BY DEF Named
<1>3. \A d \in Clients : NamedAs(d, req[d])'
  <2> TAKE d \in Clients
  <2>1. NamedAs(d, req'[d])
    BY <1>2
  <2> QED BY <2>1, SameConfig DEF NamedAs
<1>4. \A t \in tokens' : Via(t.client)' = "negotiate"
                             => config'.kerberos /\ t.uid = Uid(t.client)'
  BY SameConfig DEF Named
<1> QED BY <1>1, <1>3, <1>4 DEF Named

(* A client that neither logs in nor sets the cookie disturbs no login.   *)
LEMMA Aside ==
    ASSUME Followed, UNCHANGED config, UNCHANGED browser, NEW c \in Clients,
           \A d \in Clients \ {c} : req'[d] = req[d],
           req'[c].pc \notin Underway \cup {"landed"}
    PROVE  Followed'
<1> SUFFICES ASSUME NEW t \in Clients PROVE FollowedBy(t)'
  BY DEF Followed
<1>1. FollowedBy(t)
  BY DEF Followed
<1>2. ~LoggingIn(req'[c])
  BY DEF LoggingIn, Underway
<1>3. \A v \in Clients : ~LoggingIn(req[v]) => ~LoggingIn(req'[v])
  BY <1>2
<1> QED BY <1>1, <1>3, SameConfig DEF FollowedBy, KeptBy, browser, LoggingIn, Underway

(* A tab whose request is over, and that may have set the cookie as it    *)
(* was when the request was sent, disturbs no login either.               *)
LEMMA Leaves ==
    ASSUME Followed, BrowserOK, UNCHANGED config, NEW c \in Clients, Over(c),
           UNCHANGED cookie \/ cookie' = carried[c],
           \A d \in Clients \ {c} : req'[d] = req[d],
           req'[c].pc \notin Underway \cup {"landed"}
    PROVE  Followed'
<1> SUFFICES ASSUME NEW t \in Clients PROVE FollowedBy(t)'
  BY DEF Followed
<1>1. FollowedBy(t)
  BY DEF Followed
<1>2. \A v \in Clients : ~LoggingIn(req[v]) => ~LoggingIn(req'[v])
  BY DEF LoggingIn, Underway
<1>3. \A v \in Clients : carried'[v] = carried[v] \/ carried'[v].states = {}
  BY DEF Over, NoSession, BrowserOK
<1> QED BY <1>1, <1>2, <1>3, SameConfig DEF FollowedBy, KeptBy, Over, LoggingIn, Underway

(* Nor does the end of requests, or of the cookie. *)
LEMMA Undisturbed ==
    ASSUME Followed, UNCHANGED <<config, carried, landed, alone>>,
           UNCHANGED cookie \/ cookie' = NoSession,
           \A c \in Clients : req'[c] = req[c] \/ req'[c] = Idle
    PROVE  Followed'
<1> SUFFICES ASSUME NEW t \in Clients PROVE FollowedBy(t)'
  BY DEF Followed
<1>1. FollowedBy(t)
  BY DEF Followed
<1>2. Idle.pc \notin Underway \cup {"landed"} /\ NoSession.states = {}
  BY DEF Idle, Underway, NoSession
<1>3. \A v \in Clients : ~LoggingIn(req[v]) => ~LoggingIn(req'[v])
  BY DEF LoggingIn, Idle
<1>4. KeptBy(cookie, t) => KeptBy(cookie, t)'
  BY <1>2, SameConfig DEF KeptBy
<1>5. \A v \in Clients : KeptBy(carried[v], t) => KeptBy(carried[v], t)'
  BY SameConfig DEF KeptBy
<1>6. CASE req'[t] = req[t]
  BY <1>1, <1>2, <1>3, <1>4, <1>5, <1>6, SameConfig DEF FollowedBy
<1>7. CASE req'[t] = Idle
  BY <1>2, <1>7 DEF FollowedBy, Underway
<1> QED BY <1>6, <1>7

LEMMA SameBrowser ==
    ASSUME BrowserOK, UNCHANGED config, UNCHANGED browser
    PROVE  BrowserOK'
BY SameConfig DEF BrowserOK, browser

-----------------------------------------------------------------------------
(* A step of a client: its request changes and no other. *)

Alone(c) ==
    /\ ReqOK' /\ \A d \in Clients \ {c} : req'[d] = req[d]
    /\ PlacedAt(req'[c]) /\ NamedAs(c, req'[c])

LEMMA ClientStep ==
    ASSUME Inv, NEW c \in Clients, Via(c) # "browser", Alone(c),
           req'[c].pc \notin Underway \cup {"landed"}, KerberosOK',
           UNCHANGED <<config, proc, users, tokens, faults>>, UNCHANGED browser
    PROVE  Inv'
<1>1. ProcOK' /\ TablesOK' /\ BrowserOK'
  BY Parts, SameBrowser DEF Inv, ProcOK, TablesOK
<1>2. TypeOK'
  <2>1. ReqOK' /\ KerberosOK' /\ (TypeOK <=> ProcOK /\ ReqOK /\ TablesOK /\ KerberosOK /\ BrowserOK)'
    BY Parts, PTL DEF Alone
  <2> QED BY <1>1, <2>1
<1>3. Placed' /\ Named'
  BY OneRequest DEF Inv, Alone
<1>4. Followed'
  BY Aside DEF Inv, Alone
<1>5. Upright'
  BY DEF Inv, Upright, Refused
<1> QED BY <1>2, <1>3, <1>4, <1>5 DEF Inv

LEMMA TabStep ==
    ASSUME Inv, NEW c \in Clients, Via(c) = "browser",
           ReqOK', \A d \in Clients \ {c} : req'[d] = req[d], PlacedAt(req'[c]),
           BrowserOK', Followed', faults' \in 0..MaxFaults,
           UNCHANGED <<config, proc, users, tokens>>, UNCHANGED kerberos
    PROVE  Inv'
<1>1. ProcOK' /\ TablesOK' /\ KerberosOK'
  BY Parts DEF Inv, ProcOK, TablesOK, KerberosOK, kerberos
<1>2. TypeOK'
  <2>1. (TypeOK <=> ProcOK /\ ReqOK /\ TablesOK /\ KerberosOK /\ BrowserOK)'
    BY Parts, PTL
  <2> QED BY <1>1, <2>1
<1>3. Placed' /\ Named'
  BY OneRequest DEF Inv, NamedAs
<1>4. Upright'
  BY DEF Inv, Upright, Refused
<1> QED BY <1>2, <1>3, <1>4 DEF Inv

-----------------------------------------------------------------------------
(* Kerberos and local development. *)

LEMMA NegotiateStep ==
    ASSUME Inv, NEW c \in Clients, NEW p \in Procs, Negotiate(c, p), UNCHANGED browser
    PROVE  Inv'
<1>1. ReqOK
  BY Parts DEF Inv
<1>2. PICK to \in {"bare", "negotiate", "continue"} : \E from : Send(c, p, from, to)
  BY DEF Negotiate
<1>3. /\ ReqOK' /\ req'[c] = [pc |-> to, at |-> p, uid |-> None]
      /\ \A d \in Clients \ {c} : req'[d] = req[d]
  BY <1>1, <1>2, Sent DEF Negotiate
<1>4. p # None
  BY AuthAssumption DEF AuthAssumption
<1>5. Alone(c)
  BY <1>3, <1>4 DEF Alone, PlacedAt, NamedAs, Negotiate
<1>6. KerberosOK'
  BY Parts DEF Inv, KerberosOK, Negotiate, kerberos
<1> QED BY <1>3, <1>5, <1>6, ClientStep DEF Negotiate, Underway

LEMMA KerberosStep ==
    ASSUME Inv, NEW c \in Clients, KerberosCall(c), UNCHANGED browser
    PROVE  Inv'
<1>1. ReqOK /\ KerberosOK /\ users \subseteq Users /\ PlacedAt(req[c]) /\ NamedAs(c, req[c])
  BY Parts DEF Inv, TablesOK, Placed, Named
<1>2. Via(c) = "negotiate" /\ UNCHANGED <<config, proc, users, tokens, faults, keytab>>
  BY DEF KerberosCall
<1>3. req[c].at \in Procs
  <2>1. CASE Challenge(c)
    BY <1>1, <2>1 DEF Challenge, PlacedAt, ReqOK, Requests
  <2>2. CASE ~Challenge(c)
    BY <1>1, <2>2 DEF KerberosCall, Unavailable, Reject, Continue, Accept, PlacedAt, ReqOK, Requests
  <2> QED BY <2>1, <2>2
<1>4. config.kerberos
  BY <1>1, <1>2 DEF NamedAs, KerberosCall, Challenge, Unavailable, Reject, Continue, Accept
<1>5. KerberosOK'
  <2>1. CASE UNCHANGED creds
    BY <1>1, <1>2, <2>1 DEF KerberosOK
  <2>2. CASE creds' = [creds EXCEPT ![req[c].at] = "held"]
    BY <1>1, <1>2, <2>2 DEF KerberosOK
  <2> QED
    BY <2>1, <2>2 DEF KerberosCall, Challenge, Unavailable, Reject, Continue, Accept, Acquire
<1>6. ASSUME NEW pc \in {"idle", "challenged", "leg"}, Answer(c, pc)
      PROVE  Inv'
  <2>1. /\ ReqOK' /\ req'[c] = [pc |-> pc, at |-> None, uid |-> None]
        /\ \A d \in Clients \ {c} : req'[d] = req[d]
    BY <1>1, <1>2, <1>6, Replied
  <2>2. Alone(c)
    BY <1>4, <2>1 DEF Alone, PlacedAt, NamedAs
  <2> QED BY <1>2, <1>5, <2>1, <2>2, ClientStep DEF Underway
<1>7. ASSUME GetUser(c, Uid(c))
      PROVE  Inv'
  <2>1. /\ ReqOK'
        /\ \/ req'[c] = [pc |-> "known", at |-> req[c].at, uid |-> Uid(c)]
           \/ req'[c] = [pc |-> "idle", at |-> None, uid |-> None]
        /\ \A d \in Clients \ {c} : req'[d] = req[d]
    BY <1>1, <1>2, <1>7, Got
  <2>2. req'[c].pc \in {"known", "idle"} /\ (req'[c].pc = "known" =>
            req'[c].at = req[c].at /\ req'[c].uid = Uid(c))
    BY <2>1
  <2>3. req[c].at # None
    BY <1>3, AuthAssumption DEF AuthAssumption
  <2>4. Alone(c)
    BY <1>4, <2>1, <2>2, <2>3 DEF Alone, PlacedAt, NamedAs
  <2> QED BY <1>2, <1>5, <2>2, <2>4, ClientStep DEF Underway
<1> QED
  BY <1>6, <1>7 DEF KerberosCall, Challenge, Unavailable, Reject, Continue, Accept, Uid

LEMMA LocalStep ==
    ASSUME Inv, NEW c \in Clients, LocalDev(c) \/ \E p \in Procs : AskLocally(c, p),
           UNCHANGED kerberos, UNCHANGED browser
    PROVE  Inv'
<1>1. ReqOK /\ KerberosOK' /\ users \subseteq Users /\ PlacedAt(req[c])
  BY Parts DEF Inv, KerberosOK, kerberos, TablesOK, Placed
<1>2. Via(c) = "local" /\ UNCHANGED <<config, proc, users, tokens, faults>>
  BY DEF LocalDev, AskLocally
<1>3. ASSUME Alone(c), req'[c].pc \in {"post", "known", "idle"} PROVE Inv'
  BY <1>1, <1>2, <1>3, ClientStep DEF Underway
<1>4. CASE LocalDev(c)
  <2>1. /\ ReqOK'
        /\ \/ req'[c] = [pc |-> "known", at |-> req[c].at, uid |-> config.uid]
           \/ req'[c] = [pc |-> "idle", at |-> None, uid |-> None]
        /\ \A d \in Clients \ {c} : req'[d] = req[d]
    BY <1>1, <1>2, <1>4, Got DEF LocalDev
  <2>2. req'[c].pc \in {"known", "idle"} /\ (req'[c].pc = "known" => req'[c].at = req[c].at)
    BY <2>1
  <2>3. req[c].at # None
    BY <1>1, <1>4 DEF LocalDev, PlacedAt
  <2>4. Alone(c)
    BY <1>2, <2>1, <2>2, <2>3 DEF Alone, PlacedAt, NamedAs
  <2> QED BY <1>3, <2>2, <2>4
<1>5. ASSUME NEW p \in Procs, AskLocally(c, p) PROVE Inv'
  <2>1. /\ ReqOK' /\ req'[c] = [pc |-> "post", at |-> p, uid |-> None]
        /\ \A d \in Clients \ {c} : req'[d] = req[d]
    BY <1>1, <1>2, <1>5, Sent DEF AskLocally
  <2>2. p # None
    BY AuthAssumption DEF AuthAssumption
  <2>3. Alone(c)
    BY <1>2, <2>1, <2>2 DEF Alone, PlacedAt, NamedAs
  <2> QED BY <1>3, <2>1, <2>3
<1> QED BY <1>4, <1>5

-----------------------------------------------------------------------------
(* The tabs of the browser. *)

LEMMA SendItStep ==
    ASSUME Inv, NEW t \in Clients, UNCHANGED kerberos, NEW p \in Procs, NEW from,
           NEW to \in {"page", "login", "callback", "post"}, SendIt(t, p, from, to),
           cookie' \in Sessions, carried' \in [Clients -> Sessions], Followed'
    PROVE  Inv'
<1>1. ReqOK /\ BrowserOK /\ faults \in 0..MaxFaults
  BY Parts DEF Inv, TablesOK
<1>2. Via(t) = "browser" /\ UNCHANGED <<config, proc, users, tokens, faults>>
  BY DEF SendIt
<1>3. /\ ReqOK' /\ req'[t] = [pc |-> to, at |-> p, uid |-> None]
      /\ \A d \in Clients \ {t} : req'[d] = req[d]
  BY <1>1, <1>2, Sent DEF SendIt
<1>4. PlacedAt(req'[t])
  BY <1>3, AuthAssumption DEF PlacedAt, AuthAssumption
<1>5. BrowserOK'
  BY <1>1, <1>2, SameConfig DEF BrowserOK, SendIt
<1> QED BY <1>1, <1>2, <1>3, <1>4, <1>5, TabStep

LEMMA SendCookieStep ==
    ASSUME Inv, NEW t \in Clients, UNCHANGED kerberos, NEW p \in Procs, NEW from,
           NEW to \in {"page", "callback", "post"}, SendCookie(t, p, from, to),
           to = "callback" => req[t].pc = "idp"
    PROVE  Inv'
<1>1. ReqOK /\ BrowserOK /\ Followed
  BY Parts DEF Inv
<1>2. UNCHANGED <<config, proc, cookie>> /\ SendIt(t, p, from, to)
  BY DEF SendCookie, SendIt
<1>3. /\ req'[t] = [pc |-> to, at |-> p, uid |-> None]
      /\ \A d \in Clients \ {t} : req'[d] = req[d]
  BY <1>1, <1>2, Sent DEF SendIt
<1>4. /\ carried'[t] = cookie /\ \A v \in Clients \ {t} : carried'[v] = carried[v]
      /\ cookie' \in Sessions /\ carried' \in [Clients -> Sessions]
  BY <1>1, <1>2, SameConfig DEF SendCookie, BrowserOK
<1>5. ASSUME NEW u \in Clients PROVE FollowedBy(u)'
  <2>1. FollowedBy(u)
    BY <1>1 DEF Followed
  <2>2. CASE u = t
    <3>1. alone'[t] => to = "callback" /\ alone[t]
      BY <1>2, Zenon DEF SendIt
    <3>2. \A v \in Clients \ {t} : LoggingIn(req'[v]) = LoggingIn(req[v])
      BY <1>3
    <3> QED BY <1>2, <1>3, <1>4, <2>1, <2>2, <3>1, <3>2, SameConfig DEF FollowedBy, KeptBy, Underway
  <2>3. CASE u # t
    <3>1. alone'[u] => alone[u] /\ to \notin {"login", "callback"}
      BY <1>2, <2>3, Zenon DEF SendIt
    <3>2. to \notin {"login", "callback"} =>
              \A v \in Clients : ~LoggingIn(req[v]) => ~LoggingIn(req'[v])
      BY <1>3 DEF LoggingIn
    <3>3. landed'[u] = landed[u]
      BY <1>1, <1>2, <2>3 DEF SendIt, BrowserOK
    <3> QED BY <1>2, <1>3, <1>4, <2>1, <2>3, <3>1, <3>2, <3>3, SameConfig
            DEF FollowedBy, KeptBy, Underway
  <2> QED BY <2>2, <2>3
<1>6. Followed'
  BY <1>5 DEF Followed
<1> QED BY <1>2, <1>4, <1>6, SendItStep

LEMMA LoginStep ==
    ASSUME Inv, NEW t \in Clients, UNCHANGED kerberos, NEW p \in Procs, Login(t, p)
    PROVE  Inv'
<1>1. ReqOK /\ BrowserOK /\ Followed
  BY Parts DEF Inv
<1>2. UNCHANGED <<config, proc>> /\ SendIt(t, p, "redirected", "login")
  BY DEF Login, SendIt
<1>3. /\ req'[t] = [pc |-> "login", at |-> p, uid |-> None]
      /\ \A d \in Clients \ {t} : req'[d] = req[d]
  BY <1>1, <1>2, Sent DEF SendIt
<1>4. ASSUME NEW s \in Sessions
      PROVE  Forget(s, t) \in Sessions /\ Forget(s, t).states = s.states \ {t}
  BY DEF Forget, Sessions
<1>5. /\ cookie' \in Sessions /\ carried' \in [Clients -> Sessions]
      /\ cookie'.states = cookie.states \ {t}
      /\ \A v \in Clients : carried'[v].states \subseteq (cookie.states \cup carried[v].states) \ {t}
  BY <1>1, <1>2, <1>4, SameConfig DEF Login, BrowserOK
<1>6. ASSUME NEW u \in Clients PROVE FollowedBy(u)'
  <2>1. FollowedBy(u)
    BY <1>1 DEF Followed
  <2>2. CASE u = t
    <3>1. alone'[t] => \A v \in Clients \ {t} : ~LoggingIn(req[v])
      BY <1>2, Zenon DEF SendIt
    <3>2. \A v \in Clients \ {t} : LoggingIn(req'[v]) = LoggingIn(req[v])
      BY <1>3
    <3> QED BY <1>3, <1>5, <2>2, <3>1, <3>2 DEF FollowedBy, KeptBy
  <2>3. CASE u # t
    <3>1. ~alone'[u]
      BY <1>2, <2>3, Zenon DEF SendIt
    <3> QED BY <1>3, <1>5, <2>1, <2>3, <3>1 DEF FollowedBy
  <2> QED BY <2>2, <2>3
<1>7. Followed'
  BY <1>6 DEF Followed
<1> QED BY <1>2, <1>5, <1>7, SendItStep

LEMMA SendStep ==
    ASSUME Inv, NEW t \in Clients, UNCHANGED kerberos,
           \E p \in Procs : Open(t, p) \/ Login(t, p) \/ SignIn(t, p) \/ Post(t, p)
    PROVE  Inv'
<1>1. ASSUME NEW p \in Procs, SignIn(t, p) PROVE Inv'
  BY <1>1, SendCookieStep DEF SignIn, SendCookie, SendIt, Send
<1>2. ASSUME NEW p \in Procs, Open(t, p) \/ Post(t, p) PROVE Inv'
  BY <1>2, SendCookieStep DEF Open, Post
<1> QED BY <1>1, <1>2, LoginStep

(* The tab is answered, or stops to wait, and its login has not led       *)
(* anywhere.                                                              *)
LEMMA OverStep ==
    ASSUME Inv, NEW t \in Clients, Via(t) = "browser", UNCHANGED kerberos,
           NEW pc \in {"idle", "redirected", "in", "done", "closed"}, Answer(t, pc), Over(t),
           UNCHANGED cookie \/ cookie' = carried[t],
           faults' \in 0..MaxFaults, UNCHANGED <<config, proc, users, tokens>>
    PROVE  Inv'
<1>1. ReqOK /\ BrowserOK /\ Followed
  BY Parts DEF Inv
<1>2. /\ ReqOK' /\ req'[t] = [pc |-> pc, at |-> None, uid |-> None]
      /\ \A d \in Clients \ {t} : req'[d] = req[d]
  BY <1>1, Replied
<1>3. PlacedAt(req'[t])
  BY <1>2 DEF PlacedAt
<1>4. BrowserOK'
  <2>1. NoSession \in Sessions
    BY DEF NoSession, Sessions, Nexts
  <2> QED BY <1>1, <2>1, SameConfig DEF BrowserOK, Over
<1>5. Followed'
  BY <1>1, <1>2, Leaves DEF Underway
<1> QED BY <1>2, <1>3, <1>4, <1>5, TabStep

LEMMA MaySetOK ==
    ASSUME BrowserOK, NEW t \in Clients, MaySet(t)
    PROVE  UNCHANGED cookie \/ (cookie' \in Sessions /\ cookie' = carried[t])
BY DEF BrowserOK, MaySet

LEMMA LoginAnswerStep ==
    ASSUME Inv, NEW t \in Clients, Via(t) = "browser", UNCHANGED kerberos, LoginAnswer(t),
           UNCHANGED <<config, proc, users, tokens>>
    PROVE  Inv'
<1>1. ReqOK /\ BrowserOK /\ Followed /\ faults' \in 0..MaxFaults
  BY Parts DEF Inv, TablesOK, LoginAnswer
<1>2. /\ ReqOK' /\ req'[t] = [pc |-> "idp", at |-> None, uid |-> None]
      /\ \A d \in Clients \ {t} : req'[d] = req[d]
  BY <1>1, Replied DEF LoginAnswer
<1>3. PlacedAt(req'[t])
  BY <1>2 DEF PlacedAt
<1>4. carried[t] \in Sessions /\ NoSession \in Sessions /\ Kept(t) \in Nexts
  BY <1>1 DEF BrowserOK, NoSession, Sessions, Nexts
<1>5. /\ cookie' \in Sessions /\ cookie'.next = Kept(t)
      /\ cookie'.states = carried[t].states \cup {t}
  BY <1>4 DEF LoginAnswer, Sessions
<1>6. BrowserOK'
  BY <1>1, <1>4, <1>5, SameConfig DEF BrowserOK, LoginAnswer, Over
<1>7. \A v \in Clients : carried'[v] = carried[v] \/ carried'[v].states = {}
  BY <1>1 DEF LoginAnswer, Over, NoSession, BrowserOK
<1>8. req[t].pc = "login" /\ LoggingIn(req[t]) /\ UNCHANGED <<landed, alone>>
  BY DEF LoginAnswer, LoggingIn, Over
<1>9. ASSUME NEW u \in Clients PROVE FollowedBy(u)'
  <2>1. FollowedBy(u)
    BY <1>1 DEF Followed
  <2>2. CASE u = t
    <3>1. \A v \in Clients \ {t} : LoggingIn(req'[v]) = LoggingIn(req[v])
      BY <1>2
    <3> QED BY <1>2, <1>5, <1>7, <1>8, <2>1, <2>2, <3>1, SameConfig DEF FollowedBy, KeptBy, Underway
  <2>3. CASE u # t
    <3>1. alone[u] => req[u].pc \notin Underway
      BY <1>8, <2>1, <2>3 DEF FollowedBy
    <3> QED BY <1>2, <1>5, <1>7, <1>8, <2>1, <2>3, <3>1, SameConfig DEF FollowedBy, Underway
  <2> QED BY <2>2, <2>3
<1>10. Followed'
  BY <1>9 DEF Followed
<1> QED BY <1>1, <1>2, <1>3, <1>6, <1>10, TabStep

LEMMA CallbackStep ==
    ASSUME Inv, NEW t \in Clients, Via(t) = "browser", UNCHANGED kerberos, Callback(t),
           UNCHANGED <<config, proc, users, tokens>>
    PROVE  Inv'
<1>1. ReqOK /\ BrowserOK /\ Followed /\ faults' \in 0..MaxFaults
  BY Parts DEF Inv, TablesOK, Callback
<1>2. /\ ReqOK' /\ req'[t] = [pc |-> "landed", at |-> None, uid |-> None]
      /\ \A d \in Clients \ {t} : req'[d] = req[d]
  BY <1>1, Replied DEF Callback
<1>3. PlacedAt(req'[t])
  BY <1>2 DEF PlacedAt
<1>4. carried[t] \in Sessions /\ NoSession \in Sessions
  BY <1>1 DEF BrowserOK, NoSession, Sessions, Nexts
<1>5. cookie' \in Sessions /\ cookie'.states = carried[t].states \ {t}
  BY <1>4 DEF Callback, Sessions, Nexts
<1>6. /\ landed' \in [Clients -> {None} \cup {Quote(n) : n \in Nexts}]
      /\ landed'[t] = Quote(carried[t].next)
      /\ \A v \in Clients \ {t} : landed'[v] = landed[v]
  BY <1>1, <1>4 DEF BrowserOK, Callback, Sessions
<1>7. BrowserOK'
  BY <1>1, <1>4, <1>5, <1>6, SameConfig DEF BrowserOK, Callback
<1>8. \A v \in Clients : carried'[v] = carried[v] \/ carried'[v].states = {}
  BY <1>1 DEF Callback, NoSession, BrowserOK
<1>9. /\ req[t].pc = "callback" /\ LoggingIn(req[t]) /\ UNCHANGED alone
      /\ t \in carried[t].states
  BY DEF Callback, LoggingIn
<1>10. ASSUME NEW u \in Clients PROVE FollowedBy(u)'
  <2>1. FollowedBy(u)
    BY <1>1 DEF Followed
  <2>2. CASE u = t
    <3>1. alone[t] => carried[t].next = Kept(t)
      BY <1>9, <2>1, <2>2 DEF FollowedBy, KeptBy, Underway
    <3> QED BY <1>2, <1>6, <1>9, <2>2, <3>1, SameConfig DEF FollowedBy, Underway
  <2>3. CASE u # t
    <3>1. alone[u] => req[u].pc \notin Underway
      BY <1>9, <2>1, <2>3 DEF FollowedBy
    <3> QED BY <1>2, <1>5, <1>6, <1>8, <1>9, <2>1, <2>3, <3>1, SameConfig DEF FollowedBy, Underway
  <2> QED BY <2>2, <2>3
<1>11. Followed'
  BY <1>10 DEF Followed
<1> QED BY <1>1, <1>2, <1>3, <1>7, <1>11, TabStep

LEMMA PostGuardStep ==
    ASSUME Inv, NEW t \in Clients, Via(t) = "browser", UNCHANGED kerberos, req[t].pc = "post",
           GetUser(t, carried[t].user), UNCHANGED browser,
           UNCHANGED <<config, proc, users, tokens, faults>>
    PROVE  Inv'
<1>1. /\ ReqOK /\ BrowserOK /\ PlacedAt(req[t]) /\ Followed
      /\ faults' \in 0..MaxFaults /\ users \subseteq Users
  BY Parts DEF Inv, Placed, Followed, TablesOK
<1> DEFINE u == carried[t].user
<1>2. /\ ReqOK'
      /\ \/ req'[t] = [pc |-> "known", at |-> req[t].at, uid |-> u]
         \/ req'[t] = [pc |-> "idle", at |-> None, uid |-> None]
      /\ \A d \in Clients \ {t} : req'[d] = req[d]
  BY <1>1, Got
<1> HIDE DEF u
<1>3. PlacedAt(req'[t])
  BY <1>1, <1>2 DEF PlacedAt
<1>4. req'[t].pc \in {"known", "idle"}
  BY <1>2
<1>5. Followed'
  BY <1>1, <1>2, <1>4, Aside DEF Underway
<1>6. BrowserOK'
  BY <1>1, SameBrowser
<1> QED BY <1>1, <1>2, <1>3, <1>5, <1>6, TabStep

LEMMA OidcStep ==
    ASSUME Inv, NEW t \in Clients, OidcCall(t), UNCHANGED kerberos
    PROVE  Inv'
<1>1. BrowserOK /\ PlacedAt(req[t]) /\ faults \in 0..MaxFaults
  BY Parts DEF Inv, Placed, TablesOK
<1>2. Via(t) = "browser" /\ UNCHANGED <<config, proc, users, tokens>>
  BY DEF OidcCall
<1>3. CASE Guard(t)
  BY <1>1, <1>2, <1>3, OverStep, MaySetOK DEF Guard, PlacedAt
<1>4. CASE Mismatch(t)
  BY <1>1, <1>2, <1>4, OverStep DEF Mismatch
<1>5. CASE PostGuard(t)
  <2>1. CASE carried[t].user = None
    BY <1>1, <1>2, <1>5, <2>1, OverStep, MaySetOK DEF PostGuard, PlacedAt
  <2>2. CASE carried[t].user # None
    BY <1>2, <1>5, <2>2, PostGuardStep DEF PostGuard
  <2> QED BY <2>1, <2>2
<1> QED BY <1>2, <1>3, <1>4, <1>5, LoginAnswerStep, CallbackStep DEF OidcCall

LEMMA TabLeaves ==
    ASSUME Inv, NEW t \in Clients, ProviderFails(t) \/ Close(t), UNCHANGED kerberos
    PROVE  Inv'
<1>1. faults' \in 0..MaxFaults
  BY Parts, AuthAssumption DEF Inv, TablesOK, ProviderFails, Close, Fault, AuthAssumption
<1>2. \E pc \in {"idle", "closed"} : Answer(t, pc)
  BY DEF ProviderFails, Close
<1> QED BY <1>1, <1>2, OverStep DEF ProviderFails, Close

-----------------------------------------------------------------------------
(* The token is created. *)

LEMMA CreateRequest ==
    ASSUME Inv, NEW c \in Clients, Create(c), UNCHANGED kerberos,
           IF Via(c) = "browser" THEN Answered(c) ELSE UNCHANGED browser
    PROVE  /\ ReqOK' /\ \A d \in Clients \ {c} : req'[d] = req[d]
           /\ \E pc \in {"done", "idle"} :
                  req'[c] = [pc |-> pc, at |-> None, uid |-> None] /\ Answer(c, pc)
           /\ PlacedAt(req'[c]) /\ NamedAs(c, req'[c])
<1>1. ReqOK /\ NamedAs(c, req[c])
  BY Parts DEF Inv, Named
<1>2. PICK pc \in {"done", "idle"} : Answer(c, pc)
  BY DEF Create
<1>3. /\ ReqOK' /\ req'[c] = [pc |-> pc, at |-> None, uid |-> None]
      /\ \A d \in Clients \ {c} : req'[d] = req[d]
  BY <1>1, <1>2, Replied DEF Create
<1> QED BY <1>1, <1>2, <1>3 DEF PlacedAt, NamedAs, Create

LEMMA CreateTokens ==
    ASSUME Inv, NEW c \in Clients, Create(c)
    PROVE  /\ TablesOK' /\ Upright'
           /\ \A t \in tokens' :
                  Via(t.client) = "negotiate" => config.kerberos /\ t.uid = Uid(t.client)
<1> DEFINE made == [uid |-> req[c].uid, client |-> c]
<1>1. TablesOK /\ ReqOK /\ PlacedAt(req[c]) /\ NamedAs(c, req[c]) /\ Upright
  BY Parts DEF Inv, Placed, Named
<1>2. req[c].pc = "known" /\ UNCHANGED <<config, proc, users, faults>>
  BY DEF Create
<1>3. UNCHANGED tokens \/ (req[c].uid \in users /\ tokens' = tokens \cup {made})
  BY DEF Create
<1>4. ~Refused(config)
  BY <1>1, <1>2 DEF PlacedAt, ReqOK, Requests, Upright
<1>5. TablesOK'
  BY <1>1, <1>2, <1>3 DEF TablesOK
<1>6. Upright'
  BY <1>1, <1>2, <1>4 DEF Upright, Refused
<1>7. made.uid = req[c].uid /\ made.client = c
  OBVIOUS
<1> HIDE DEF made
<1>8. \A t \in tokens' :
          Via(t.client) = "negotiate" => config.kerberos /\ t.uid = Uid(t.client)
  BY <1>1, <1>2, <1>3, <1>7 DEF NamedAs, Inv, Named
<1> QED BY <1>5, <1>6, <1>8

LEMMA CreateBrowser ==
    ASSUME Inv, NEW c \in Clients, Create(c), UNCHANGED kerberos,
           IF Via(c) = "browser" THEN Answered(c) ELSE UNCHANGED browser
    PROVE  BrowserOK' /\ Followed'
<1>1. BrowserOK /\ Followed /\ PlacedAt(req[c]) /\ UNCHANGED config
  BY Parts DEF Inv, Placed, Create
<1>2. PICK pc \in {"done", "idle"} : req'[c] = [pc |-> pc, at |-> None, uid |-> None]
  BY CreateRequest
<1>3. CASE Via(c) # "browser"
  BY <1>1, <1>2, <1>3, CreateRequest, Aside, SameBrowser DEF Underway
<1>4. CASE Via(c) = "browser"
  <2>1. BrowserOK'
    <3>1. NoSession \in Sessions
      BY DEF NoSession, Sessions, Nexts
    <3>2. cookie' \in Sessions
      BY <1>1, <1>4, MaySetOK DEF Answered, BrowserOK
    <3> QED BY <1>1, <1>4, <3>1, <3>2, SameConfig DEF BrowserOK, Answered, Over
  <2> QED BY <1>1, <1>2, <1>4, <2>1, CreateRequest, MaySetOK, Leaves DEF Answered, Underway
<1> QED BY <1>3, <1>4

LEMMA CreateStep ==
    ASSUME Inv, NEW c \in Clients, Create(c), UNCHANGED kerberos,
           IF Via(c) = "browser" THEN Answered(c) ELSE UNCHANGED browser
    PROVE  Inv'
<1>1. ProcOK' /\ KerberosOK' /\ UNCHANGED config
  BY Parts DEF Inv, ProcOK, KerberosOK, kerberos, Create
<1>2. TypeOK'
  <2>1. (TypeOK <=> ProcOK /\ ReqOK /\ TablesOK /\ KerberosOK /\ BrowserOK)'
    BY Parts, PTL
  <2> QED BY <1>1, <2>1, CreateRequest, CreateTokens, CreateBrowser
<1>3. Placed'
  BY CreateRequest DEF Inv, Placed, PlacedAt
<1>4. Named'
  <2>1. \A d \in Clients : NamedAs(d, req'[d])
    BY CreateRequest DEF Inv, Named
  <2>2. \A d \in Clients : NamedAs(d, req[d])'
    BY <1>1, <2>1, SameConfig DEF NamedAs
  <2>3. \A t \in tokens' : Via(t.client)' = "negotiate"
                               => config'.kerberos /\ t.uid = Uid(t.client)'
    BY <1>1, CreateTokens, SameConfig
  <2> QED BY <2>2, <2>3 DEF Named
<1> QED BY <1>2, <1>3, <1>4, CreateTokens, CreateBrowser DEF Inv

-----------------------------------------------------------------------------
(* Processes. *)

LEMMA StartStep ==
    ASSUME Inv, NEW p \in Procs, Start(p)
    PROVE  Inv'
<1>1. ProcOK /\ ReqOK /\ TablesOK /\ KerberosOK /\ BrowserOK
  BY Parts DEF Inv
<1>2. UNCHANGED <<config, req, users, tokens, faults, keytab>> /\ UNCHANGED browser
  BY DEF Start, MakeApp
<1>3. ProcOK' /\ Upright'
  BY <1>1, <1>2 DEF Start, MakeApp, ProcOK, Inv, Upright, Refused
<1>4. ReqOK'
  BY <1>1, <1>2 DEF Start, MakeApp, ProcOK, ReqOK, Requests
<1>5. TypeOK'
  <2>1. (TypeOK <=> ProcOK /\ ReqOK /\ TablesOK /\ KerberosOK /\ BrowserOK)'
    BY Parts, PTL
  <2>2. TablesOK' /\ KerberosOK'
    BY <1>1, <1>2 DEF TablesOK, KerberosOK, Start, NewAcceptor
  <2> QED BY <1>1, <1>2, <1>3, <1>4, <2>1, <2>2, SameBrowser
<1>6. Placed' /\ Named'
  BY <1>2, SameConfig DEF Inv, Placed, PlacedAt, Named, NamedAs
<1>7. Followed'
  BY <1>2, Undisturbed DEF Inv, browser
<1> QED BY <1>3, <1>5, <1>6, <1>7 DEF Inv

LEMMA StopStep ==
    ASSUME Inv, NEW p \in Procs, Stop(p)
    PROVE  Inv'
<1>1. ProcOK /\ ReqOK /\ TablesOK /\ KerberosOK /\ BrowserOK
  BY Parts DEF Inv
<1>2. UNCHANGED <<config, users, tokens, keytab>> /\ UNCHANGED browser
  BY DEF Stop, Crash
<1>3. ProcOK' /\ Upright'
  BY <1>1, <1>2 DEF Stop, Crash, ProcOK, Inv, Upright, Refused
<1>4. \A c \in Clients : req'[c] = req[c] \/ req'[c] = Idle
  BY DEF Stop, Crash
<1>5. ReqOK'
  BY <1>1 DEF Stop, Crash, ProcOK, ReqOK, Requests, Idle
<1>6. TypeOK'
  <2>1. (TypeOK <=> ProcOK /\ ReqOK /\ TablesOK /\ KerberosOK /\ BrowserOK)'
    BY Parts, PTL
  <2>2. KerberosOK'
    BY <1>1, <1>2 DEF KerberosOK, Stop, NewAcceptor
  <2>3. TablesOK'
    BY <1>1, <1>2, AuthAssumption DEF TablesOK, Stop, Crash, Fault, AuthAssumption
  <2> QED BY <1>1, <1>2, <1>3, <1>5, <2>1, <2>2, <2>3, SameBrowser
<1>7. Placed'
  BY <1>4 DEF Inv, Placed, PlacedAt, Idle
<1>8. Named'
  BY <1>2, <1>4, SameConfig DEF Inv, Named, NamedAs, Idle
<1>9. Followed'
  BY <1>2, <1>4, Undisturbed DEF Inv, browser
<1> QED BY <1>3, <1>6, <1>7, <1>8, <1>9 DEF Inv

-----------------------------------------------------------------------------
(* Steps that change no request. *)

LEMMA QuietStep ==
    ASSUME Inv, UNCHANGED <<config, proc, req>>, TablesOK', KerberosOK', tokens' \subseteq tokens,
           UNCHANGED browser \/ Expire
    PROVE  Inv'
<1>1. ProcOK' /\ ReqOK'
  BY Parts DEF Inv, ProcOK, ReqOK
<1>2. BrowserOK'
  <2>1. NoSession \in Sessions
    BY DEF NoSession, Sessions, Nexts
  <2> QED BY <2>1, Parts, SameBrowser, SameConfig DEF Inv, BrowserOK, Expire
<1>3. TypeOK'
  <2>1. (TypeOK <=> ProcOK /\ ReqOK /\ TablesOK /\ KerberosOK /\ BrowserOK)'
    BY Parts, PTL
  <2> QED BY <1>1, <1>2, <2>1
<1>4. Placed' /\ Named'
  BY SameConfig DEF Inv, Placed, PlacedAt, Named, NamedAs
<1>5. Upright'
  BY DEF Inv, Upright, Refused
<1>6. Followed'
  BY Undisturbed DEF Inv, browser, Expire
<1> QED BY <1>3, <1>4, <1>5, <1>6 DEF Inv

LEMMA UserStep ==
    ASSUME Inv, NEW u \in Users, AddUser(u) \/ RemoveUser(u), UNCHANGED <<kerberos, browser>>
    PROVE  Inv'
<1>1. TablesOK /\ KerberosOK'
  BY Parts DEF Inv, KerberosOK, kerberos
<1>2. CASE AddUser(u)
  BY <1>1, <1>2, QuietStep DEF AddUser, TablesOK
<1>3. CASE RemoveUser(u)
  <2>1. TablesOK'
    BY <1>1, <1>3 DEF RemoveUser, TablesOK
  <2> QED BY <1>1, <1>3, <2>1, QuietStep DEF RemoveUser
<1> QED BY <1>2, <1>3

LEMMA KeytabStep ==
    ASSUME Inv, WriteKeytab, UNCHANGED browser
    PROVE  Inv'
BY Parts, QuietStep DEF Inv, WriteKeytab, KerberosOK, TablesOK, assembled

LEMMA ExpireStep ==
    ASSUME Inv, Expire, UNCHANGED kerberos
    PROVE  Inv'
<1>1. TablesOK' /\ KerberosOK'
  BY Parts, AuthAssumption
  DEF Inv, Expire, KerberosOK, TablesOK, kerberos, Fault, AuthAssumption
<1> QED BY <1>1, QuietStep DEF Expire

LEMMA Stutter ==
    ASSUME Inv, UNCHANGED vars
    PROVE  Inv'
BY Parts, QuietStep DEF Inv, vars, KerberosOK, TablesOK, browser

-----------------------------------------------------------------------------
LEMMA InitInv == Init => Inv
<1> SUFFICES ASSUME Init PROVE Inv
  OBVIOUS
<1>1. Idle \in Requests /\ Idle.at = None /\ Idle.pc = "idle"
  BY DEF Idle, Requests
<1>2. NoSession \in Sessions
  BY DEF NoSession, Sessions, Nexts
<1>3. TypeOK
  BY <1>1, <1>2, AuthAssumption DEF Init, TypeOK, AuthAssumption
<1>4. Placed /\ Named
  BY <1>1 DEF Init, Placed, PlacedAt, Named, NamedAs
<1>5. Upright /\ Followed
  <2>1. Upright
    BY DEF Init, Upright
  <2>2. \A t \in Clients : req[t].pc = "idle" /\ ~alone[t]
    BY <1>1 DEF Init
  <2> QED BY <2>1, <2>2 DEF Followed, FollowedBy
<1> QED BY <1>3, <1>4, <1>5 DEF Inv

LEMMA ProceedStep ==
    ASSUME Inv, NEW c \in Clients, Proceed(c)
    PROVE  Inv'
BY CreateStep, LocalStep, KerberosStep, NegotiateStep, OidcStep, SendStep DEF Proceed

LEMMA NextInv == Inv /\ [Next]_vars => Inv'
<1> SUFFICES ASSUME Inv, [Next]_vars PROVE Inv'
  OBVIOUS
<1>1. CASE \E p \in Procs : Start(p)
  BY <1>1, StartStep
<1>2. CASE \E c \in Clients : Proceed(c)
  BY <1>2, ProceedStep
<1>3. CASE Environment
  BY <1>3, UserStep, KeytabStep, TabLeaves, ExpireStep, StopStep DEF Environment
<1>4. CASE UNCHANGED vars
  BY <1>4, Stutter
<1> QED BY <1>1, <1>2, <1>3, <1>4 DEF Next

LEMMA Invariant == Spec => []Inv
BY InitInv, NextInv, PTL DEF Spec

(* Every variable stays of its type, for any processes, users, clients    *)
(* and deployments: requests are only at processes that are up            *)
(* (server.py make_app), tokens only of users that are there.             *)
THEOREM AuthTypes == Spec => []TypeOK
<1>1. Inv => TypeOK
  BY DEF Inv
<1> QED BY <1>1, Invariant, PTL

(* With one realm allowed, which a process insists on when it starts, a   *)
(* uid names one principal (kerberos.py:140-151, 217-239).                *)
LEMMA UidNamesOne ==
    ASSUME config \in Deployments, ~Refused(config), config.kerberos,
           NEW c \in Clients, NEW d \in Clients, Uid(c) = Uid(d), Uid(c) # None
    PROVE  config.client[c].principal = config.client[d].principal
<1> DEFINE realms == AsRealmTuple(config.allowed_realms)
<1>1. DOMAIN realms = 1..Len(realms) /\ Len(realms) = 1
  BY AuthAssumption DEF AuthAssumption, Refused
<1> HIDE DEF realms
<1>2. \A i \in DOMAIN realms : i = 1
  BY <1>1
<1> DEFINE principal(e) == config.client[e].principal
<1>3. ASSUME NEW e \in Clients, Uid(e) # None
      PROVE  /\ principal(e).realm = realms[1] /\ principal(e).instance = None
             /\ principal(e).local = Uid(e)
  BY <1>2, <1>3 DEF Uid, PrincipalToUid, realms
<1>4. ASSUME NEW e \in Clients
      PROVE  principal(e) = [local |-> principal(e).local, instance |-> principal(e).instance,
                             realm |-> principal(e).realm]
  BY AuthAssumption DEF AuthAssumption
<1> HIDE DEF principal
<1>5. principal(c) = principal(d)
  BY <1>3, <1>4
<1> QED BY <1>5 DEF principal

(* Tokens of one uid are never had by two Kerberos principals, for any    *)
(* number of principals, realms and settings (kerberos.py:140-151,        *)
(* 217-239).                                                              *)
THEOREM OnePrincipal == Spec => []OnePrincipalPerUid
<1>1. ASSUME Inv PROVE OnePrincipalPerUid
  <2> SUFFICES ASSUME NEW t1 \in tokens, NEW t2 \in tokens,
                      Via(t1.client) = "negotiate", Via(t2.client) = "negotiate",
                      t1.uid = t2.uid
               PROVE  config.client[t1.client].principal = config.client[t2.client].principal
    BY DEF OnePrincipalPerUid
  <2>1. ProcOK /\ TablesOK
    BY <1>1, Parts DEF Inv
  <2>2. t1.client \in Clients /\ t2.client \in Clients /\ t1.uid \in Users
    BY <2>1 DEF TablesOK
  <2>3. config.kerberos /\ t1.uid = Uid(t1.client) /\ t2.uid = Uid(t2.client)
    BY <1>1 DEF Inv, Named
  <2>4. ~Refused(config)
    BY <1>1 DEF Inv, Upright
  <2>5. t1.uid # None
    BY <2>2, AuthAssumption DEF AuthAssumption
  <2> QED BY <2>1, <2>2, <2>3, <2>4, <2>5, UidNamesOne DEF ProcOK
<1> QED BY <1>1, Invariant, PTL

(* A page that is Returnable survives each conversion on the way.         *)
LEMMA NothingCut ==
    ASSUME NEW url, url \in Url, NEW marks,
           \A i \in DOMAIN url : url[i] \notin marks
    PROVE  Cut(url, marks) = url
BY DEF Cut, SelectInSeq, Url

LEMMA Survives ==
    ASSUME NEW page, page \in Url, Returnable(page)
    PROVE  Quote(Unquote(QueryParam(Target(page, config.x_target)))) = page
<1>1. Target(page, config.x_target) = page
  BY NothingCut DEF Target, Returnable
<1>2. QueryParam(page) = Unquote(page)
  <2>1. Cut(page, {Raw("#"), Raw("&")}) = page
    BY NothingCut DEF Returnable
  <2>2. page = [i \in DOMAIN page |-> page[i]]
    BY DEF Url
  <2>3. \A i \in DOMAIN page : page[i] # Raw("+")
    BY DEF Returnable
  <2>4. [i \in DOMAIN page |-> IF page[i] = Raw("+") THEN Raw(" ") ELSE page[i]] = page
    BY <2>2, <2>3
  <2> QED BY <2>1, <2>4 DEF QueryParam
<1>3. Quote(Unquote(Unquote(page))) = page
  <2> DEFINE once == Unquote(page)
             twice == Unquote(once)
  <2>1. ASSUME NEW i \in DOMAIN page
        PROVE  page[i] = [char |-> page[i].char,
                          escapes |-> IF page[i].char = " " THEN 1 ELSE 0]
    <3>1. page[i] \in [char : STRING, escapes : Nat]
      <4> DEFINE characters == [char : STRING, escapes : Nat]
      <4>1. page \in Seq(characters)
        BY DEF Url
      <4> HIDE DEF characters
      <4>2. page[i] \in characters
        BY <4>1
      <4> QED BY <4>2 DEF characters
    <3>2. page[i] = [char |-> page[i].char, escapes |-> page[i].escapes]
      BY <3>1
    <3>3. page[i].escapes = IF page[i].char = " " THEN 1 ELSE 0
      BY DEF Returnable
    <3> QED BY <3>2, <3>3
  <2>2. ASSUME NEW i \in DOMAIN page
        PROVE  once[i] = Raw(page[i].char)
    <3>1. [page[i] EXCEPT !.escapes = IF @ = 0 THEN 0 ELSE @ - 1] = Raw(page[i].char)
      <4>1. CASE page[i].char = " "
        <5>1. page[i] = [char |-> page[i].char, escapes |-> 1]
          BY <2>1, <4>1
        <5> QED BY <5>1 DEF Raw
      <4>2. CASE page[i].char # " "
        <5>1. page[i] = [char |-> page[i].char, escapes |-> 0]
          BY <2>1, <4>2
        <5> QED BY <5>1 DEF Raw
      <4> QED BY <4>1, <4>2
    <3> QED BY <3>1 DEF Unquote
  <2>3. DOMAIN once = DOMAIN page /\ DOMAIN twice = DOMAIN page
    BY DEF Unquote
  <2>4. ASSUME NEW i \in DOMAIN page
        PROVE  twice[i] = Raw(page[i].char)
    <3>1. [once[i] EXCEPT !.escapes = IF @ = 0 THEN 0 ELSE @ - 1] = Raw(page[i].char)
      BY <2>2 DEF Raw
    <3> HIDE DEF once
    <3> QED BY <2>3, <3>1 DEF Unquote
  <2> HIDE DEF twice
  <2>5. ASSUME NEW i \in DOMAIN page
        PROVE  (IF twice[i] = Raw(" ") THEN [twice[i] EXCEPT !.escapes = 1] ELSE twice[i])
                   = page[i]
    <3>1. CASE page[i].char = " "
      <4>1. page[i] = [char |-> " ", escapes |-> 1] /\ twice[i] = Raw(" ")
        BY <2>1, <2>4, <3>1
      <4>2. [Raw(" ") EXCEPT !.escapes = 1] = [char |-> " ", escapes |-> 1]
        <5>1. ASSUME NEW char
              PROVE  [Raw(char) EXCEPT !.escapes = 1] = [char |-> char, escapes |-> 1]
          BY DEF Raw
        <5> QED BY <5>1, Zenon
      <4> QED BY <4>1, <4>2
    <3>2. CASE page[i].char # " "
      <4>1. page[i] = Raw(page[i].char) /\ twice[i] = page[i]
        BY <2>1, <2>4, <3>2 DEF Raw
      <4>2. twice[i].char = page[i].char /\ Raw(" ").char = " "
        BY <4>1 DEF Raw
      <4> QED BY <3>2, <4>1, <4>2
    <3> QED BY <3>1, <3>2
  <2>6. Quote(twice) = [i \in DOMAIN page |-> page[i]]
    BY <2>3, <2>5 DEF Quote
  <2>7. page = [i \in DOMAIN page |-> page[i]]
    BY DEF Url
  <2> QED BY <2>6, <2>7 DEF twice
<1> QED BY <1>1, <1>2, <1>3

(* A login leads back to the page it began at, for any number of tabs and *)
(* any page whose URL survives being quoted too little and unquoted       *)
(* twice, whatever other tabs load or post meanwhile and whatever logins  *)
(* given up before have left in the cookie, as long as no other tab logs  *)
(* in at the same time (dependencies.py:195-240).                         *)
THEOREM LoginLeadsBack == Spec => []NextHonoured
<1>1. ASSUME Inv PROVE NextHonoured
  <2> SUFFICES ASSUME NEW t \in Clients, req[t].pc = "landed", alone[t], Returnable(Page(t))
               PROVE  landed[t] = Page(t)
    BY DEF NextHonoured
  <2>1. landed[t] = Quote(Kept(t))
    BY <1>1 DEF Inv, Followed, FollowedBy
  <2>2. Page(t) \in Url
    BY <1>1, Parts, AuthAssumption DEF Inv, ProcOK, AuthAssumption, Page
  <2> QED BY <2>1, <2>2, Survives DEF Kept
<1> QED BY <1>1, Invariant, PTL
=============================================================================
