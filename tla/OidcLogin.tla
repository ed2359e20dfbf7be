------------------------------- MODULE OidcLogin ------------------------------
(***************************************************************************)
(* AuthLibOIDCAuthenticator (dependencies.py): the login of one person,    *)
(* with several tabs of one browser.  The server keeps nothing: the        *)
(* session is a cookie, each request carries it as it was when it was      *)
(* sent, and a response that sets it sets all of it.                       *)
(*                                                                         *)
(* A tab opens a page with GET, is redirected to /auth/login, to the       *)
(* provider, to /auth/callback and to the page it is said to have come     *)
(* from, and creates its token with POST once a page has been answered.    *)
(* The state that Authlib keeps in the session for a login is named by its *)
(* tab; that of a login gone wrong is left out, as nobody will present it.   *)
(***************************************************************************)
EXTENDS Assembly, NextUrl

VARIABLES
    cookie,   \* the browser's session cookie
    carried,  \* tab -> the session its request was sent with
    landed,   \* tab -> the page its login has led to
    alone     \* ghost: tab -> has no other logged in since its login began?

browser == <<cookie, carried, landed, alone>>

(* A session without `next' counts as one with "/", which pop answers. *)
NoSession == [user |-> None, next |-> Root, states |-> {}]

Page(t) == config.client[t].page

(* What the login keeps as `next': the parameter, unquoted once more. *)
Kept(t) == Unquote(QueryParam(Target(Page(t), config.x_target)))

(* Logging in, and waiting for the answer. *)
LoggingIn(r) == r.pc \in {"login", "callback"}

-----------------------------------------------------------------------------
(* A request of a tab. *)
SendIt(t, p, from, to) ==
    /\ Via(t) = "browser" /\ Send(t, p, from, to)
    /\ alone' = [u \in Clients |->
                    IF u = t
                    THEN \/ to = "login" /\ \A v \in Clients \ {t} : ~LoggingIn(req[v])
                         \/ to = "callback" /\ alone[t]
                    ELSE alone[u] /\ to \notin {"login", "callback"}]
    /\ landed' = [landed EXCEPT ![t] = None]
    /\ UNCHANGED <<config, proc, users, tokens, faults>>

SendCookie(t, p, from, to) ==
    /\ SendIt(t, p, from, to)
    /\ carried' = [carried EXCEPT ![t] = cookie] /\ UNCHANGED cookie

(* A response that changes nothing in the session may set it all the same. *)
MaySet(t) ==
    \/ UNCHANGED cookie
    \/ carried[t] # NoSession /\ cookie # carried[t] /\ cookie' = carried[t]

(* The request of the tab is over. *)
Over(t) == carried' = [carried EXCEPT ![t] = NoSession] /\ UNCHANGED <<landed, alone>>

-----------------------------------------------------------------------------
Open(t, p) ==
    /\ config.auth_name = "authlib_oidc"
    /\ SendCookie(t, p, "idle", "page") \/ SendCookie(t, p, "landed", "page")

(* 307 to /auth/login, the page, or, as the error is no text, 500. *)
Guard(t) ==
    LET u == carried[t].user IN
    /\ req[t].pc = "page"
    /\ \/ u = None /\ Answer(t, "redirected") /\ MaySet(t)
       \/ u \in users /\ Answer(t, "in") /\ MaySet(t)
       \/ u \notin users \cup {None} /\ Answer(t, "idle") /\ UNCHANGED cookie
    /\ Over(t) /\ UNCHANGED faults

(* The state of an earlier login is another than that of this one. *)
Forget(s, t) == [s EXCEPT !.states = @ \ {t}]

Login(t, p) ==
    /\ SendIt(t, p, "redirected", "login")
    /\ cookie' = Forget(cookie, t)
    /\ carried' = [u \in Clients |-> Forget(IF u = t THEN cookie ELSE carried[u], t)]

(* Seeded fault: the page to return to is kept when there is one. *)
LoginOnceNext(t) ==
    /\ req[t].pc = "login" /\ Answer(t, "idp")
    /\ cookie' = [carried[t] EXCEPT !.next = IF @ = Root THEN Kept(t) ELSE @,
                                    !.states = @ \cup {t}]
    /\ Over(t) /\ UNCHANGED faults

LoginAnswer(t) ==
    /\ req[t].pc = "login" /\ Answer(t, "idp")
    /\ cookie' = [carried[t] EXCEPT !.next = Kept(t), !.states = @ \cup {t}]
    /\ Over(t) /\ UNCHANGED faults

(* The person signs in at the provider, which redirects to the callback. *)
SignIn(t, p) == SendCookie(t, p, "idp", "callback")

(* Seeded fault: the session of the response is the one of the request. *)
CallbackForgotten(t) ==
    /\ req[t].pc = "callback" /\ t \in carried[t].states /\ Answer(t, "landed")
    /\ landed' = [landed EXCEPT ![t] = Quote(carried[t].next)]
    /\ carried' = [carried EXCEPT ![t] = NoSession] /\ UNCHANGED <<cookie, alone, faults>>

(* authorize_access_token finds the state, and the provider's answer says *)
(* who it is.                                                             *)
Callback(t) ==
    /\ req[t].pc = "callback" /\ t \in carried[t].states /\ Answer(t, "landed")
    /\ cookie' = [user |-> config.person, next |-> Root, states |-> carried[t].states \ {t}]
    /\ landed' = [landed EXCEPT ![t] = Quote(carried[t].next)]
    /\ carried' = [carried EXCEPT ![t] = NoSession] /\ UNCHANGED <<alone, faults>>

(* The state is gone: 500. *)
Mismatch(t) ==
    /\ req[t].pc = "callback" /\ t \notin carried[t].states /\ Answer(t, "idle")
    /\ Over(t) /\ UNCHANGED <<cookie, faults>>

Post(t, p) == SendCookie(t, p, "in", "post")

(* Without a user the redirect keeps the method, and /auth/login has no   *)
(* POST: the person starts again.                                         *)
PostGuard(t) ==
    LET u == carried[t].user IN
    /\ req[t].pc = "post"
    /\ \/ u = None /\ Answer(t, "idle") /\ MaySet(t) /\ Over(t)
       \/ u # None /\ GetUser(t, u) /\ UNCHANGED browser
    /\ UNCHANGED faults

(* What create answered. *)
Answered(t) == MaySet(t) /\ Over(t)

OidcCall(t) ==
    /\ Via(t) = "browser"
    /\ Guard(t) \/ LoginAnswer(t) \/ Callback(t) \/ Mismatch(t) \/ PostGuard(t)
    /\ UNCHANGED <<config, proc, users, tokens>>

(* The provider fails. *)
ProviderFails(t) ==
    /\ Via(t) = "browser" /\ req[t].pc \in {"login", "idp", "callback"}
    /\ Fault /\ Answer(t, "idle")
    /\ Over(t) /\ UNCHANGED <<config, proc, users, tokens, cookie>>

(* The person closes the tab; what it was answered meanwhile is dropped.  *)
Close(t) ==
    /\ Via(t) = "browser" /\ req[t].pc \notin {"done", "closed"} /\ Answer(t, "closed")
    /\ Over(t) /\ UNCHANGED <<config, proc, users, tokens, faults, cookie>>

(* max_age is over. *)
Expire ==
    /\ cookie # NoSession /\ cookie' = NoSession /\ Fault
    /\ UNCHANGED <<config, proc, req, users, tokens, carried, landed, alone>>
=============================================================================
