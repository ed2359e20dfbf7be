------------------------------ MODULE MCUserAuth ------------------------------
(* Small deployments for UserAuth.                                         *)
EXTENDS UserAuthProperties, TLC

CONSTANTS p, c1, c2, alice, admin, A, B

Bare(realm) == [local |-> alice, instance |-> None, realm |-> realm]

Instance == [Bare(A) EXCEPT !.instance = admin]

Nobody == [via |-> "local", principal |-> Bare(None), legs |-> 1, page |-> <<>>]

Negotiator(principal, legs) ==
    [Nobody EXCEPT !.via = "negotiate", !.principal = principal, !.legs = legs]

Tab(page) == [Nobody EXCEPT !.via = "browser", !.page = page]

(* An application behind the proxy, and one page of the service itself. *)
Blank == [Raw(" ") EXCEPT !.escapes = 1]
App == <<Raw("/app"), Raw("?"), Raw("my"), Blank, Raw("page")>>
Cropped == <<Raw("/app"), Raw("?"), Raw("x"), Raw("&"), Raw("y")>>
List == <<Raw("/token")>>

Plain ==
    [auth_name |-> "base_auth", uid |-> alice, person |-> alice, kerberos |-> FALSE,
     allowed_realms |-> [string |-> TRUE, items |-> <<A, None>>], absolute |-> TRUE, x_target |-> TRUE,
     client |-> [c \in Clients |-> Nobody]]

Krb(first, second) ==
    [Plain EXCEPT !.kerberos = TRUE, !.client = (c1 :> first) @@ (c2 :> second)]

TwoRealms == [string |-> FALSE, items |-> <<A, B>>]

Small ==
    {Krb(Negotiator(Bare(A), 1), Negotiator(principal, 1)) : principal \in {Bare(B), Bare(None), Instance}}
    \cup {[Krb(Negotiator(Bare(A), 1), Negotiator(Bare(B), 1)) EXCEPT !.allowed_realms = TwoRealms],
          Krb(Negotiator(Bare(A), 1), Negotiator(Bare(A), 2)),
          [Krb(Nobody, Negotiator(Bare(A), 1)) EXCEPT !.auth_name = "local_dev"],
          [Krb(Nobody, Nobody) EXCEPT !.auth_name = "local_dev", !.absolute = FALSE],
          [Plain EXCEPT !.auth_name = "authlib_oidc",
                        !.client = (c1 :> Tab(App)) @@ (c2 :> Tab(Cropped))],
          [Krb(Tab(List), Negotiator(Bare(A), 1)) EXCEPT !.auth_name = "authlib_oidc", !.x_target = FALSE]}
=============================================================================
