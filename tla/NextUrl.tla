-------------------------------- MODULE NextUrl --------------------------------
(***************************************************************************)
(* The page a login returns to, as it goes from the redirect to the        *)
(* login's query, to the session and to the redirect at the callback       *)
(* (dependencies.py).  A URL is a sequence of characters, each with how    *)
(* often it is percent-encoded; a run of characters that nothing is done   *)
(* to may be one.                                                          *)
(***************************************************************************)
EXTENDS SequencesExt

Url == Seq([char : STRING, escapes : Nat])

Raw(char) == [char |-> char, escapes |-> 0]

Root == <<Raw("/")>>

(* What comes before the first of the marks. *)
Cut(url, marks) ==
    LET i == SelectInSeq(url, LAMBDA x : x \in marks) IN
    IF i = 0 THEN url ELSE SubSeq(url, 1, i - 1)

(* X-Target as it is; without it the page's path.                         *)
Target(page, x_target) == IF x_target THEN page ELSE Cut(page, {Raw("?"), Raw("#")})

Unquote(url) ==
    [i \in DOMAIN url |-> [url[i] EXCEPT !.escapes = IF @ = 0 THEN 0 ELSE @ - 1]]

(* The target is put into ?next= as it is: a "#" in it begins the fragment, *)
(* which a browser does not send, and a "&" the next parameter.            *)
QueryParam(url) ==
    LET value == Cut(url, {Raw("#"), Raw("&")}) IN
    Unquote([i \in DOMAIN value |-> IF value[i] = Raw("+") THEN Raw(" ") ELSE value[i]])

(* RedirectResponse encodes what a URL may not hold; the blank stands for  *)
(* all such characters.                                                    *)
Quote(url) ==
    [i \in DOMAIN url |-> IF url[i] = Raw(" ") THEN [url[i] EXCEPT !.escapes = 1] ELSE url[i]]
=============================================================================
