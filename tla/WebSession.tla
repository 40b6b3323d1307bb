----------------------------- MODULE WebSession -----------------------------
(***************************************************************************)
(* The session of one browser tab: the access token in the memory of       *)
(* client.ts, the refresh cookie that views.py of the account app sets and *)
(* the whole browser shares, the person and the workspace of session.tsx,  *)
(* the calls under way and what is cached of their answers.                *)
(*                                                                         *)
(* Calls, their refresh, sign-ins, sign-outs, the choice of a workspace    *)
(* and other tabs interleave freely.  Access tokens are numbered in the    *)
(* order of their issue; 0 stands for none.                                *)
(***************************************************************************)
EXTENDS BrowserTab, FiniteSets

CONSTANTS Person, Workspace,
          MaxTokens   \* bound: access tokens that are issued

ConstantsAssumption ==
  /\ MaxTokens \in Nat \ {0}
  /\ IsFiniteSet(Person) /\ IsFiniteSet(Workspace) /\ IsFiniteSet(Query)
  /\ None \notin Person \cup Workspace
  /\ "signIn" \notin Query /\ "signOut" \notin Query

\* A call before it is made.  `key` is the workspace under which its answer is cached;
\* `moved` is history: another was chosen after the call was made and before it was repeated.
Idle == [at |-> "idle", token |-> 0, tenant |-> None, key |-> None, as |-> None, moved |-> FALSE]

Init ==
  /\ user = None /\ tenant = None /\ ready = FALSE
  /\ accessToken = 0 /\ refreshInFlight = None
  /\ calls = [c \in Call |-> Idle] /\ cache = [q \in Query |-> None]
  /\ cookie \in Person \cup {None} /\ issued = <<>> /\ expired = 0
  /\ parted = "nothing"

-----------------------------------------------------------------------------
\* The server.  Its tokens are not stored: a cookie is good until it is replaced,
\* deleted or too old.

Issue(p) ==
  /\ Len(issued) < MaxTokens
  /\ issued' = Append(issued, p)
  /\ cookie' = p
  /\ accessToken' = Len(issued) + 1

Live(n) == n > expired

\* Signing in and out needs no token, but one that has expired is refused there too.
Authorised(c) == Live(calls[c].token) \/ (c \notin Query /\ calls[c].token = 0)

\* Tokens expire in the order of their issue.  One lives for a quarter of an hour: that
\* it expires on the way of the call that was repeated with it is left out.
Expire ==
  /\ expired < Len(issued)
  /\ \A c \in Call : calls[c].at = "resent" => calls[c].token # expired + 1
  /\ expired' = expired + 1
  /\ UNCHANGED <<user, tenant, ready, accessToken, refreshInFlight, calls, cache, cookie, issued, parted>>

\* The cookie grows too old, or another tab signs out (None) or in.
CookieChanges(p) ==
  /\ cookie # p
  /\ cookie' = p
  /\ parted' = IF p \in {user, None} THEN parted ELSE "tabs"
  /\ UNCHANGED <<user, tenant, ready, accessToken, refreshInFlight, calls, cache, issued, expired>>

-----------------------------------------------------------------------------
\* On load the cookie is tried, and nothing is rendered until that is decided.

MountAnswered ==
  /\ ~ready /\ cookie # None
  /\ Issue(cookie)
  /\ user' = cookie /\ ready' = TRUE /\ parted' = "nothing"
  /\ UNCHANGED <<tenant, refreshInFlight, calls, cache, expired>>

\* Refused without a cookie; lost, throttled or failed with one.
MountRefused ==
  /\ ~ready
  /\ ready' = TRUE
  /\ UNCHANGED <<user, tenant, accessToken, refreshInFlight, calls, cache, cookie, issued, expired, parted>>

\* The workspace that a call names matters to a query only, which is cached under it.
Fetch(c, workspace, as) ==
  /\ calls[c].at \in {"idle", "refused"}
  /\ calls' = [calls EXCEPT ![c] =
       [at |-> "sent", token |-> accessToken, tenant |-> workspace, key |-> workspace, as |-> as,
        moved |-> FALSE]]
  /\ UNCHANGED <<user, tenant, ready, accessToken, refreshInFlight, cache, cookie, issued, expired, parted>>

Ask(q) == user # None /\ tenant # None /\ Fetch(q, tenant, None)
AskSignIn == ready /\ user = None /\ \E p \in Person : Fetch("signIn", None, p)
AskSignOut == user # None /\ Fetch("signOut", None, None)

ChooseTenant(t) ==
  /\ user # None /\ t # tenant
  /\ tenant' = t
  /\ calls' = [c \in Call |->
       IF c \in Query /\ calls[c].at \in {"sent", "waiting"} THEN [calls[c] EXCEPT !.moved = TRUE] ELSE calls[c]]
  /\ UNCHANGED <<user, ready, accessToken, refreshInFlight, cache, cookie, issued, expired, parted>>

-----------------------------------------------------------------------------
\* History: when somebody signs in or out, a refresh with another's cookie is in flight.
Overtakes(p) ==
  parted' = IF refreshInFlight # None /\ refreshInFlight.cookie \notin {p, None}
            THEN "refresh" ELSE "nothing"

\* A call that is answered.  The answer to a query that signing out has removed from the
\* cache is dropped.

Under(c) == calls[c].at \in {"sent", "resent"} /\ Authorised(c)

Answered(q) ==
  /\ Under(q)
  /\ calls' = [calls EXCEPT ![q] = Idle]
  /\ cache' = [cache EXCEPT ![q] =
       IF calls[q].key = None THEN @
       ELSE [of |-> issued[calls[q].token], tenant |-> calls[q].tenant, key |-> calls[q].key,
             moved |-> calls[q].at = "resent" /\ calls[q].moved]]
  /\ UNCHANGED <<user, tenant, ready, accessToken, refreshInFlight, cookie, issued, expired, parted>>

SignedIn ==
  /\ Under("signIn") /\ Overtakes(calls["signIn"].as)
  /\ Issue(calls["signIn"].as)
  /\ user' = calls["signIn"].as
  /\ calls' = [calls EXCEPT !["signIn"] = Idle]
  /\ UNCHANGED <<tenant, ready, refreshInFlight, cache, expired>>

SignedOut ==
  /\ Under("signOut") /\ Overtakes(None)
  /\ cookie' = None /\ accessToken' = 0 /\ user' = None /\ tenant' = None
  /\ cache' = [q \in Query |-> None]
  /\ calls' = [c \in Call |-> IF c = "signOut" THEN Idle ELSE [calls[c] EXCEPT !.key = None]]
  /\ UNCHANGED <<ready, refreshInFlight, issued, expired>>

\* The network fails before an answer comes.
Lost(c) ==
  /\ calls[c].at \in {"sent", "resent"}
  /\ calls' = [calls EXCEPT ![c] = Idle]
  /\ UNCHANGED <<user, tenant, ready, accessToken, refreshInFlight, cache, cookie, issued, expired, parted>>

-----------------------------------------------------------------------------
\* A call that is refused waits for the refresh that is in flight, or starts it.  What it
\* had named in its headers is gone with it.

Waits(c) ==
  [at |-> "waiting", token |-> 0, tenant |-> None, key |-> calls[c].key, as |-> calls[c].as,
   moved |-> calls[c].moved]

Unauthorised(c) ==
  /\ calls[c].at = "sent" /\ ~Authorised(c)
  /\ calls' = [calls EXCEPT ![c] = Waits(c)]
  /\ refreshInFlight' = IF refreshInFlight = None THEN [cookie |-> cookie] ELSE refreshInFlight
  /\ UNCHANGED <<user, tenant, ready, accessToken, cache, cookie, issued, expired, parted>>

UnauthorisedAgain(c) ==
  /\ calls[c].at = "resent" /\ ~Authorised(c)
  /\ calls' = [calls EXCEPT ![c] = [Idle EXCEPT !.at = "refused"]]
  /\ UNCHANGED <<user, tenant, ready, accessToken, refreshInFlight, cache, cookie, issued, expired, parted>>

\* All that wait go on: request() makes their headers anew.
Resume(as) ==
  calls' = [c \in Call |-> IF calls[c].at = "waiting" THEN as[c] ELSE calls[c]]

\* Seeded fault: the headers are those of the first attempt.
ResentAlike(c) == [calls[c] EXCEPT !.at = "resent"]

Resent(c) == [calls[c] EXCEPT !.at = "resent", !.token = Len(issued) + 1,
                                  !.tenant = IF c \in Query THEN tenant ELSE None]

RefreshAnswered ==
  /\ refreshInFlight # None /\ refreshInFlight.cookie # None
  /\ Issue(refreshInFlight.cookie)
  /\ Resume([c \in Call |-> Resent(c)])
  /\ refreshInFlight' = None
  /\ UNCHANGED <<user, tenant, ready, cache, expired, parted>>

GivenUp(c) == [Idle EXCEPT !.at = "refused"]

\* Without a cookie, or throttled, or failed with one.
RefreshRefused ==
  /\ refreshInFlight # None
  /\ accessToken' = 0
  /\ Resume([c \in Call |-> GivenUp(c)])
  /\ refreshInFlight' = None
  /\ UNCHANGED <<user, tenant, ready, cache, cookie, issued, expired, parted>>

Forgotten(c) == Idle

RefreshLost ==
  /\ refreshInFlight # None
  /\ Resume([c \in Call |-> Forgotten(c)])
  /\ refreshInFlight' = None
  /\ UNCHANGED <<user, tenant, ready, accessToken, cache, cookie, issued, expired, parted>>

Next ==
  \/ Expire \/ MountAnswered \/ MountRefused
  \/ AskSignIn \/ AskSignOut \/ SignedIn \/ SignedOut
  \/ \E p \in Person \cup {None} : CookieChanges(p)
  \/ \E t \in Workspace : ChooseTenant(t)
  \/ \E q \in Query : Ask(q) \/ Answered(q)
  \/ \E c \in Call : Lost(c) \/ Unauthorised(c) \/ UnauthorisedAgain(c)
  \/ RefreshAnswered \/ RefreshRefused \/ RefreshLost

Spec == Init /\ [][Next]_tab

-----------------------------------------------------------------------------
\* No other tab gives the cookie to another person.
OwnSpec == Init /\ [][Next /\ parted' # "tabs"]_tab
=============================================================================
