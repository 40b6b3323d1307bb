----------------------------- MODULE BrowserTab ------------------------------
(***************************************************************************)
(* What one browser tab keeps of its session, and its server: the access   *)
(* token in the memory of client.ts, the refresh cookie that views.py of   *)
(* the account app sets and the whole browser shares, the person and the   *)
(* workspace of session.tsx, the calls under way and what is cached of     *)
(* their answers; and what holds of these, however calls, refreshes,       *)
(* sign-ins and other tabs interleave.  WebSession has the steps.  Access  *)
(* tokens are numbered in the order of their issue; 0 stands for none.     *)
(***************************************************************************)
EXTENDS Null, Naturals, Sequences

CONSTANT Query

Call == Query \cup {"signIn", "signOut"}

VARIABLES user, tenant, ready, accessToken, refreshInFlight, calls, cache,
          cookie,     \* whom the refresh cookie of the browser names
          issued,     \* to whom each access token was issued
          expired,    \* the first `expired` tokens are no longer accepted
          parted      \* history: what has set the tab and its cookie apart, or "nothing"

tab == <<user, tenant, ready, accessToken, refreshInFlight, calls, cache, cookie, issued, expired, parted>>

-----------------------------------------------------------------------------
(* Everything that is shown is of the person who is signed in, and the token     *)
(* with which the next call goes out is too: unless another tab has given the    *)
(* cookie to somebody else, or a refresh with the cookie of one person was in    *)
(* flight when another signed in or out, and until the next who does.            *)
TheTabIsOneUsers ==
  parted = "nothing" =>
    /\ accessToken # 0 => issued[accessToken] = user
    /\ \A q \in Query : cache[q] # None => cache[q].of = user

(* What is cached for a workspace is of that workspace, unless the call was       *)
(* repeated, with the headers of the moment, after the person chose another.      *)
CachedIsOfItsWorkspace ==
  \A q \in Query : cache[q] # None => cache[q].tenant = cache[q].key \/ cache[q].moved

(* A call is given up as unauthorised only in a step that ends the session of   *)
(* the tab: as long as the refresh is answered, every call that raced into the  *)
(* end of a token is answered.                                                  *)
RefusedOnlyAtTheEnd ==
  \A c \in Call :
    calls[c].at # "refused" /\ calls'[c].at = "refused" => accessToken' = 0

(* However calls, refreshes, sign-ins and other tabs interleave: what the tab    *)
(* shows is of the person who is signed in and of the workspace it is cached     *)
(* for, up to the two mixtures that `parted` and `moved` record, and no call is  *)
(* given up as unauthorised but by a step that ends the session.                 *)
SessionIsTrue ==
  [][TheTabIsOneUsers' /\ CachedIsOfItsWorkspace' /\ RefusedOnlyAtTheEnd]_tab

(* "the only version of this that cannot miss one": signing out leaves nothing of *)
(* the one who goes that would be shown to the one who signs in next.             *)
ClearingMissesNothing ==
  \A q \in Query : cache[q] # None => cache[q].of = user
=============================================================================
