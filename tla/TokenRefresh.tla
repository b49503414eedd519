---------------------------- MODULE TokenRefresh ----------------------------
(***************************************************************************)
(* The console's session in the browser: every tab sends requests with one *)
(* access cookie, and a request answered 401 asks for a new cookie before  *)
(* it is sent again.  The refresh token is rotated by each refresh, so two *)
(* refreshes with the same cookie cost the user the session; the tabs keep *)
(* each other out with a module variable (isRefreshing, one per tab) and   *)
(* two keys of localStorage (is_other_tab_refreshing, last_refresh_time).  *)
(*                                                                         *)
(* web/service/refresh-token.ts, and request, ssePost and sseGet of        *)
(* web/service/base.ts; the server's side is AccountService.refresh_token. *)
(*                                                                         *)
(* A tab runs one task at a time, so a step is what a task does between    *)
(* two awaits.  Other tabs are other processes: reading the keys of        *)
(* localStorage and writing them are two steps.  There is no clock: a      *)
(* timer may fire at any time after it is armed, and the time stored in    *)
(* last_refresh_time may get old at any time after it is written.          *)
(* A refresh token is a number; the number of a token that nobody holds    *)
(* any longer is used again.  No token expires, nobody logs out, and Redis *)
(* does not fail.                                                          *)
(*                                                                         *)
(* The names that begin with Refresh are those every module has (Init,     *)
(* Next, Spec, TypeOK): BrowserProofs extends this module and ChatSession. *)
(***************************************************************************)
EXTENDS Naturals

CONSTANTS
  Tabs,        \* the open pages of one browser
  Requests,    \* requests the pages send
  TabOf,       \* the page of each request
  Streams,     \* the requests sent with ssePost or sseGet
  MaxCalls,    \* bound: how often one stream asks for a new cookie
  MaxCrashes,  \* bound: how many tabs die without running a handler
  MaxTokens    \* bound: refresh tokens that are held at one time

ASSUME RequestsHaveTabs == TabOf \in [Requests -> Tabs]
ASSUME StreamsAreRequests == Streams \subseteq Requests
ASSUME RefreshBoundsAreNumbers ==
  MaxCalls \in Nat \ {0} /\ MaxCrashes \in Nat /\ MaxTokens \in Nat \ {0}

VARIABLES
  pc,           \* where each request is
  call,         \* where its call of getNewAccessToken is
  calls,        \* how often it called refreshAccessTokenOrReLogin
  timers,       \* the calls whose timer is armed
  isRefreshing, \* the module variable of each tab
  listening,    \* tabs whose beforeunload handler is registered
  sign,         \* localStorage: is_other_tab_refreshing and last_refresh_time
  cookie,       \* the browser's refresh token, 0 if the server has deleted it
  fetch,        \* the refresh each request has in flight
  token,        \* the refresh token in it, or in its answer, 0 if deleted
  orphans,      \* tokens of refreshes the server has and nobody waits for
  crashes,      \* how many tabs have died
  overrun,      \* history: tabs where a timer fired under a running refresh
  overlap,      \* history: two refreshes have been in flight at once
  lost          \* history: a refresh was granted and its answer not seen

page        == <<pc, call, calls, timers>>
lock        == <<isRefreshing, listening, sign>>
account     == <<cookie, fetch, token, orphans>>
mishaps     == <<crashes, overrun, overlap, lost>>
refreshVars == <<page, lock, account, mishaps>>

(***************************************************************************)
(* Types                                                                   *)
(***************************************************************************)
Phases == {"sent", "refreshing", "retried", "answered", "login",
           "dropped", "gone"}
CallPhases == {"none", "checked", "fetching", "waiting", "woken", "ended"}
Signs == {"absent", "recent", "old"}
Tokens == 1..MaxTokens

RefreshTypeOK ==
  /\ pc \in [Requests -> Phases]
  /\ call \in [Requests -> CallPhases]
  /\ calls \in [Requests -> 0..MaxCalls]
  /\ timers \in [Requests -> SUBSET (1..MaxCalls)]
  /\ isRefreshing \in [Tabs -> BOOLEAN]
  /\ listening \in [Tabs -> BOOLEAN]
  /\ sign \in Signs
  /\ cookie \in Tokens \cup {0} /\ orphans \subseteq Tokens
  /\ fetch \in [Requests -> {"none", "sent", "read", "granted", "denied"}]
  /\ token \in [Requests -> Tokens \cup {0}]
  /\ crashes \in 0..MaxCrashes
  /\ overrun \subseteq Tabs
  /\ overlap \in BOOLEAN /\ lost \in BOOLEAN

RefreshInit ==
  /\ pc = [r \in Requests |-> "sent"]
  /\ call = [r \in Requests |-> "none"]
  /\ calls = [r \in Requests |-> 0]
  /\ timers = [r \in Requests |-> {}]
  /\ isRefreshing = [t \in Tabs |-> FALSE]
  /\ listening = [t \in Tabs |-> FALSE]
  /\ sign = "absent"
  /\ cookie = 1 /\ orphans = {}
  /\ fetch = [r \in Requests |-> "none"] /\ token = [r \in Requests |-> 0]
  /\ crashes = 0 /\ overrun = {} /\ overlap = FALSE /\ lost = FALSE

Here(t) == {r \in Requests : TabOf[r] = t}

(***************************************************************************)
(* A tab in the middle of a task runs nothing else.                        *)
(***************************************************************************)
Free(t) == \A r \in Here(t) : call[r] \notin {"checked", "woken"}

Fetching(t) == {r \in Here(t) : call[r] = "fetching"}

(***************************************************************************)
(* releaseRefreshLock clears the tab's variable and both keys, whoever set *)
(* them.                                                                   *)
(***************************************************************************)
Release(t) ==
  /\ isRefreshing' = [isRefreshing EXCEPT ![t] = FALSE]
  /\ listening' = [listening EXCEPT ![t] = FALSE]
  /\ sign' = "absent"

(***************************************************************************)
(* Requests are in flight.  An answer goes to the caller, or it is a 401   *)
(* that goes to refreshAccessTokenOrReLogin, which arms its timer and      *)
(* looks at the lock.  A request sent before another one refreshed the     *)
(* cookie may be answered 401 after it.                                    *)
(***************************************************************************)
Answered(r) ==
  /\ pc[r] \in {"sent", "retried"} /\ Free(TabOf[r])
  /\ pc' = [pc EXCEPT ![r] = "answered"]
  /\ UNCHANGED <<call, calls, timers, lock, account, mishaps>>

MustWait_SignOnly(t) == sign = "recent"
MustWait(t) == sign = "recent" \/ isRefreshing[t]

Refused(r) ==
  /\ pc[r] = "sent" /\ Free(TabOf[r])
  /\ calls[r] < (IF r \in Streams THEN MaxCalls ELSE 1)
  /\ pc' = [pc EXCEPT ![r] = "refreshing"]
  /\ calls' = [calls EXCEPT ![r] = @ + 1]
  /\ timers' = [timers EXCEPT ![r] = @ \cup {calls[r] + 1}]
  /\ call' = [call EXCEPT ![r] = IF MustWait(TabOf[r]) THEN "waiting" ELSE "checked"]
  /\ UNCHANGED <<lock, account, mishaps>>

(***************************************************************************)
(* The lock is taken: the variable, the keys, the handler, the fetch.      *)
(***************************************************************************)
Acquire(r) ==
  LET t == TabOf[r] IN
  /\ call[r] = "checked"
  /\ call' = [call EXCEPT ![r] = "fetching"]
  /\ isRefreshing' = [isRefreshing EXCEPT ![t] = TRUE]
  /\ listening' = [listening EXCEPT ![t] = TRUE]
  /\ sign' = "recent"
  /\ fetch' = [fetch EXCEPT ![r] = "sent"]
  /\ token' = [token EXCEPT ![r] = cookie]
  /\ overlap' = (overlap \/ \E q \in Requests \ {r} : fetch[q] # "none")
  /\ UNCHANGED <<pc, calls, timers, cookie, orphans, crashes, overrun, lost>>

SignGetsOld ==
  /\ sign = "recent"
  /\ sign' = "old"
  /\ UNCHANGED <<page, isRefreshing, listening, account, mishaps>>

(***************************************************************************)
(* waitUntilTokenRefreshed: the poll that finds the lock free resolves, in *)
(* the same task the finally block of the waiting call releases the lock   *)
(* too; another tab may have taken it in between.                          *)
(***************************************************************************)
Poll(r) ==
  /\ call[r] = "waiting" /\ Free(TabOf[r])
  /\ sign = "absent" /\ ~isRefreshing[TabOf[r]]
  /\ call' = [call EXCEPT ![r] = "woken"]
  /\ UNCHANGED <<pc, calls, timers, lock, account, mishaps>>

(***************************************************************************)
(* The promise of refreshAccessTokenOrReLogin settles once, and what waits *)
(* for it runs in the same task.  Resolved: request sends the call once    *)
(* more, ssePost and sseGet start again from the beginning.  Rejected:     *)
(* request moves the page to the sign-in page, and a stream only writes to *)
(* the console.                                                            *)
(***************************************************************************)
AfterRefresh(r, how) ==
  CASE how = "resolved" -> IF r \in Streams THEN "sent" ELSE "retried"
    [] how = "rejected" -> IF r \in Streams THEN "dropped" ELSE "login"

Settle(r, how) ==
  pc' = [pc EXCEPT ![r] = IF @ = "refreshing" THEN AfterRefresh(r, how) ELSE @]

WakeUp(r) ==
  /\ call[r] = "woken"
  /\ call' = [call EXCEPT ![r] = "ended"]
  /\ Settle(r, "resolved")
  /\ Release(TabOf[r])
  /\ UNCHANGED <<calls, timers, account, mishaps>>

(***************************************************************************)
(* The server looks the token up, and in a later command deletes it and    *)
(* stores a new one: refreshes that were looked up together are all        *)
(* granted, and one that comes with a deleted token is denied.             *)
(***************************************************************************)
ServerReads(r) ==
  /\ fetch[r] = "sent"
  /\ fetch' = [fetch EXCEPT ![r] = IF token[r] = 0 THEN "denied" ELSE "read"]
  /\ UNCHANGED <<page, lock, cookie, token, orphans, mishaps>>

Without(n, held) == IF held = n THEN 0 ELSE held

Delete(n) ==
  /\ cookie' = Without(n, cookie)
  /\ orphans' = orphans \ {n}

Held == {cookie} \cup {token[r] : r \in Requests} \cup orphans

ServerGrants(r) ==
  LET free == Tokens \ (Held \ {token[r]}) IN
  /\ fetch[r] = "read"
  /\ fetch' = [fetch EXCEPT ![r] = "granted"]
  /\ Delete(token[r])
  /\ \E n \in free :
       /\ \A k \in free : n <= k
       /\ token' = [q \in Requests |-> IF q = r THEN n ELSE Without(token[r], token[q])]
  /\ UNCHANGED <<page, lock, mishaps>>

(***************************************************************************)
(* Nobody waits for the refreshes of these requests any longer, but the    *)
(* server may have them and grant them all the same, which matters as long *)
(* as their token is not deleted.                                          *)
(***************************************************************************)
Withdraw(rs) ==
  /\ fetch' = [r \in Requests |-> IF r \in rs THEN "none" ELSE fetch[r]]
  /\ token' = [r \in Requests |-> IF r \in rs THEN 0 ELSE token[r]]
  /\ orphans' = orphans \cup {token[r] : r \in {q \in rs : fetch[q] \in {"sent", "read"} /\ token[q] # 0}}
  /\ lost' = (lost \/ \E r \in rs : fetch[r] = "granted")
  /\ UNCHANGED cookie

OrphanGranted(n) ==
  /\ n \in orphans
  /\ Delete(n)
  /\ token' = [q \in Requests |-> Without(n, token[q])]
  /\ lost' = TRUE
  /\ UNCHANGED <<page, lock, fetch, crashes, overrun, overlap>>

(***************************************************************************)
(* The answer of the refresh ends the call, which releases the lock: 200   *)
(* brings the new cookies, 401 rejects; any other status counts as success *)
(* (only a 401 is looked at) and brings no cookie; a network failure       *)
(* rejects, fetchWithRetry awaiting the same promise again.                *)
(***************************************************************************)
EndCall(r, how) ==
  /\ call[r] = "fetching" /\ Free(TabOf[r])
  /\ call' = [call EXCEPT ![r] = "ended"]
  /\ Settle(r, how)
  /\ Release(TabOf[r])
  /\ UNCHANGED <<calls, timers, crashes, overrun, overlap>>

Answer(r) ==
  /\ fetch' = [fetch EXCEPT ![r] = "none"]
  /\ token' = [token EXCEPT ![r] = 0]
  /\ UNCHANGED <<orphans, lost>>

Refreshed_CookieKept(r) ==
  /\ fetch[r] = "granted" /\ EndCall(r, "resolved")
  /\ UNCHANGED cookie
  /\ Answer(r)

Refreshed(r) ==
  /\ fetch[r] = "granted" /\ EndCall(r, "resolved")
  /\ cookie' = token[r]
  /\ Answer(r)

Denied(r) ==
  /\ fetch[r] = "denied" /\ EndCall(r, "rejected")
  /\ UNCHANGED cookie
  /\ Answer(r)

RefreshFails(r) ==
  /\ fetch[r] # "denied"
  /\ \E how \in {"resolved", "rejected"} : EndCall(r, how)
  /\ Withdraw({r})

(***************************************************************************)
(* The timer of a call is never cleared: when it fires it releases the     *)
(* lock, whoever holds it by then, and rejects if nothing has settled yet. *)
(***************************************************************************)
TimerFires_ReleasesOnly(r, n) ==
  /\ n \in timers[r] /\ Free(TabOf[r])
  /\ timers' = [timers EXCEPT ![r] = @ \ {n}]
  /\ Release(TabOf[r])
  /\ overrun' = overrun \cup {TabOf[r]}
  /\ UNCHANGED <<pc, call, calls, account, crashes, overlap, lost>>

TimerFires(r, n) ==
  /\ n \in timers[r] /\ Free(TabOf[r])
  /\ timers' = [timers EXCEPT ![r] = @ \ {n}]
  /\ IF n = calls[r] THEN Settle(r, "rejected") ELSE UNCHANGED pc
  /\ Release(TabOf[r])
  /\ overrun' = IF Fetching(TabOf[r]) # {} THEN overrun \cup {TabOf[r]} ELSE overrun
  /\ UNCHANGED <<call, calls, account, crashes, overlap, lost>>

(***************************************************************************)
(* A page that goes takes its requests, its timers and its variable with   *)
(* it.  The beforeunload handler, when it is registered, releases the      *)
(* lock; a tab that dies runs no handler.                                  *)
(***************************************************************************)
Forget(t) ==
  /\ pc' = [r \in Requests |-> IF r \in Here(t) THEN "gone" ELSE pc[r]]
  /\ call' = [r \in Requests |-> IF r \in Here(t) THEN "none" ELSE call[r]]
  /\ timers' = [r \in Requests |-> IF r \in Here(t) THEN {} ELSE timers[r]]
  /\ Withdraw(Here(t))
  /\ UNCHANGED <<calls, overrun, overlap>>

Relogin(t) ==
  /\ \E r \in Here(t) : pc[r] = "login"
  /\ Free(t)
  /\ Forget(t)
  /\ IF listening[t]
     THEN Release(t)
     ELSE /\ isRefreshing' = [isRefreshing EXCEPT ![t] = FALSE]
          /\ UNCHANGED <<listening, sign>>
  /\ UNCHANGED crashes

Crash(t) ==
  /\ crashes < MaxCrashes
  /\ crashes' = crashes + 1
  /\ Forget(t)
  /\ isRefreshing' = [isRefreshing EXCEPT ![t] = FALSE]
  /\ listening' = [listening EXCEPT ![t] = FALSE]
  /\ UNCHANGED sign

RefreshNext ==
  \/ \E r \in Requests :
       \/ Answered(r) \/ Refused(r)
       \/ Acquire(r) \/ Poll(r) \/ WakeUp(r)
       \/ ServerReads(r) \/ ServerGrants(r)
       \/ Refreshed(r) \/ Denied(r) \/ RefreshFails(r)
       \/ \E n \in 1..MaxCalls : TimerFires(r, n)
  \/ \E t \in Tabs : Relogin(t) \/ Crash(t)
  \/ \E n \in orphans : OrphanGranted(n)
  \/ SignGetsOld

(***************************************************************************)
(* Fairness: a tab runs its tasks and its timers.  The server and the      *)
(* network owe nothing.                                                    *)
(***************************************************************************)
RefreshFairness ==
  \A t \in Tabs :
    /\ WF_refreshVars(\E r \in Here(t) : Acquire(r) \/ WakeUp(r))
    /\ SF_refreshVars(\E r \in Here(t), n \in 1..MaxCalls : TimerFires(r, n))

RefreshSafety == RefreshInit /\ [][RefreshNext]_refreshVars
RefreshSpec   == RefreshSafety /\ RefreshFairness

(***************************************************************************)
(* Properties                                                              *)
(***************************************************************************)

\* Of the requests of one page only one refreshes at a time, whatever the
\* other pages do to the shared keys, unless a timer of the page has released
\* the lock under a refresh that was still running.
SameTabExclusive ==
  \A t \in Tabs \ overrun : \A r, q \in Fetching(t) : r = q

\* The server turns a refresh down, which ends in the sign-in page, only when
\* two refreshes were in flight at once or the answer of a granted one never
\* reached the browser, also of one that was granted after its page was gone or
\* had given it up: a lock that keeps the refreshes apart keeps the session.
DeniedOnlyAfterOverlap ==
  \A r \in Requests :
    fetch[r] = "denied" => overlap \/ lost

\* A request that met a 401 is let go again, although the refresh it waits for
\* may never be answered and the tab that held the lock may have died with
\* the sign in localStorage: refresh-token.ts says the lock is cleared "to
\* avoid cross-tab deadlocks".
NoCrossTabDeadlock ==
  \A r \in Requests : pc[r] = "refreshing" ~> pc[r] # "refreshing"

=============================================================================
