----------------------------- MODULE Dashboard -----------------------------
(***************************************************************************)
(* The session, the bearer token and the requests of the dashboard: App and *)
(* its hooks (apps/dashboard/src/App.tsx) over LocalDashboardApi (api.ts).  *)
(*                                                                          *)
(* A setState and the commit that shows it are two steps, so that several   *)
(* may fall into one commit.  The effects of a commit run inside it, in the *)
(* order their hooks are called: useLocalData's load on [enabled] first,    *)
(* the effect on [auth] that hands the token to the API object last.  The   *)
(* Supabase client and the API answer when they like (external).            *)
(***************************************************************************)
EXTENDS Naturals, FiniteSets, Sequences

CONSTANTS
    Tokens,       \* access tokens the auth service issues
    NoToken,      \* none of them: no session, and no authorization header
    MaxInFlight,  \* bound on the requests that are in flight at once, at least 2
    MaxEvents     \* bound on the auth events that are not delivered yet

VARIABLES
    session,   \* the session the Supabase client holds
    events,    \* auth events on their way to onAuthStateChange's callback
    initial,   \* getSession(): "asked", the session it answers with, "done"
    auth,      \* the state of useAuth: "loading" or a session or NoToken
    committed, \* the auth of the last commit, for which the effects ran
    token,     \* LocalDashboardApi.authToken
    requests,  \* fetches in flight: [path, token, seq]
    data,      \* useLocalData's ApiState of each path it loads, by status
    verdict,   \* Verification's result; "none" while unmounted or unused
    route,     \* the page shown
    form       \* SignIn: "idle", "busy" or "failed"

vars == <<session, events, initial, auth, committed, token, requests, data,
          verdict, route, form>>

Sessions == Tokens \union {NoToken}
Loaded == {"/v1/agents", "/v1/trust-anchors"}
Verify == "/v1/verifications/identity"
SignedIn(state) == state \in Tokens

Init ==
    /\ session \in Sessions
    /\ events = <<>>
    /\ initial = "asked"
    /\ auth = "loading"
    /\ committed = "loading"
    /\ token = NoToken
    /\ requests = {}
    /\ data = [path \in Loaded |-> "loading"]
    /\ verdict = "none"
    /\ route = "overview"
    /\ form = "idle"

-----------------------------------------------------------------------------
(* LocalDashboardApi.request builds the headers from authToken before its   *)
(* first await: a request carries the token of the moment it is made.       *)
Fetches(paths) ==
    LET seq == CHOOSE n \in 1 .. MaxInFlight : \A r \in requests : r.seq # n
    IN  [path : paths, token : {token}, seq : {seq}]

\* refresh of useLocalData: both states fall back to loading, both calls go.
Load ==
    /\ Cardinality(requests) + 2 <= MaxInFlight
    /\ requests' = requests \union Fetches(Loaded)
    /\ data' = [path \in Loaded |-> "loading"]

-----------------------------------------------------------------------------
(* The Supabase client: its session changes, by a sign-in, a sign-out, a    *)
(* refresh of the token or another tab, and an event says so.               *)
Emit(new) ==
    /\ Len(events) < MaxEvents
    /\ session' = new
    /\ events' = Append(events, new)

ClientChanges ==
    /\ \E new \in Sessions : Emit(new)
    /\ UNCHANGED <<initial, auth, committed, token, requests, data, verdict,
                   route, form>>

ClientAnswersGetSession ==
    /\ initial = "asked"
    /\ initial' = session
    /\ UNCHANGED <<session, events, auth, committed, token, requests, data,
                   verdict, route, form>>

\* The `then` of getSession, whatever events were delivered before it.
GetSessionResolves ==
    /\ initial \in Sessions
    /\ auth' = initial
    /\ initial' = "done"
    /\ UNCHANGED <<session, events, committed, token, requests, data, verdict,
                   route, form>>

OnAuthStateChange ==
    /\ events # <<>>
    /\ auth' = Head(events)
    /\ events' = Tail(events)
    /\ UNCHANGED <<session, initial, committed, token, requests, data, verdict,
                   route, form>>

(* React commits the newest state.  Only a change of `signedIn` runs the    *)
(* load; the token follows it.  A page that is no longer shown is unmounted *)
(* with its state, and what it still waits for reaches nobody.              *)
Commit ==
    /\ auth # committed
    /\ committed' = auth
    /\ IF SignedIn(auth) /\ ~SignedIn(committed)
         THEN /\ Load
              /\ UNCHANGED verdict
         ELSE IF SignedIn(auth)
                THEN UNCHANGED <<requests, data, verdict>>
                ELSE /\ requests' = {r \in requests : r.path # Verify}
                     /\ verdict' = "none"
                     /\ UNCHANGED data
    /\ token' = IF SignedIn(auth) THEN auth ELSE NoToken
    /\ form' = IF SignedIn(auth) # SignedIn(committed) THEN "idle" ELSE form
    /\ UNCHANGED <<session, events, initial, auth, route>>

-----------------------------------------------------------------------------
(* What the user does, on the screen of the last commit.                    *)
Refresh ==
    /\ SignedIn(committed)
    /\ Load
    /\ UNCHANGED <<session, events, initial, auth, committed, token, verdict,
                   route, form>>

Navigate ==
    /\ SignedIn(committed)
    /\ \E next \in {"overview", "verification"} \ {route} : route' = next
    /\ requests' = {r \in requests : r.path # Verify}
    /\ verdict' = "none"
    /\ UNCHANGED <<session, events, initial, auth, committed, token, data, form>>

\* Text that is not JSON is refused on the page; anything else is sent.
SubmitVerification ==
    /\ SignedIn(committed) /\ route = "verification"
    /\ \/ verdict' = "error" /\ UNCHANGED requests
       \/ /\ Cardinality(requests) < MaxInFlight
          /\ requests' = requests \union Fetches({Verify})
          /\ verdict' = "loading"
    /\ UNCHANGED <<session, events, initial, auth, committed, token, data,
                   route, form>>

SubmitSignIn ==
    /\ committed = NoToken /\ form # "busy"
    /\ form' = "busy"
    /\ UNCHANGED <<session, events, initial, auth, committed, token, requests,
                   data, verdict, route>>

SignInAnswered ==
    /\ form = "busy"
    /\ \/ form' = "failed" /\ UNCHANGED <<session, events>>
       \/ form' = "idle" /\ \E new \in Tokens : Emit(new)
    /\ UNCHANGED <<initial, auth, committed, token, requests, data, verdict,
                   route>>

-----------------------------------------------------------------------------
(* An answer: the API refuses a call without a token, and may refuse or     *)
(* lose any other.  Each answer overwrites the state, in order of arrival.  *)
Outcomes(r) == {"error", "offline"} \union (IF r.token = NoToken THEN {} ELSE {"ready"})

Answer ==
    /\ \E r \in requests, outcome \in {"ready", "error", "offline"} :
         /\ outcome \in Outcomes(r)
         /\ requests' = requests \ {r}
         /\ IF r.path \in Loaded
              THEN data' = [data EXCEPT ![r.path] = outcome] /\ UNCHANGED verdict
              ELSE verdict' = outcome /\ UNCHANGED data
    /\ UNCHANGED <<session, events, initial, auth, committed, token, route, form>>

Next ==
    \/ ClientChanges \/ ClientAnswersGetSession
    \/ GetSessionResolves \/ OnAuthStateChange \/ Commit
    \/ Refresh \/ Navigate \/ SubmitVerification
    \/ SubmitSignIn \/ SignInAnswered \/ Answer

Spec == Init /\ [][Next]_vars

-----------------------------------------------------------------------------
(* "Attach (or clear) the bearer token used on every authenticated request" *)
(* (apps/dashboard/src/api.ts:74): requests are made from the signed-in     *)
(* screens only, so every one in flight carries the token of a session.     *)
TokenSent == \A r \in requests : r.token \in Tokens
=============================================================================
