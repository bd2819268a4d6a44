--------------------------- MODULE RumbleLifecycle ---------------------------
(***************************************************************************)
(* What docs/rumble-lifecycle.md (States and retry policy) promises of one *)
(* channel, whatever its servers, its timers and its callers do: why each  *)
(* change of the visible state happens, and what the connection is at when *)
(* it shows a state.  There is one piece of work at a time.  An explicit   *)
(* retry replaces it, and nothing but that retry changes the visible state *)
(* from then on; a stop or a close ends it, and only Closed may follow.    *)
(***************************************************************************)

VARIABLES
  shown,  \* the state the channel shows
  work    \* what will change it next

vars == <<shown, work>>

Open == {"Unresolved", "Offline", "Connecting", "Connected", "Backoff", "Failed"}

\* An earlier connection may have left any state but Closed.
Init == shown \in Open /\ work = "new"

Begin == work = "new" /\ work' = "moving" /\ UNCHANGED shown

\* A handler at work leads the state to where the next request or timer belongs.
\* It never shows Offline or Connected: these need an answer of the server.
Leads == [Connected  |-> {"Backoff"},
          Connecting |-> {"Backoff"},
          Offline    |-> {"Unresolved"},
          Failed     |-> {"Unresolved"},
          Unresolved |-> {"Connecting", "Failed"},
          Backoff    |-> {"Unresolved", "Connecting", "Failed"}]

Lead == work = "moving" /\ shown' \in Leads[shown] /\ UNCHANGED work

\* It ends with a request or a timer that suits the state, or with the failure.
Suits == [Unresolved |-> {"resolve"},
          Connecting |-> {"catalog", "stream"},
          Backoff    |-> {"catalog", "retry"},
          Failed     |-> {"failed"}]

Settle ==
  /\ work = "moving" /\ shown \in DOMAIN Suits
  /\ work' \in Suits[shown]
  /\ UNCHANGED shown

\* The answers: a page, live or not; the catalog; a stream's init, and its end.
Resolved ==
  /\ work = "resolve" /\ shown = "Unresolved"
  /\ work' = "moving" /\ shown' \in {"Unresolved", "Backoff", "Failed"}

Catalogued == work = "catalog" /\ work' = "moving" /\ UNCHANGED shown

GoesLive ==
  /\ work = "stream" /\ shown = "Connecting"
  /\ shown' = "Connected" /\ UNCHANGED work

Ends ==
  /\ work = "stream" /\ work' = "moving"
  /\ \/ shown' = "Backoff"
     \/ shown = "Connecting" /\ shown' = "Failed"

GoesOffline ==
  /\ work \in {"resolve", "stream"}
  /\ work' = "recheck" /\ shown' = "Offline"

\* The timers.
TimeIsUp ==
  /\ work' = "moving"
  /\ \/ work = "recheck" /\ shown = "Offline" /\ shown' = "Unresolved"
     \/ work = "retry" /\ shown = "Backoff" /\ shown' \in {"Backoff", "Unresolved"}

\* An explicit retry is accepted at any time, and resolves again.
Restart == work \notin {"new", "ended"} /\ work' = "restart" /\ UNCHANGED shown

Renewed == [Connected  |-> {"Backoff"},
            Connecting |-> {"Backoff"},
            Offline    |-> {"Unresolved"},
            Backoff    |-> {"Unresolved"},
            Failed     |-> {"Unresolved"},
            Unresolved |-> {"Unresolved", "Failed"}]

Renew == work = "restart" /\ work' = "moving" /\ shown' \in Renewed[shown]

\* A stop or a close is asked for; the channel is closed now or later.
End == work # "ended" /\ work' = "ended" /\ shown' \in {shown, "Closed"}

Close == work = "ended" /\ shown' = "Closed" /\ UNCHANGED work

Next ==
  \/ Begin \/ Lead \/ Settle
  \/ Resolved \/ Catalogued \/ GoesLive \/ Ends \/ GoesOffline
  \/ TimeIsUp \/ Restart \/ Renew \/ End \/ Close

Spec == Init /\ [][Next]_vars
=============================================================================
