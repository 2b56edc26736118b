------------------------------- MODULE SetupPage -------------------------------
(***************************************************************************)
(* The setup page, src/web/js/wifiSetup.js, in a browser, and the scan of  *)
(* WifiScan on the device behind it.  A click on Refresh starts a chain: a *)
(* request for a scan, then a request for the list every 2 s until one is  *)
(* answered with the end of the scan.  The button comes back with the      *)
(* first answer, so chains overlap.  A request may be lost on its way or   *)
(* on its way back.  Each click is a user of WifiScan, the other users are *)
(* other browsers.                                                         *)
(***************************************************************************)
EXTENDS WifiScan

CONSTANT Clicks        \* bound: the clicks on Refresh in the life of the page

ASSUME ClicksAssumption == Clicks \subseteq Users

VARIABLES
  stage,               \* where the chain of each click is
  refreshAps,          \* elements.refreshAps, the button
  apTable,             \* what elements.apTable shows
  setup,               \* the request for or with settings that is under way
  overlay              \* what lies over the page; it takes no clicks then

page == <<stage, refreshAps, apTable, setup, overlay>>
pageVars == <<scanVars, page>>

OnItsWay == {"refresh", "refreshed", "list", "listed"}
Stage == {"unclicked", "timer", "over", "failed"} \cup OnItsWay

\* DOMContentLoaded, with the call of getSetup.
PageInit == /\ ScanInit
            /\ stage = [u \in Clicks |-> "unclicked"]
            /\ refreshAps = "enabled"
            /\ apTable = "empty"
            /\ setup = "get" /\ overlay = "wait"

-----------------------------------------------------------------------------
(* The chain of a click.                                                   *)

Reaches(u, s) == stage' = [stage EXCEPT ![u] = s]

sendRefresh(u) ==
  /\ stage[u] = "unclicked" /\ Reaches(u, "refresh")
  /\ overlay = "none" /\ refreshAps = "enabled"
  /\ refreshAps' = "disabled"
  /\ apTable' = "loading"
  /\ UNCHANGED <<scanVars, setup, overlay>>

\* The device serves a request of esp.share.post, and the answer goes back.
Serve(u) ==
  /\ \/ stage[u] = "refresh" /\ Reaches(u, "refreshed") /\ \E taken \in BOOLEAN : Refresh(u, taken)
     \/ stage[u] = "list" /\ Reaches(u, "listed") /\ List(u)
  /\ UNCHANGED <<refreshAps, apTable, setup, overlay>>

RefreshAnswered(u) ==
  /\ stage[u] = "refreshed"
  /\ Reaches(u, IF answer[u].status = "SCANNING" THEN "timer" ELSE "over")
  /\ UNCHANGED <<scanVars, refreshAps, apTable, setup, overlay>>

\* The timer of pollLoop.
PollAgain(u) ==
  /\ stage[u] = "timer" /\ Reaches(u, "list")
  /\ UNCHANGED <<scanVars, refreshAps, apTable, setup, overlay>>

\* Mutant: the list is asked for once.
ListOnce(u) ==
  /\ stage[u] = "listed" /\ Reaches(u, "over")
  /\ refreshAps' = "enabled"
  /\ apTable' = IF answer[u].status = "SCAN_FINISHED" THEN "list" ELSE apTable
  /\ UNCHANGED <<scanVars, setup, overlay>>

\* populateApList or scanError; the button comes back in any case.
ListAnswered(u) ==
  /\ stage[u] = "listed"
  /\ Reaches(u, IF answer[u].status = "SCANNING" THEN "timer" ELSE "over")
  /\ refreshAps' = "enabled"
  /\ apTable' = CASE answer[u].status = "SCAN_FINISHED" -> "list"
                  [] answer[u].status = "SCAN_ERROR" -> "empty"
                  [] OTHER -> apTable
  /\ UNCHANGED <<scanVars, setup, overlay>>

\* The promise of post is rejected and nothing handles that: the chain ends
\* and the button stays as it is.
PostFails(u) ==
  /\ stage[u] \in OnItsWay /\ Reaches(u, "failed")
  /\ UNCHANGED <<scanVars, refreshAps, apTable, setup, overlay>>

-----------------------------------------------------------------------------
(* The form.  What the settings are, and what they do, is in ConfigStore.  *)

sendSetup == /\ overlay = "none"
             /\ setup' = "set" /\ overlay' = "wait"
             /\ UNCHANGED <<scanVars, stage, refreshAps, apTable>>

\* The overlay of modalWaitPromise goes with the answer or the failure, and
\* sendSetup says which it was in another.
SetupAnswered == /\ setup # "none" /\ setup' = "none"
                 /\ overlay' = IF setup = "set" THEN "message" ELSE "none"
                 /\ UNCHANGED <<scanVars, stage, refreshAps, apTable>>

\* The user closes the message of activateModalMessage.
CloseMessage == /\ overlay = "message" /\ overlay' = "none"
                /\ UNCHANGED <<scanVars, stage, refreshAps, apTable, setup>>

-----------------------------------------------------------------------------
Others == \E u \in Users \ Clicks : Asks(u)

Device == (Finish \/ Others) /\ UNCHANGED page

Progress(u) == Serve(u) \/ RefreshAnswered(u) \/ PollAgain(u) \/ ListAnswered(u)

PageNext == \/ Device
            \/ \E u \in Clicks : sendRefresh(u) \/ Progress(u) \/ PostFails(u)
            \/ sendSetup \/ SetupAnswered \/ CloseMessage

PageSpec == PageInit /\ [][PageNext]_pageVars

\* The SDK ends the scans it takes on, and the browser its timers and its
\* requests, those that fail included.
PageFairSpec == /\ PageSpec
                /\ WF_pageVars(Finish /\ UNCHANGED page)
                /\ \A u \in Clicks : WF_pageVars(Progress(u))

-----------------------------------------------------------------------------
(* A chain that came to its end was answered by a scan that ended after    *)
(* its click, however many chains overlap and whoever else asks; and what  *)
(* anybody is told of a finished scan is as fresh.                         *)
ListIsFresh == /\ FinishedIsFresh
               /\ \A u \in Clicks : stage[u] = "over" => u \notin waiting

(* Once the other browsers leave the scan alone, a click is followed by a  *)
(* list and the button to ask for the next, unless one of its requests is  *)
(* lost or the SDK declines a scan, whose SCANNING then stays for ever.    *)
OthersRefresh == \E u \in Users \ Clicks, taken \in BOOLEAN : Refresh(u, taken)
RefreshEnds ==
  <>[][~OthersRefresh]_pageVars =>
    \A u \in Clicks : (stage[u] = "refresh") ~>
      (declined \/ stage[u] = "failed" \/ (apTable # "loading" /\ refreshAps = "enabled"))
=============================================================================
