------------------------------- MODULE WifiScan --------------------------------
(***************************************************************************)
(* The scan for access points of src/modules/wifi_scan.c, with the request *)
(* handler of src/websrv/api_wifi_scan.c that starts scans and prints the  *)
(* list.  The SDK scans by itself and calls wifi_scan_finish once for      *)
(* every scan it takes on; it may decline one, which the code ignores.     *)
(* The users are free to ask what they like, or are those of SetupPage.     *)
(***************************************************************************)
EXTENDS Naturals

CONSTANTS
  Users,               \* who asks over HTTP
  MaxAps               \* MAX_AP_LIST

ASSUME MaxApsAssumption == MaxAps \in Nat \ {0}

VARIABLES
  ap_scan_status, ap_count,
                       \* wifi_scan_state; the entries below ap_count are allocated
  pending,             \* scans the SDK has taken on and not reported
  answer,              \* what each user was told last
  waiting,             \* history: who asked for a refresh that no scan answered
  declined             \* history: the SDK declined the scan started last

scanVars == <<ap_scan_status, ap_count, pending, answer, waiting, declined>>

Status == {"NOT_SCANNED", "SCANNING", "SCAN_FINISHED", "SCAN_ERROR"}
NoAnswer == [status |-> "none", aps |-> 0]

\* The SDK calls wifi_start_scan when the system is up, if it still does:
\* app_init, which registers it, is itself called at that moment.
ScanInit == /\ \/ ap_scan_status = "NOT_SCANNED" /\ pending = 0 /\ declined = FALSE
               \/ ap_scan_status = "SCANNING" /\ pending = 1 /\ declined = FALSE
               \/ ap_scan_status = "SCANNING" /\ pending = 0 /\ declined = TRUE
            /\ ap_count = 0
            /\ answer = [u \in Users |-> NoAnswer]
            /\ waiting = {}

-----------------------------------------------------------------------------
\* Mutant: the status is left to wifi_scan_finish.
StartUnmarked(taken) ==
  /\ ap_count' = 0
  /\ pending' = pending + (IF taken THEN 1 ELSE 0)
  /\ declined' = ~taken
  /\ UNCHANGED ap_scan_status

\* wifi_clear_list, then the call of wifi_station_scan.
wifi_start_scan(taken) ==
  /\ ap_count' = 0
  /\ ap_scan_status' = "SCANNING"
  /\ pending' = pending + (IF taken THEN 1 ELSE 0)
  /\ declined' = ~taken

\* The status of a scan that failed, SCAN_ERROR, is overwritten by the next
\* statement, and the list is read all the same.
wifi_scan_finish(found) ==
  /\ pending > 0 /\ pending' = pending - 1
  /\ ap_scan_status' = "SCAN_FINISHED"
  /\ ap_count' = IF found <= MaxAps THEN found ELSE MaxAps
  /\ waiting' = {}
  /\ UNCHANGED <<answer, declined>>

-----------------------------------------------------------------------------
\* The list is printed as it is after the request was served.
Told(u, status) == answer' = [answer EXCEPT ![u] = [status |-> status, aps |-> ap_count']]

\* Mutant: a refresh always starts a scan.
RefreshAlways(u, taken) ==
  /\ wifi_start_scan(taken)
  /\ Told(u, "SCANNING")
  /\ waiting' = waiting \cup {u}

\* api_print_wifi_scan for {"aplist": "refresh"}; a scan that runs is joined.
Refresh(u, taken) ==
  /\ IF ap_scan_status # "SCANNING"
       THEN wifi_start_scan(taken)
       ELSE UNCHANGED <<ap_scan_status, ap_count, pending, declined>>
  /\ Told(u, "SCANNING")
  /\ waiting' = waiting \cup {u}

\* api_print_wifi_scan for {"aplist": "list"}.
List(u) ==
  /\ UNCHANGED <<ap_scan_status, ap_count, pending, waiting, declined>>
  /\ Told(u, ap_scan_status)

\* api_print_wifi_scan for anything else: the list comes with it.
BadRequest(u) ==
  /\ UNCHANGED <<ap_scan_status, ap_count, pending, waiting, declined>>
  /\ Told(u, "BAD_REQUEST")

Finish == \E found \in 0..MaxAps + 1 : wifi_scan_finish(found)

Asks(u) == \/ \E taken \in BOOLEAN : Refresh(u, taken)
           \/ List(u)
           \/ BadRequest(u)

ScanNext == Finish \/ \E u \in Users : Asks(u)

ScanSpec == ScanInit /\ [][ScanNext]_scanVars

-----------------------------------------------------------------------------
(* A scan that is reported finds the list empty, whoever asked for lists   *)
(* and refreshes meanwhile: wifi_scan_finish, which overwrites the entries *)
(* and frees none, loses no allocated one.                                 *)
NothingOverwritten == pending > 0 => ap_count = 0 /\ ap_scan_status = "SCANNING"

(* A user who asked for a refresh and is then told the scan is finished    *)
(* reads the list of a scan that ended after asking, also when the refresh *)
(* joined a scan somebody else had started; and no list names access       *)
(* points while a scan runs (api_print_wifi_scan).                         *)
FinishedIsFresh ==
  \A u \in Users : /\ answer[u].status = "SCAN_FINISHED" => u \notin waiting
                   /\ answer[u].aps > 0 => answer[u].status \in {"SCAN_FINISHED", "BAD_REQUEST"}
=============================================================================
