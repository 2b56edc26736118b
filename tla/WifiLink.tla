------------------------------- MODULE WifiLink -------------------------------
(***************************************************************************)
(* The WiFi linker of src/modules/wifi.c: one timer that polls the station *)
(* in station mode (wifi_check_ip) and waits for new settings in access    *)
(* point mode (wifi_check_cfg), and what it tells the application.  The    *)
(* station of the SDK and the user's settings are the environment.         *)
(***************************************************************************)
EXTENDS Naturals

CONSTANTS
  Settings,            \* what cfg may hold, each a record with an "ssid"
  NoName,              \* the empty SSID
  FailedAttemptsMax    \* WIFI_FAILED_ATTEMPS_MAX

ASSUME AttemptsAssumption == FailedAttemptsMax \in Nat

VARIABLES
  linker,              \* the function the WiFiLinker timer is armed with
  attempts,            \* connectionFailedAttemps
  told,                \* lastWifiStatus: what wifiCb was called with last
  update,              \* run_state.wifi_cfg_update
  cfg,                 \* the settings in memory
  reloaded,            \* history: a refused request has changed cfg since the
                       \* station was given its settings
  station,             \* wifi_station_get_connect_status
  address,             \* the station's IP address is not 0
  joined               \* the SSID given to the station

vars == <<linker, attempts, told, update, cfg, reloaded, station, address, joined>>

ssid == cfg.ssid
Names == {s.ssid : s \in Settings}

Failed == {"WRONG_PASSWORD", "NO_AP_FOUND", "CONNECT_FAIL"}
Status == {"IDLE", "CONNECTING", "GOT_IP"} \cup Failed

-----------------------------------------------------------------------------
wifi_station_connect == station' = "CONNECTING" /\ address' = FALSE

\* WIFI_StationMode, with wifi_set_station_config.
WIFI_StationMode ==
  /\ joined' = ssid
  /\ linker' = "check_ip"
  /\ reloaded' = FALSE
  /\ wifi_station_connect

\* WIFI_APMode, with wifi_station_disconnect.
WIFI_APMode ==
  /\ station' = "IDLE" /\ address' = FALSE
  /\ linker' = "check_cfg"
  /\ UNCHANGED joined

\* app_init registers wifiCb and starts in station mode.
Init == /\ attempts = 0 /\ told = "IDLE" /\ update = FALSE
        /\ cfg \in Settings /\ joined = ssid /\ reloaded = FALSE
        /\ linker = "check_ip"
        /\ station = "CONNECTING" /\ address = FALSE

-----------------------------------------------------------------------------
(* wifi_check_ip, one action for each of its branches; each ends by telling*)
(* the application of a status that differs from the last.                 *)

TakeSettings ==
  /\ linker = "check_ip" /\ update
  /\ WIFI_StationMode
  /\ update' = FALSE
  /\ told' = "NO_AP_FOUND"
  /\ UNCHANGED <<attempts, cfg>>

NothingConfigured ==
  /\ linker = "check_ip" /\ ~update
  /\ ssid = NoName
  /\ WIFI_APMode
  /\ told' = "NO_AP_FOUND"
  /\ UNCHANGED <<attempts, update, cfg, reloaded>>

Online == station = "GOT_IP" /\ address

StillConnected ==
  /\ linker = "check_ip" /\ ~update /\ ssid # NoName
  /\ Online
  /\ told' = station
  /\ UNCHANGED <<linker, attempts, update, cfg, reloaded, station, address, joined>>

\* Mutant: the application hears of the failure in the next poll only.
FallBackUntold ==
  /\ linker = "check_ip" /\ ~update /\ ssid # NoName
  /\ ~Online /\ attempts >= FailedAttemptsMax
  /\ attempts' = 0
  /\ WIFI_APMode
  /\ UNCHANGED <<told, update, cfg, reloaded>>

FallBack ==
  /\ linker = "check_ip" /\ ~update /\ ssid # NoName
  /\ ~Online /\ attempts >= FailedAttemptsMax
  /\ attempts' = 0
  /\ WIFI_APMode
  /\ told' = "CONNECT_FAIL"
  /\ UNCHANGED <<update, cfg, reloaded>>

\* Mutant: an access point that is out of reach does not count.
RetryUncounted ==
  /\ linker = "check_ip" /\ ~update /\ ssid # NoName
  /\ ~Online /\ attempts < FailedAttemptsMax
  /\ told' = station
  /\ station \in Failed
  /\ wifi_station_connect
  /\ attempts' = IF station = "NO_AP_FOUND" THEN attempts ELSE attempts + 1
  /\ UNCHANGED <<linker, update, cfg, reloaded, joined>>

Retry ==
  /\ linker = "check_ip" /\ ~update /\ ssid # NoName
  /\ ~Online /\ attempts < FailedAttemptsMax
  /\ station \in Failed
  /\ told' = station
  /\ wifi_station_connect
  /\ attempts' = attempts + 1
  /\ UNCHANGED <<linker, update, cfg, reloaded, joined>>

\* Mutant: the application hears of failures and connections only.
WaitUntold ==
  /\ linker = "check_ip" /\ ~update /\ ssid # NoName
  /\ ~Online /\ attempts < FailedAttemptsMax
  /\ station \notin Failed
  /\ told' = IF station = "GOT_IP" THEN station ELSE told
  /\ UNCHANGED <<linker, attempts, update, cfg, reloaded, station, address, joined>>

Wait ==
  /\ linker = "check_ip" /\ ~update /\ ssid # NoName
  /\ ~Online /\ attempts < FailedAttemptsMax
  /\ station \notin Failed
  /\ told' = station
  /\ UNCHANGED <<linker, attempts, update, cfg, reloaded, station, address, joined>>

wifi_check_ip == \/ TakeSettings \/ NothingConfigured \/ StillConnected
                 \/ FallBack \/ Retry \/ Wait

\* Mutant: the flag is cleared and the station is left as it is.
CfgDropped ==
  /\ linker = "check_cfg"
  /\ update' = FALSE
  /\ UNCHANGED <<linker, attempts, told, cfg, reloaded, station, address, joined>>

wifi_check_cfg ==
  /\ linker = "check_cfg"
  /\ IF update THEN WIFI_StationMode /\ update' = FALSE
     ELSE UNCHANGED <<linker, update, reloaded, station, address, joined>>
  /\ UNCHANGED <<attempts, told, cfg>>

-----------------------------------------------------------------------------
(* The environment.                                                        *)

\* api_setup_request with good settings: config_save, and the flag.
Configure(settings) ==
  /\ cfg' = settings /\ update' = TRUE
  /\ UNCHANGED <<linker, attempts, told, reloaded, station, address, joined>>

\* api_setup_request with settings it refuses: config_load, and no flag.
Refuse(settings) ==
  /\ cfg' = settings
  /\ reloaded' = (reloaded \/ cfg' # cfg)
  /\ UNCHANGED <<linker, attempts, told, update, station, address, joined>>

\* The SDK connects, fails, loses the access point and tries again by
\* itself, until it is told to disconnect.  The status may say GOT_IP before
\* the address is there.
StationMoves ==
  /\ station # "IDLE"
  /\ \/ station' \in Status \ {"IDLE", "GOT_IP"} /\ address' = FALSE
     \/ station' = "GOT_IP" /\ address' \in BOOLEAN
  /\ UNCHANGED <<linker, attempts, told, update, cfg, reloaded, joined>>

Next == \/ wifi_check_ip \/ wifi_check_cfg \/ StationMoves
        \/ \E settings \in Settings : Configure(settings) \/ Refuse(settings)

Spec == Init /\ [][Next]_vars

\* The timer that is armed fires.
FairSpec == Spec /\ WF_vars(wifi_check_ip) /\ WF_vars(wifi_check_cfg)

-----------------------------------------------------------------------------
(* Type correctness; attempts never passes the limit.                      *)
TypeOK ==
  /\ linker \in {"check_ip", "check_cfg"}
  /\ attempts \in 0..FailedAttemptsMax
  /\ told \in Status
  /\ update \in BOOLEAN /\ address \in BOOLEAN
  /\ cfg \in Settings /\ joined \in Names
  /\ reloaded \in BOOLEAN
  /\ station \in Status

(* In access point mode nobody polls the station, so the application must  *)
(* know by then that it is not connected: MQTT and the weather have stopped.*)
ToldBeforeFallBack == linker = "check_cfg" => told # "GOT_IP"

(* No settings are pending: the station has been given the ones in memory,  *)
(* unless a refused request has loaded others from flash.                   *)
StationHasSettings == ~update /\ ~reloaded => joined = ssid

(* Access point mode is the fallback of a station that fails again and     *)
(* again, whatever it does between the failures.                           *)
FailingPoll == wifi_check_ip /\ ~update /\ station \in Failed
FallsBack == []<><<FailingPoll>>_vars => []<>(linker = "check_cfg")

(* The application hears of a connection that lasts, and of one that is    *)
(* lost for good, with or without the access point.                        *)
HearsOfStation ==
  /\ <>[](Online /\ ~update /\ ssid # NoName) => <>[](told = "GOT_IP")
  /\ <>[](station # "GOT_IP") => <>[](told # "GOT_IP")
=============================================================================
