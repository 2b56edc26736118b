-------------------------------- MODULE Device --------------------------------
(***************************************************************************)
(* The device between boots (src/user/user_main.c): the settings in flash  *)
(* (ConfigStore), the WiFi linker that takes them from memory (WifiLink),  *)
(* and wifiConnectCb, which hands the broker's part of them to the MQTT    *)
(* client and starts and stops it.  The host it hands over is a pointer    *)
(* into cfg, the port is a copy.                                           *)
(*                                                                         *)
(* Handlers are not preempted, and a save that fails or is cut short is    *)
(* ConfigStore's subject: here a save is one step and restarts come        *)
(* between handlers.                                                       *)
(***************************************************************************)
EXTENDS WifiLink

CONSTANTS
  Saved,               \* what users save, each [ssid, host, port]
  ErasedCfg,           \* the settings that an erased sector reads as
  MQTT_PORT,           \* the port app_init gives the client
  MaxRestarts          \* bound

ASSUME SavedAssumption == Settings = Saved \cup {ErasedCfg} /\ ErasedCfg \notin Saved

VARIABLES
  header, flash,       \* as in ConfigStore
  port,                \* mqttClient->port
  target,              \* what the last MQTT_Connect connected to
  restarts             \* how many restarts there were

store == <<header, flash>>
mqtt == <<port, target>>
deviceVars == <<vars, store, mqtt, restarts>>

Torn == "torn"
Store == INSTANCE ConfigStore WITH
  Settings <- Saved, Blank <- ErasedCfg,
  step <- "idle", saves <- 0, last <- ErasedCfg, previous <- ErasedCfg, faults <- {}

NoTarget == [host |-> "none", port |-> 0]

-----------------------------------------------------------------------------
\* The device as it was delivered, after its first app_init.
DeviceInit == /\ header = Store!Erased
              /\ flash = [s \in Store!Sectors |-> ErasedCfg]
              /\ cfg = ErasedCfg
              /\ Init
              /\ port = MQTT_PORT /\ target = NoTarget
              /\ restarts = 0

\* Power is lost, or an upgrade ends in a restart; then app_init.  The client
\* has a host and a port of its own again.
Restart == /\ restarts < MaxRestarts
           /\ restarts' = restarts + 1
           /\ cfg' = flash[Store!LoadLocation]
           /\ attempts' = 0 /\ told' = "IDLE" /\ update' = FALSE
           /\ joined' = cfg'.ssid /\ reloaded' = FALSE
           /\ linker' = "check_ip"
           /\ wifi_station_connect
           /\ port' = MQTT_PORT /\ target' = NoTarget
           /\ UNCHANGED store

\* Mutant: the port is the one app_init was given.
ConnectToDefault ==
  IF told' # told /\ told' = "GOT_IP"
  THEN /\ UNCHANGED port
       /\ target' = [host |-> cfg.host, port |-> port]
  ELSE UNCHANGED mqtt

\* wifiConnectCb: MQTT_Connect on GOT_IP and MQTT_Disconnect on any other
\* status.  That the client is connecting, and that the weather is fetched,
\* is the same as told = "GOT_IP".
wifiConnectCb ==
  IF told' # told /\ told' = "GOT_IP"
  THEN /\ port' = cfg.port
       /\ target' = [host |-> cfg.host, port |-> port']
  ELSE UNCHANGED mqtt

\* MQTT_Task, when the connection was lost and the reconnect timer ran out.
Reconnect == /\ told = "GOT_IP"
             /\ target' = [host |-> cfg.host, port |-> port]
             /\ UNCHANGED <<vars, store, port, restarts>>

\* api_setup_request with settings it can parse.
Save(settings) ==
  /\ Configure(settings)
  /\ flash' = [flash EXCEPT ![Store!SaveLocation] = settings]
  /\ header' = Store!Program(header, Store!Flipped)
  /\ UNCHANGED <<mqtt, restarts>>

\* And with settings it cannot.
Reject == Refuse(flash[Store!LoadLocation]) /\ UNCHANGED <<store, mqtt, restarts>>

CheckIp == wifi_check_ip /\ wifiConnectCb /\ UNCHANGED <<store, restarts>>
CheckCfg == wifi_check_cfg /\ UNCHANGED <<store, mqtt, restarts>>
Station == StationMoves /\ UNCHANGED <<store, mqtt, restarts>>

DeviceNext == \/ CheckIp \/ CheckCfg \/ Station \/ Reconnect \/ Reject \/ Restart
              \/ \E settings \in Saved : Save(settings)

DeviceSpec == DeviceInit /\ [][DeviceNext]_deviceVars

\* The timer that is armed fires.
DeviceFairSpec ==
  DeviceSpec /\ WF_deviceVars(CheckIp) /\ WF_deviceVars(CheckCfg)

-----------------------------------------------------------------------------
\* MQTT was last told to connect to the host and port in memory.
MqttHasSettings ==
  told = "GOT_IP" /\ ~update /\ ~reloaded =>
    target = [host |-> cfg.host, port |-> cfg.port]

(* The station joins the network in the settings and MQTT goes to their    *)
(* host and port, both of the same settings, unless newer ones wait for the*)
(* linker's next poll or a refused request has loaded others; a restart or *)
(* a lost connection in between changes nothing.                           *)
SettingsInUse == StationHasSettings /\ MqttHasSettings
=============================================================================
