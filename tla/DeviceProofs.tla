---------------------------- MODULE DeviceProofs ----------------------------
(***************************************************************************)
(* For every set of settings and every limit: the safety of the WiFi       *)
(* linker, and of the device that saves settings, loads them at a restart, *)
(* and hands them to the station and to the MQTT client.  For every name   *)
(* of the chip: the device and its sensor agree on what is on their wires. *)
(***************************************************************************)
EXTENDS Device, Sensor, TLAPS

Inv == TypeOK /\ ToldBeforeFallBack /\ StationHasSettings

\* The flags apart, which are Zenon's; the rest of TypeOK is for SMT.
Flags == update \in BOOLEAN /\ address \in BOOLEAN /\ reloaded \in BOOLEAN
Ranges == /\ linker \in {"check_ip", "check_cfg"}
          /\ attempts \in 0..FailedAttemptsMax
          /\ told \in Status /\ station \in Status
          /\ cfg \in Settings /\ joined \in Names

LEMMA Parts == Inv <=> Flags /\ Ranges /\ ToldBeforeFallBack /\ StationHasSettings
BY DEF Inv, TypeOK, Flags, Ranges

LEMMA InitInv == Init => Inv
<1> SUFFICES ASSUME Init PROVE Flags /\ Ranges /\ ToldBeforeFallBack /\ StationHasSettings
  BY Parts
<1>1. Flags
  BY Zenon DEF Init, Flags
<1>2. Ranges
  BY AttemptsAssumption DEF Init, Ranges, Status, Failed, ssid, Names
<1>3. ToldBeforeFallBack /\ StationHasSettings
  BY DEF Init, ToldBeforeFallBack, StationHasSettings, ssid
<1> QED BY <1>1, <1>2, <1>3

LEMMA CheckIpInv == Inv /\ wifi_check_ip => Inv'
<1> SUFFICES ASSUME Flags, Ranges, ToldBeforeFallBack, StationHasSettings, wifi_check_ip
             PROVE  Flags' /\ Ranges' /\ ToldBeforeFallBack' /\ StationHasSettings'
  BY Parts, Zenon DEF Inv, TypeOK, Flags, Ranges, ToldBeforeFallBack, StationHasSettings
<1>1. Flags'
  BY Zenon DEF Flags, wifi_check_ip, TakeSettings, NothingConfigured, StillConnected,
               FallBack, Retry, Wait, WIFI_StationMode, WIFI_APMode,
               wifi_station_connect
<1>2. Ranges' /\ ToldBeforeFallBack' /\ StationHasSettings'
  <2> USE AttemptsAssumption
      DEF Ranges, ToldBeforeFallBack, StationHasSettings, Status, Failed, ssid, Names
  <2>1. CASE TakeSettings
    BY <2>1 DEF TakeSettings, WIFI_StationMode, wifi_station_connect
  <2>2. CASE NothingConfigured
    BY <2>2 DEF NothingConfigured, WIFI_APMode
  <2>3. CASE StillConnected
    BY <2>3 DEF StillConnected
  <2>4. CASE FallBack
    BY <2>4 DEF FallBack, WIFI_APMode
  <2>5. CASE Retry
    BY <2>5 DEF Retry, wifi_station_connect
  <2>6. CASE Wait
    BY <2>6 DEF Wait
  <2> QED BY <2>1, <2>2, <2>3, <2>4, <2>5, <2>6 DEF wifi_check_ip
<1> QED BY <1>1, <1>2

LEMMA CheckCfgInv == Inv /\ wifi_check_cfg => Inv'
BY DEF Inv, TypeOK, ToldBeforeFallBack, StationHasSettings, Status, Failed, ssid, Names,
       wifi_check_cfg, WIFI_StationMode, wifi_station_connect

LEMMA SettingsInv ==
  ASSUME Inv, NEW s \in Settings, Configure(s) \/ Refuse(s)
  PROVE  Inv'
<1> SUFFICES ASSUME Flags, Ranges, ToldBeforeFallBack, StationHasSettings
             PROVE  Flags' /\ Ranges' /\ ToldBeforeFallBack' /\ StationHasSettings'
  BY Parts, Zenon DEF Inv, TypeOK, Flags, Ranges, ToldBeforeFallBack, StationHasSettings
<1>1. Flags'
  <2>1. reloaded' \in BOOLEAN /\ address' \in BOOLEAN
    BY Zenon DEF Flags, Configure, Refuse
  <2>2. update' \in BOOLEAN
    BY Zenon DEF Flags, Configure, Refuse
  <2> QED BY <2>1, <2>2 DEF Flags
<1>2. Ranges' /\ ToldBeforeFallBack'
  BY DEF Ranges, ToldBeforeFallBack, Configure, Refuse, Names
<1>3. StationHasSettings'
  BY DEF StationHasSettings, Flags, Configure, Refuse, ssid
<1> QED BY <1>1, <1>2, <1>3

LEMMA StationInv == Inv /\ StationMoves => Inv'
<1> SUFFICES ASSUME Flags, Ranges, ToldBeforeFallBack, StationHasSettings, StationMoves
             PROVE  Flags' /\ Ranges' /\ ToldBeforeFallBack' /\ StationHasSettings'
  BY Parts, Zenon DEF Inv, TypeOK, Flags, Ranges, ToldBeforeFallBack, StationHasSettings
<1>1. Flags'
  BY Zenon DEF Flags, StationMoves
<1>2. Ranges' /\ ToldBeforeFallBack'
  BY DEF Ranges, ToldBeforeFallBack, StationMoves, Status, Failed, Names
<1>3. StationHasSettings'
  BY DEF StationHasSettings, StationMoves, ssid
<1> QED BY <1>1, <1>2, <1>3

LEMMA StutterInv == Inv /\ UNCHANGED vars => Inv'
BY DEF vars, Inv, TypeOK, ToldBeforeFallBack, StationHasSettings, ssid

-----------------------------------------------------------------------------
(* The linker alone.                                                       *)

LEMMA Invariance == Spec => []Inv
<1>1. ASSUME Inv, [Next]_vars PROVE Inv'
  BY <1>1, CheckIpInv, CheckCfgInv, SettingsInv, StationInv, StutterInv DEF Next
<1> QED BY InitInv, <1>1, PTL DEF Spec

\* The count of failed attempts stays within the limit and every variable
\* within its range.
THEOREM TypeCorrect == Spec => []TypeOK
<1>1. Inv => TypeOK
  BY DEF Inv
<1> QED BY Invariance, <1>1, PTL

-----------------------------------------------------------------------------
(* The device.  MqttHasSettings is not inductive: a lost connection is      *)
(* tried again with the copy of the port, which must be current too.       *)

PortIsCurrent == told = "GOT_IP" /\ ~update /\ ~reloaded => port = cfg.port

DeviceInv == /\ Inv
             /\ flash \in [Store!Sectors -> Settings]
             /\ PortIsCurrent /\ MqttHasSettings

LEMMA DeviceInitInv == DeviceInit => DeviceInv
<1> SUFFICES ASSUME DeviceInit PROVE DeviceInv
  OBVIOUS
<1>1. Inv
  BY InitInv DEF DeviceInit
<1>2. flash \in [Store!Sectors -> Settings]
  BY SavedAssumption DEF DeviceInit
<1>3. told # "GOT_IP"
  BY DEF DeviceInit, Init
<1> QED BY <1>1, <1>2, <1>3 DEF DeviceInv, PortIsCurrent, MqttHasSettings

\* A poll hands both parts of the broker's settings over, or leaves the client
\* and the settings as they are.
LEMMA CheckIpDevice == DeviceInv /\ CheckIp => DeviceInv'
<1> SUFFICES ASSUME DeviceInv, CheckIp PROVE DeviceInv'
  OBVIOUS
<1>1. Inv'
  BY CheckIpInv DEF DeviceInv, CheckIp
<1>2. (flash \in [Store!Sectors -> Settings])'
  BY DEF DeviceInv, CheckIp, store
<1>3. told' = "GOT_IP" =>
        cfg' = cfg /\ (update' <=> update) /\ (reloaded' <=> reloaded)
  BY DEF CheckIp, wifi_check_ip, TakeSettings, NothingConfigured, StillConnected,
         FallBack, Retry, Wait, WIFI_APMode, Failed
<1>4. (PortIsCurrent /\ MqttHasSettings)'
  BY <1>3 DEF DeviceInv, CheckIp, wifiConnectCb, mqtt, PortIsCurrent, MqttHasSettings
<1> QED BY <1>1, <1>2, <1>4 DEF DeviceInv

LEMMA CheckCfgDevice == DeviceInv /\ CheckCfg => DeviceInv'
<1> SUFFICES ASSUME DeviceInv, CheckCfg PROVE DeviceInv'
  OBVIOUS
<1>1. Inv' /\ (flash \in [Store!Sectors -> Settings])'
  BY CheckCfgInv DEF DeviceInv, CheckCfg, store
<1>2. told' # "GOT_IP"
  BY DEF DeviceInv, Inv, ToldBeforeFallBack, CheckCfg, wifi_check_cfg
<1> QED BY <1>1, <1>2 DEF DeviceInv, PortIsCurrent, MqttHasSettings

LEMMA SaveDevice == ASSUME DeviceInv, NEW s \in Saved, Save(s) PROVE DeviceInv'
<1>1. s \in Settings
  BY SavedAssumption
<1>2. Inv'
  BY <1>1, SettingsInv DEF DeviceInv, Save
<1>3. (flash \in [Store!Sectors -> Settings])'
  BY <1>1 DEF DeviceInv, Save
<1>4. update'
  BY DEF Save, Configure
<1> QED BY <1>2, <1>3, <1>4 DEF DeviceInv, PortIsCurrent, MqttHasSettings

LEMMA RejectDevice == DeviceInv /\ Reject => DeviceInv'
<1> SUFFICES ASSUME DeviceInv, Reject PROVE DeviceInv'
  OBVIOUS
<1>1. flash[Store!LoadLocation] \in Settings
  BY DEF DeviceInv, Store!LoadLocation, Store!Sectors
<1>2. Inv' /\ (flash \in [Store!Sectors -> Settings])'
  BY <1>1, SettingsInv DEF DeviceInv, Reject, store
<1>3. (PortIsCurrent /\ MqttHasSettings)'
  <2>1. ~reloaded' => cfg' = cfg /\ ~reloaded
    BY DEF Reject, Refuse
  <2>2. told' = told /\ update' = update /\ port' = port /\ target' = target
    BY DEF Reject, Refuse, mqtt
  <2> QED BY <2>1, <2>2 DEF DeviceInv, PortIsCurrent, MqttHasSettings
<1> QED BY <1>2, <1>3 DEF DeviceInv

LEMMA RestartDevice == DeviceInv /\ Restart => DeviceInv'
<1> SUFFICES ASSUME DeviceInv, Restart PROVE DeviceInv'
  OBVIOUS
<1>1. flash[Store!LoadLocation] \in Settings
  BY DEF DeviceInv, Store!LoadLocation, Store!Sectors
<1>2. Flags'
  BY Zenon DEF Restart, wifi_station_connect, Flags
<1>3. Ranges' /\ ToldBeforeFallBack' /\ StationHasSettings'
  BY <1>1, AttemptsAssumption
  DEF Restart, wifi_station_connect, Ranges, ToldBeforeFallBack, StationHasSettings,
      Status, Failed, ssid, Names
<1>4. Inv'
  BY <1>2, <1>3, Parts, Zenon
  DEF Inv, TypeOK, Flags, Ranges, ToldBeforeFallBack, StationHasSettings
<1>5. (flash \in [Store!Sectors -> Settings])'
  BY DEF DeviceInv, Restart, store
<1>6. told' # "GOT_IP"
  BY DEF Restart
<1> QED BY <1>4, <1>5, <1>6 DEF DeviceInv, PortIsCurrent, MqttHasSettings

\* Steps that leave the settings and what the application was told alone.
LEMMA OtherDevice ==
  DeviceInv /\ (Station \/ Reconnect \/ UNCHANGED deviceVars) => DeviceInv'
<1> SUFFICES ASSUME DeviceInv, Station \/ Reconnect \/ UNCHANGED deviceVars
             PROVE  DeviceInv'
  OBVIOUS
<1>1. Inv'
  BY StationInv, StutterInv DEF DeviceInv, Station, Reconnect, deviceVars
<1>2. UNCHANGED <<store, port, cfg, told, update, reloaded>>
  BY DEF Station, StationMoves, Reconnect, deviceVars, vars, store, mqtt
<1>3. \/ target' = target
      \/ target' = [host |-> cfg.host, port |-> port]
  BY DEF Station, Reconnect, deviceVars, mqtt
<1> QED BY <1>1, <1>2, <1>3 DEF DeviceInv, PortIsCurrent, MqttHasSettings, store

LEMMA DeviceInvariance == DeviceSpec => []DeviceInv
<1>1. ASSUME DeviceInv, [DeviceNext]_deviceVars PROVE DeviceInv'
  BY <1>1, CheckIpDevice, CheckCfgDevice, SaveDevice, RejectDevice, RestartDevice,
     OtherDevice
  DEF DeviceNext
<1> QED BY DeviceInitInv, <1>1, PTL DEF DeviceSpec

\* The linker never stops polling the station in favour of the access point
\* with an application that thinks it is connected.
THEOREM FallBackIsTold == DeviceSpec => []ToldBeforeFallBack
<1>1. DeviceInv => ToldBeforeFallBack
  BY DEF DeviceInv, Inv
<1> QED BY DeviceInvariance, <1>1, PTL

\* The station, and the MQTT client once it was started, use the settings in
\* memory unless the flag says that newer ones wait or a refused request has
\* loaded others.
THEOREM SettingsAreUsed == DeviceSpec => []SettingsInUse
<1>1. DeviceInv => SettingsInUse
  BY DEF DeviceInv, Inv, SettingsInUse
<1> QED BY DeviceInvariance, <1>1, PTL

-----------------------------------------------------------------------------
(* The sensor.  One that is there is in step with the driver, or waits for *)
(* a start, or missed the start of the capture or of its trigger: then it  *)
(* sends, a fixed number of pulses ahead of the driver, and the bits of    *)
(* the driver's bytes say when it loses an acknowledgement and waits for   *)
(* a start again, so that it never acknowledges a whole request by chance. *)

(* The transfers, and the bits of the bytes they send.                     *)

Capture == BME280_sendI2cRead("capture", 247, 8)
Trigger == BME280_sendI2cTriggerForcedRead
SensorSettings == {BME280_sendI2cWriteData(BME280_REG_CTRL_HUM, 1), Trigger,
              BME280_sendI2cWriteData(BME280_REG_CONFIG, 128)}
InitTransfers == SensorSettings \cup {BME280_verifyChipId} \cup
                 {BME280_sendI2cRead("calibrate", 136, 24), BME280_sendI2cRead("calibrate", 161, 1),
                  BME280_sendI2cRead("calibrate", 225, 7)}

Program ==
  /\ transfer \in InitTransfers \cup {Capture}
  /\ \/ transfers = <<>>
     \/ transfers = <<Capture>>
     \/ transfers = <<Trigger, Capture>> /\ forced /\ stage = "rest"
     \/ transfers \in Seq(InitTransfers) /\ ~Captures
  /\ Captures /\ stage # "rest" => transfers = <<>>

\* The first p bits of a byte.
Upper == <<256, 128, 64, 32, 16, 8, 4, 2, 1>>
First(byte, p) == byte \div Upper[p + 1]

-----------------------------------------------------------------------------
(* What the sensor may be doing.                                           *)

\* Waiting for a start.
Deaf == sensor.mode = "idle" /\ pull = 1

\* Taking in a byte.
Hears(mode, p) == sensor.mode = mode /\ sensor.pulses = p

\* Sending one.
Sends(p) == sensor.mode = "send" /\ sensor.pulses = p

\* It has missed the start of a transfer and is k pulses ahead of the driver.
Missed(k) ==
  /\ k \in 1 .. 3
  /\ \/ /\ stage = "rest" /\ transfers \in {<<>>, <<Trigger, Capture>>}
        /\ forced => k # 2
     \/ /\ stage = "rest" /\ transfers = <<Capture>>
        /\ forced => k = 2
     \/ /\ stage # "rest" /\ transfer = Trigger /\ transfers = <<Capture>> /\ forced /\ k # 2
     \/ /\ stage # "rest" /\ transfer = Capture
        /\ forced => k = 2

\* It will have, when the wires are let go.
Late == \E k \in 1 .. 3 : Missed(k) /\ Sends(k - 1 + sck)

Mode == CASE count = 0 -> "address" [] count = 1 -> "register"
          [] count = 2 /\ Writes -> "value" [] OTHER -> "address"

Told == count = 2 => sensor.register = transfer.register

-----------------------------------------------------------------------------
(* One part of the invariant for every stage.                              *)

Stopping == /\ call = i2c_stop /\ at \in 0 .. 2
            /\ sda \in {0, 1} /\ sck = (IF at = 0 THEN 0 ELSE 1) /\ (at = 2 => sda = 1)

Checked == call = i2c_check_ack /\ at = 6 /\ sck = 0 /\ sda = 0

RestInv ==
  \/ Stopping /\ (Deaf \/ Late)
  \/ Stopping /\ at < 2 /\ sda = 0 /\ pull = 1 /\ Hears("register", at)
  \/ Checked /\ Late

StartInv ==
  /\ got = 0 /\ written = {}
  /\ \/ count = 0 /\ call = i2c_init /\ at \in 0 .. 2 /\ sda = 1 /\ sck = 1 /\ Deaf
     \/ count = 0 /\ Stopping /\ at = 2 /\ (Deaf \/ Late)
     \/ count = 0 /\ Checked /\ Late
     \/ count = 2 /\ ~Writes /\ Checked /\ pull = 1 /\ Hears("value", 0) /\ Told

Starting ==
  /\ call = i2c_start /\ at \in 0 .. 4
  /\ at = 0 => sda = sck /\ sck \in {0, 1}
  /\ at = 1 => sda = 1 /\ sck \in {0, 1}
  /\ at = 2 => sda = 1 /\ sck = 1
  /\ at = 3 => sda = 0 /\ sck = 1
  /\ at = 4 => sda = 0 /\ sck = 0

PutInv ==
  /\ got = 0 /\ written = {}
  /\ \/ Starting /\ at \in 0 .. 2 /\ count = 0 /\ (Deaf \/ Late)
     \/ Starting /\ at \in 0 .. 2 /\ count = 2 /\ ~Writes /\ pull = 1 /\ Told
        /\ (at < 2 => sck = 0 /\ Hears("value", 0)) /\ (at = 2 => Hears("value", 1))
     \/ Starting /\ at \in 3 .. 4 /\ count \in {0, 2} /\ (count = 2 => ~Writes)
        /\ pull = 1 /\ Hears("address", 0) /\ sensor.byte = 0 /\ Told
     \/ Starting /\ at = 3 /\ count = 0 /\ Late /\ pull # 1
     \/ Starting /\ at = 4 /\ count = 0 /\ \E k \in 1 .. 3 : Missed(k) /\ Sends(k)
     \/ Checked /\ count \in 1 .. 2 /\ (count = 2 => Writes)
        /\ pull = 1 /\ Hears(Mode, 0) /\ sensor.byte = 0 /\ Told
     \/ Checked /\ (count = 1 \/ (count = 2 /\ Writes)) 
        /\ \E k \in 1 .. 2 : Missed(k) /\ Sends(k) /\ (count = 2 => k = 1)

Putting ==
  /\ call = i2c_writeByte(Sent) /\ at \in 0 .. 24
  /\ at % 3 = 0 => sck = 0
  /\ at % 3 = 1 => sck = 0 /\ sda = BitOf(Sent, at \div 3)
  /\ at % 3 = 2 => sck = 1 /\ sda = BitOf(Sent, at \div 3)

Risings == (at + 1) \div 3

CheckInv ==
  /\ got = 0 /\ written = {} /\ count \in 0 .. 2 /\ Putting
  /\ \/ Hears(Mode, Risings) /\ sensor.byte = First(Sent, Risings) /\ Told
        /\ (at < 24 => pull = 1) /\ (at = 24 => pull = 0)
     \/ Deaf /\ (Writes \/ (Captures /\ count < 2))
     \/ \E k \in 1 .. 3 :
          /\ Missed(k)
          /\ count = 1 => k < 3
          /\ count = 2 => k = 1 /\ Writes
          /\ \/ Sends(k + Risings) /\ k + Risings < 9 /\ (k + Risings = 8 /\ sck = 0 => pull = 1)
             \/ Sends(9) /\ k + Risings = 9 /\ sck = 1 /\ k < 3
                /\ (count = 0 \/ (count = 1 /\ k = 1 /\ Writes))
             \/ Sends(k + Risings - 9) /\ k + Risings >= 9 /\ (k + Risings = 9 => sck = 0) /\ k < 3
                /\ (count = 0 \/ (count = 1 /\ k = 1 /\ Writes))

Checking ==
  /\ call = i2c_check_ack /\ at \in 0 .. 6
  /\ at >= 1 /\ at < 6 => sda = 1
  /\ sck = (IF at \in 3 .. 4 THEN 1 ELSE 0)
  /\ at = 6 => sda = 0

Taken == written = {<<transfer.register, transfer.third>>}

AckedInv ==
  /\ got = 0 /\ count \in 0 .. 2 /\ Checking
  /\ \/ /\ at < 5 /\ written = {} /\ pull = 0 /\ Told /\ sensor.byte = Sent
        /\ at < 3 => Hears(Mode, 8)
        /\ at >= 3 => Hears(Mode, 9)
        /\ at = 4 => sample = 0
     \/ /\ at >= 5 /\ sample = 0
        /\ count = 0 => Hears("register", 0) /\ sensor.byte = 0 /\ pull = 1
        /\ count = 1 => /\ Hears("value", 0) /\ sensor.byte = 0
                        /\ sensor.register = transfer.register /\ pull = 1
        /\ count = 2 /\ Writes => Hears("register", 0) /\ pull = 1
        /\ count = 2 /\ ~Writes => Sends(0) /\ sensor.register = transfer.register
        /\ count < 2 \/ ~Writes => written = {}
        /\ count = 2 /\ Writes => Taken
     \/ /\ Deaf /\ (at >= 4 => sample = 1) /\ written = {}
        /\ Writes \/ (Captures /\ count < 2)
     \/ /\ written = {} /\ (count = 0 \/ (count = 1 /\ Writes))
        /\ \E k \in 1 .. 2 : Missed(k) /\ (count = 1 => k = 1) /\ Sends(IF at < 3 THEN k - 1 ELSE k)

\* The acknowledgement a of the byte before.
Answering(a) ==
  /\ call = i2c_send_ack(a) /\ at \in 0 .. 6
  /\ sck = (IF at = 4 THEN 1 ELSE 0)
  /\ at \in 2 .. 5 => sda = 1 - a
  /\ at = 6 => sda = 1
  /\ at < 4 => pull = 1 /\ Sends(8) /\ sensor.register = transfer.register + got - 1
  /\ at = 4 /\ a = 1 => Sends(9) /\ sensor.register = transfer.register + got - 1
  /\ at > 4 /\ a = 1 => Sends(0) /\ sensor.register = transfer.register + got
  /\ at >= 4 /\ a = 0 => Deaf

ReadInv ==
  /\ count = 3 /\ ~Writes /\ written = {} /\ got < transfer.bytes
  /\ \/ got = 0 /\ Checked /\ Sends(0) /\ sensor.register = transfer.register
     \/ got > 0 /\ Answering(1)

AnswerInv ==
  /\ count = 3 /\ ~Writes /\ written = {} /\ got >= 0 /\ got < transfer.bytes
  /\ call = i2c_readByte(transfer.for = "verify") /\ at \in 0 .. 26
  /\ at >= 1 => sda = 1
  /\ at = 0 \/ at = 1 \/ at % 3 = 2 => sck = 0
  /\ at > 1 /\ at % 3 # 2 => sck = 1
  /\ sensor.register = transfer.register + got
  /\ Sends(at \div 3) /\ (at = 26 => pull = 1)

StopInv ==
  /\ count = 3
  /\ Writes => Checked /\ pull = 1 /\ Hears("register", 0) /\ Taken
  /\ ~Writes => /\ written = {} /\ got = transfer.bytes
                /\ IF Captures THEN Answering(1) ELSE Answering(0)

VerifyInv == ~Writes /\ Stopping /\ Deaf

Stages == {"rest", "start", "put", "check", "acked", "read", "answer", "stop", "verify"}

Present ==
  /\ sensor.mode # "absent"
  /\ stage = "rest" => RestInv
  /\ stage = "start" => StartInv
  /\ stage = "put" => PutInv
  /\ stage = "check" => CheckInv
  /\ stage = "acked" => AckedInv
  /\ stage = "read" => ReadInv
  /\ stage = "answer" => AnswerInv
  /\ stage = "stop" => StopInv
  /\ stage = "verify" => VerifyInv

Gone ==
  /\ sensor.mode = "absent" /\ pull = 1 /\ count = 0 /\ written = {}
  /\ stage \in {"read", "answer", "stop", "verify"} => ~Writes
  /\ stage = "acked" => /\ call = i2c_check_ack /\ at \in 0 .. 6
                        /\ at \in 1 .. 5 => sda = 1
                        /\ at >= 4 => sample = 1

SensorState == [mode : {"absent", "idle", "address", "register", "value", "send"},
                pulses : Int, byte : Int, register : Int]

Known == {<<BME280_REG_CTRL_HUM, 1>>, <<BME280_REG_CTRL_MEAS, ctrl_meas_reg>>,
          <<BME280_REG_CONFIG, 128>>}

SensorInv ==
  /\ sensor \in SensorState /\ stage \in Stages /\ got \in Int /\ Program
  /\ written \subseteq Known
  /\ Present \/ Gone

-----------------------------------------------------------------------------
(* Bits and transfers.                                                     *)

LEMMA FirstBits ==
  ASSUME NEW byte \in Nat, byte < 256
  PROVE  /\ First(byte, 0) = 0 /\ First(byte, 8) = byte
         /\ \A p \in 0 .. 7 : /\ BitOf(byte, p) \in {0, 1}
                              /\ First(byte, p + 1) = 2 * First(byte, p) + BitOf(byte, p)
<1>1. First(byte, 0) = 0 /\ First(byte, 8) = byte
  BY DEF First, Upper
<1>2. ASSUME NEW p \in 0 .. 7
      PROVE  /\ BitOf(byte, p) \in {0, 1}
             /\ First(byte, p + 1) = 2 * First(byte, p) + BitOf(byte, p)
  <2> DEFINE u == Upper[p + 1]
             l == Place[p + 1]
  <2>1. /\ u \in {256, 128, 64, 32, 16, 8, 4, 2} /\ l \in {128, 64, 32, 16, 8, 4, 2, 1}
        /\ u = 2 * l /\ Upper[p + 2] = l
    BY DEF Upper, Place
  <2>2. (byte \div l) % 2 \in {0, 1} /\ byte \div l = 2 * (byte \div (2 * l)) + ((byte \div l) % 2)
    <3> HIDE DEF l
    <3>1. CASE l = 128 BY <3>1
    <3>2. CASE l = 64 BY <3>2
    <3>3. CASE l = 32 BY <3>3
    <3>4. CASE l = 16 BY <3>4
    <3>5. CASE l = 8 BY <3>5
    <3>6. CASE l = 4 BY <3>6
    <3>7. CASE l = 2 BY <3>7
    <3>8. CASE l = 1 BY <3>8
    <3> QED BY <2>1, <3>1, <3>2, <3>3, <3>4, <3>5, <3>6, <3>7, <3>8, Zenon
  <2>3. p + 1 + 1 = p + 2
    OBVIOUS
  <2> QED BY <2>1, <2>2, <2>3, Zenon DEF First, BitOf
<1> QED BY <1>1, <1>2

LEMMA TransferFacts ==
  ASSUME transfer \in InitTransfers \cup {Capture}
  PROVE  /\ transfer.register \in Nat /\ transfer.register > 0
         /\ transfer.third \in Nat /\ transfer.third < 256
         /\ transfer.bytes \in Nat /\ transfer.register + transfer.bytes < 256
         /\ ~Writes => transfer.third = 237 /\ transfer.bytes >= 1
         /\ Writes => <<transfer.register, transfer.third>> \in Known
         /\ Captures <=> transfer = Capture
         /\ Captures => ~Writes
BY DEF InitTransfers, SensorSettings, Capture, Trigger, Writes, Captures, Known,
       BME280_sendI2cWriteData, BME280_sendI2cRead, BME280_verifyChipId,
       BME280_sendI2cTriggerForcedRead, BME280_REG_CTRL_HUM, BME280_REG_CTRL_MEAS,
       BME280_REG_CONFIG, BME280_R, ctrl_meas_reg, CHIP_ID_REG

LEMMA SentFacts ==
  ASSUME transfer \in InitTransfers \cup {Capture}, count \in 0 .. 2
  PROVE  /\ Sent \in Nat /\ Sent < 256
         /\ count = 0 => Sent = 236
         /\ count = 1 => Sent = transfer.register
         /\ count = 2 => Sent = transfer.third
BY TransferFacts DEF Sent, BME280_W

\* The bits at which a sensor that is k pulses ahead expects the driver's
\* acknowledgement.
LEMMA WrongBits ==
  /\ BitOf(236, 7) = 0 /\ BitOf(236, 6) = 0 /\ BitOf(236, 5) = 1
  /\ BitOf(247, 7) = 1 /\ BitOf(247, 6) = 1 /\ BitOf(247, 5) = 1
  /\ BitOf(244, 7) = 0 /\ BitOf(37, 7) = 1
BY DEF BitOf, Place

-----------------------------------------------------------------------------
(* The sensor's answer to an edge.                                         *)

LEMMA ConditionFacts ==
  ASSUME NEW s \in SensorState, NEW level
  PROVE  /\ Condition(s, level) \in SensorState
         /\ s.mode = "absent" => Condition(s, level) = s
         /\ s.mode # "absent" /\ level = 0 =>
              /\ Condition(s, level).mode = "address" /\ Condition(s, level).pulses = 0
              /\ Condition(s, level).byte = 0 /\ Condition(s, level).register = s.register
         /\ s.mode # "absent" /\ level # 0 => Condition(s, level).mode = "idle"
         /\ s.mode # "absent" => Condition(s, level).mode # "absent"
<1> DEFINE a == Begin("address", s.register)
           i == [s EXCEPT !.mode = "idle"]
<1>1. /\ a \in SensorState /\ a.mode = "address" /\ a.pulses = 0 /\ a.byte = 0
      /\ a.register = s.register
  BY DEF SensorState, Begin
<1>2. i \in SensorState /\ i.mode = "idle"
  BY DEF SensorState
<1>3. /\ s.mode = "absent" => Condition(s, level) = s
      /\ s.mode # "absent" /\ level = 0 => Condition(s, level) = a
      /\ s.mode # "absent" /\ level # 0 => Condition(s, level) = i
  BY DEF Condition
<1> HIDE DEF a, i
<1> QED BY <1>1, <1>2, <1>3

LEMMA RisenFacts ==
  ASSUME NEW s \in SensorState, NEW level \in {0, 1}
  PROVE  /\ Risen(s, level) \in SensorState
         /\ s.mode \in {"absent", "idle"} => Risen(s, level) = s
         /\ s.mode # "absent" => Risen(s, level).mode # "absent"
         /\ Risen(s, level).register = s.register
         /\ Listening(s) => Risen(s, level).mode = s.mode
         /\ Listening(s) /\ s.pulses < 8 =>
              /\ Risen(s, level).pulses = s.pulses + 1
              /\ Risen(s, level).byte = 2 * s.byte + level
         /\ Listening(s) /\ s.pulses = 8 =>
              /\ Risen(s, level).pulses = 9
              /\ Risen(s, level).byte = s.byte
         /\ s.mode = "send" /\ s.pulses < 8 =>
              /\ Risen(s, level).mode = "send"
              /\ Risen(s, level).pulses = s.pulses + 1
         /\ s.mode = "send" /\ s.pulses = 8 /\ level = 0 =>
              /\ Risen(s, level).mode = "send"
              /\ Risen(s, level).pulses = 9
         /\ s.mode = "send" /\ s.pulses = 8 /\ level = 1 => Risen(s, level).mode = "idle"
<1> USE DEF Listening
<1> DEFINE bit == [s EXCEPT !.pulses = @ + 1, !.byte = 2 * @ + level]
           ninth == [s EXCEPT !.pulses = 9]
           sent == [s EXCEPT !.pulses = @ + 1]
           idle == [s EXCEPT !.mode = "idle"]
<1>1. /\ bit \in SensorState /\ bit.mode = s.mode /\ bit.register = s.register
      /\ bit.pulses = s.pulses + 1 /\ bit.byte = 2 * s.byte + level
  <2> DEFINE half == [s EXCEPT !.byte = 2 * @ + level]
  <2>1. /\ half \in SensorState /\ half.mode = s.mode /\ half.register = s.register
        /\ half.pulses = s.pulses /\ half.byte = 2 * s.byte + level
    BY DEF SensorState
  <2>2. bit = [half EXCEPT !.pulses = @ + 1]
    BY DEF SensorState
  <2> HIDE DEF half, bit
  <2> QED BY <2>1, <2>2 DEF SensorState
<1>2. /\ ninth \in SensorState /\ ninth.mode = s.mode /\ ninth.register = s.register
      /\ ninth.pulses = 9 /\ ninth.byte = s.byte
  BY DEF SensorState
<1>3. /\ sent \in SensorState /\ sent.mode = s.mode /\ sent.register = s.register
      /\ sent.pulses = s.pulses + 1
  BY DEF SensorState
<1>4. idle \in SensorState /\ idle.mode = "idle" /\ idle.register = s.register
  BY DEF SensorState
<1>5. /\ s.mode \in {"absent", "idle"} => Risen(s, level) = s
      /\ Listening(s) /\ s.pulses < 8 => Risen(s, level) = bit
      /\ Listening(s) /\ s.pulses = 8 => Risen(s, level) = ninth
      /\ s.mode = "send" /\ s.pulses < 8 => Risen(s, level) = sent
      /\ s.mode = "send" /\ s.pulses = 8 /\ level = 0 => Risen(s, level) = ninth
      /\ s.mode = "send" /\ s.pulses = 8 /\ level = 1 => Risen(s, level) = idle
      /\ Risen(s, level) \in {s, bit, ninth, sent, idle}
      /\ Listening(s) => Risen(s, level) \in {s, bit, ninth}
  <2> HIDE DEF bit, ninth, sent, idle
  <2>1. s.pulses \in Int
    BY DEF SensorState
  <2> QED BY <2>1 DEF Risen, bit, ninth, sent, idle
<1> HIDE DEF bit, ninth, sent, idle
<1> QED BY <1>1, <1>2, <1>3, <1>4, <1>5

LEMMA FallenFacts ==
  ASSUME NEW s \in SensorState
  PROVE  /\ Fallen(s) \in SensorState
         /\ s.mode \in {"absent", "idle"} => Fallen(s) = s
         /\ s.mode # "absent" => Fallen(s).mode # "absent"
         /\ s.mode = "send" /\ s.pulses < 9 => Fallen(s) = s
         /\ s.mode = "send" /\ s.pulses = 9 =>
              /\ Fallen(s).mode = "send" /\ Fallen(s).pulses = 0
              /\ Fallen(s).register = (s.register + 1) % 256
         /\ Listening(s) /\ s.pulses < 8 => Fallen(s) = s
         /\ Listening(s) /\ s.pulses = 8 /\ (s.mode # "address" \/ s.byte \in {236, 237})
              => Fallen(s) = s
         /\ s.mode = "address" /\ s.pulses = 9 =>
              /\ Fallen(s).mode = IF s.byte = 236 THEN "register" ELSE "send"
              /\ Fallen(s).pulses = 0 /\ Fallen(s).byte = 0
              /\ Fallen(s).register = s.register
         /\ s.mode = "register" /\ s.pulses = 9 =>
              /\ Fallen(s).mode = "value" /\ Fallen(s).pulses = 0 /\ Fallen(s).byte = 0
              /\ Fallen(s).register = s.byte
         /\ s.mode = "value" /\ s.pulses = 9 =>
              /\ Fallen(s).mode = "register" /\ Fallen(s).pulses = 0 /\ Fallen(s).byte = 0
<1> USE DEF Listening
<1> DEFINE register == Begin("register", s.register)
           send == Begin("send", s.register)
           value == Begin("value", s.byte)
           more == Begin("send", (s.register + 1) % 256)
           idle == [s EXCEPT !.mode = "idle"]
<1>1. /\ s.mode \in {"absent", "idle", "address", "register", "value", "send"}
      /\ s.pulses \in Int /\ s.byte \in Int /\ s.register \in Int
      /\ (s.register + 1) % 256 \in Int
  BY DEF SensorState
<1>2. /\ register \in SensorState /\ register.mode = "register" /\ register.pulses = 0
      /\ register.byte = 0 /\ register.register = s.register
      /\ send \in SensorState /\ send.mode = "send" /\ send.pulses = 0
      /\ send.byte = 0 /\ send.register = s.register
      /\ value \in SensorState /\ value.mode = "value" /\ value.pulses = 0
      /\ value.byte = 0 /\ value.register = s.byte
  BY <1>1 DEF SensorState, Begin
<1>4. /\ more \in SensorState /\ more.mode = "send" /\ more.pulses = 0
      /\ more.register = (s.register + 1) % 256
  BY <1>1 DEF SensorState, Begin
<1>5. idle \in SensorState /\ idle.mode = "idle"
  BY DEF SensorState
<1>6. /\ s.mode = "address" /\ s.pulses = 9 /\ s.byte = 236 => Fallen(s) = register
      /\ s.mode = "address" /\ s.pulses = 9 /\ s.byte # 236 => Fallen(s) = send
      /\ s.mode = "register" /\ s.pulses = 9 => Fallen(s) = value
      /\ s.mode = "value" /\ s.pulses = 9 => Fallen(s) = register
      /\ s.mode = "send" /\ s.pulses = 9 => Fallen(s) = more
  BY DEF Fallen, NextByte, Begin
<1>7. /\ s.mode \in {"absent", "idle"} => Fallen(s) = s
      /\ s.mode = "send" /\ s.pulses < 9 => Fallen(s) = s
      /\ Listening(s) /\ s.pulses < 8 => Fallen(s) = s
      /\ Listening(s) /\ s.pulses = 8 /\ (s.mode # "address" \/ s.byte \in {236, 237})
           => Fallen(s) = s
      /\ s.pulses # 9 => Fallen(s) \in {s, idle}
  BY DEF Fallen, Addresses, SensorState
<1> HIDE DEF register, send, value, more, idle
<1> QED BY <1>1, <1>2, <1>4, <1>5, <1>6, <1>7

LEMMA PullsFacts ==
  ASSUME NEW s
  PROVE  /\ Listening(s) /\ s.pulses = 8 => Pulls(s) = {0}
         /\ Listening(s) /\ s.pulses # 8 => Pulls(s) = {1}
         /\ s.mode = "send" /\ ~(s.pulses < 8) => Pulls(s) = {1}
         /\ s.mode \in {"absent", "idle"} => Pulls(s) = {1}
BY DEF Pulls, Listening

-----------------------------------------------------------------------------
(* One call on the wires.                                                  *)

LEMMA SdaMoved ==
  ASSUME sensor \in SensorState, NEW level \in {0, 1}, MoveSda(level)
  PROVE  /\ sda' = level /\ UNCHANGED <<sck, sample, pull>>
         /\ sensor' \in SensorState
         /\ sck # 1 \/ sda = level \/ pull # 1 => sensor' = sensor
         /\ sensor.mode = "absent" => sensor' = sensor
         /\ sensor.mode # "absent" /\ sck = 1 /\ sda = 1 /\ level = 0 /\ pull = 1 =>
              /\ sensor'.mode = "address" /\ sensor'.pulses = 0 /\ sensor'.byte = 0
              /\ sensor'.register = sensor.register
         /\ sensor.mode # "absent" /\ sck = 1 /\ sda = 0 /\ level = 1 /\ pull = 1 =>
              sensor'.mode = "idle"
<1>1. sda' = level /\ UNCHANGED <<sck, sample, pull>>
  BY DEF MoveSda
<1>2. \/ sensor' = sensor
      \/ sensor' = Condition(sensor, 0) \/ sensor' = Condition(sensor, 1)
  BY DEF MoveSda, Level
<1>3. /\ sck # 1 \/ sda = level \/ pull # 1 => sensor' = sensor
      /\ sck = 1 /\ sda = 1 /\ level = 0 /\ pull = 1 => sensor' = Condition(sensor, 0)
      /\ sck = 1 /\ sda = 0 /\ level = 1 /\ pull = 1 => sensor' = Condition(sensor, 1)
  BY DEF MoveSda, Level
<1> QED BY <1>1, <1>2, <1>3, ConditionFacts

LEMMA SckRisen ==
  ASSUME sck = 0, MoveSck(1)
  PROVE  /\ sck' = 1 /\ UNCHANGED <<sda, sample, pull>>
         /\ sensor' = Risen(sensor, Level(sda, pull))
         /\ Level(sda, pull) \in {0, 1}
BY DEF MoveSck, Level

LEMMA SckFallen ==
  ASSUME sck = 1, MoveSck(0)
  PROVE  /\ sck' = 0 /\ UNCHANGED <<sda, sample>>
         /\ sensor' = Fallen(sensor) /\ pull' \in Pulls(sensor')
BY DEF MoveSck

LEMMA SckKept ==
  ASSUME NEW level \in {0, 1}, sck = level, MoveSck(level)
  PROVE  UNCHANGED <<sda, sck, sample, sensor, pull>>
BY DEF MoveSck

LEMMA Looked ==
  ASSUME NEW m, ReadSda(m)
  PROVE  sample' = Level(sda, pull) /\ UNCHANGED <<sda, sck, sensor, pull>>
BY DEF ReadSda

-----------------------------------------------------------------------------
(* The calls of each function.                                             *)

LEMMA MoveIs ==
  ASSUME NEW m, Move, call[at + 1] = m
  PROVE  /\ at' = at + 1 /\ call' = call /\ at + 1 \in DOMAIN call
         /\ \A level : m = Sda(level) => MoveSda(level)
         /\ \A level : m = Sck(level) => MoveSck(level)
         /\ m.wire \notin {"sda", "sck"} => ReadSda(m)
BY DEF Move, Running, Sda, Sck

LEMMA InitMoves ==
  ASSUME call = i2c_init, at \in 0 .. 2, Move
  PROVE  /\ at \in 0 .. 1 /\ at' = at + 1 /\ call' = call
         /\ at = 0 => MoveSda(1)
         /\ at = 1 => MoveSck(1)
<1>1. at + 1 \in 1 .. 2
  BY DEF Move, Running, i2c_init
<1> QED BY <1>1, MoveIs DEF i2c_init

LEMMA StopMoves ==
  ASSUME call = i2c_stop, at \in 0 .. 2, Move
  PROVE  /\ at \in 0 .. 1 /\ at' = at + 1 /\ call' = call
         /\ at = 0 => MoveSck(1)
         /\ at = 1 => MoveSda(1)
<1>1. at + 1 \in 1 .. 2
  BY DEF Move, Running, i2c_stop
<1> QED BY <1>1, MoveIs DEF i2c_stop

LEMMA StartMoves ==
  ASSUME call = i2c_start, at \in 0 .. 4, Move
  PROVE  /\ at \in 0 .. 3 /\ at' = at + 1 /\ call' = call
         /\ at = 0 => MoveSda(1)
         /\ at = 1 => MoveSck(1)
         /\ at = 2 => MoveSda(0)
         /\ at = 3 => MoveSck(0)
<1>1. at + 1 \in 1 .. 4
  BY DEF Move, Running, i2c_start
<1> QED BY <1>1, MoveIs DEF i2c_start

LEMMA CheckMoves ==
  ASSUME call = i2c_check_ack, at \in 0 .. 6, Move
  PROVE  /\ at \in 0 .. 5 /\ at' = at + 1 /\ call' = call
         /\ at = 0 => MoveSda(1)
         /\ at = 1 => MoveSck(0)
         /\ at = 2 => MoveSck(1)
         /\ at = 3 => ReadSda(Look)
         /\ at = 4 => MoveSck(0)
         /\ at = 5 => MoveSda(0)
<1>1. at + 1 \in 1 .. 6
  BY DEF Move, Running, i2c_check_ack
<1> QED BY <1>1, MoveIs DEF i2c_check_ack, Look

LEMMA SendAckMoves ==
  ASSUME NEW a, call = i2c_send_ack(a), at \in 0 .. 6, Move
  PROVE  /\ at \in 0 .. 5 /\ at' = at + 1 /\ call' = call
         /\ at = 0 => MoveSck(0)
         /\ at = 1 => MoveSda(1 - a)
         /\ at = 2 => MoveSck(0)
         /\ at = 3 => MoveSck(1)
         /\ at = 4 => MoveSck(0)
         /\ at = 5 => MoveSda(1)
<1>1. at + 1 \in 1 .. 6
  BY DEF Move, Running, i2c_send_ack
<1> QED BY <1>1, MoveIs DEF i2c_send_ack

LEMMA WriteMoves ==
  ASSUME NEW byte, call = i2c_writeByte(byte), at \in 0 .. 24, Move
  PROVE  /\ at \in 0 .. 23 /\ at' = at + 1 /\ call' = call
         /\ at % 3 = 0 => MoveSda(BitOf(byte, at \div 3))
         /\ at % 3 = 1 => MoveSck(1)
         /\ at % 3 = 2 => MoveSck(0)
<1>1. at + 1 \in 1 .. 24
  BY DEF Move, Running, i2c_writeByte
<1>2. /\ at % 3 = 0 => call[at + 1] = Sda(BitOf(byte, (at + 1) \div 3))
      /\ at % 3 = 1 => call[at + 1] = Sck(1)
      /\ at % 3 = 2 => call[at + 1] = Sck(0)
  BY <1>1 DEF i2c_writeByte
<1>3. at % 3 = 0 => (at + 1) \div 3 = at \div 3
  OBVIOUS
<1> QED BY <1>1, <1>2, <1>3, MoveIs

LEMMA ReadMoves ==
  ASSUME NEW kept, call = i2c_readByte(kept), at \in 0 .. 26, Move
  PROVE  /\ at \in 0 .. 25 /\ at' = at + 1 /\ call' = call
         /\ at = 0 => MoveSda(1)
         /\ at % 3 = 1 => MoveSck(0)
         /\ at % 3 = 2 => MoveSck(1)
         /\ at > 0 /\ at % 3 = 0 => \E m : ReadSda(m)
<1>1. at + 1 \in 1 .. 26
  BY DEF Move, Running, i2c_readByte
<1>2. /\ at = 0 => call[at + 1] = Sda(1)
      /\ at % 3 = 1 => call[at + 1] = Sck(0)
      /\ at % 3 = 2 => call[at + 1] = Sck(1)
      /\ at > 0 /\ at % 3 = 0 => call[at + 1] = LookFor(((at + 1) \div 3) - 1, kept)
  BY <1>1 DEF i2c_readByte
<1>3. \A i : LookFor(i, kept).wire = "bit"
  BY DEF LookFor
<1>4. CASE at > 0 /\ at % 3 = 0
  <2>1. call[at + 1].wire \notin {"sda", "sck"}
    BY <1>2, <1>3, <1>4
  <2> QED BY <1>1, <1>2, <1>4, <2>1, MoveIs
<1> QED BY <1>1, <1>2, <1>4, MoveIs


-----------------------------------------------------------------------------
(* A move leaves the program where it is.                                  *)

LEMMA MoveKeeps ==
  ASSUME sensor \in SensorState, Move
  PROVE  /\ sensor' \in SensorState
         /\ sensor.mode = "absent" /\ pull = 1 => sensor' = sensor /\ pull' = 1
         /\ sensor.mode # "absent" => sensor'.mode # "absent"
<1>1. PICK m : m = call[at + 1]
  OBVIOUS
<1>2. CASE m.wire = "sda"
  <2>1. MoveSda(m.to)
    BY <1>1, <1>2 DEF Move
  <2>2. pull' = pull /\ (sensor' = sensor \/ \E level : sensor' = Condition(sensor, level))
    BY <2>1 DEF MoveSda
  <2> QED BY <2>2, ConditionFacts
<1>3. CASE m.wire = "sck"
  <2>1. MoveSck(m.to)
    BY <1>1, <1>3 DEF Move
  <2>2. \/ sensor' = sensor /\ pull' = pull
        \/ sensor' = Risen(sensor, Level(sda, pull)) /\ pull' = pull
        \/ sensor' = Fallen(sensor) /\ pull' \in Pulls(sensor')
    BY <2>1 DEF MoveSck
  <2>3. Level(sda, pull) \in {0, 1}
    BY DEF Level
  <2> QED BY <2>2, <2>3, RisenFacts, FallenFacts, PullsFacts
<1>4. CASE m.wire \notin {"sda", "sck"}
  <2>1. ReadSda(m)
    BY <1>1, <1>4 DEF Move
  <2> QED BY <2>1 DEF ReadSda
<1> QED BY <1>2, <1>3, <1>4

LEMMA Unmoved ==
  ASSUME Moves
  PROVE  /\ Move /\ UNCHANGED <<stage, transfer, count, got, transfers, forced>>
         /\ Sent' = Sent /\ Mode' = Mode
         /\ (Writes' <=> Writes) /\ (Captures' <=> Captures)
         /\ \A k : Missed(k)' <=> Missed(k)
         /\ ~(sensor.mode = "value" /\ sensor'.mode = "register") => written' = written
<1>1. /\ Move /\ UNCHANGED <<stage, transfer, count, got, transfers, forced>>
      /\ ~(sensor.mode = "value" /\ sensor'.mode = "register") => written' = written
  BY DEF Moves
<1>2. (Writes' <=> Writes) /\ (Captures' <=> Captures)
  BY <1>1 DEF Writes, Captures
<1>3. Sent' = Sent /\ Mode' = Mode
  BY <1>1, <1>2 DEF Sent, Mode
<1>4. \A k : Missed(k)' <=> Missed(k)
  BY <1>1 DEF Missed
<1> QED BY <1>1, <1>2, <1>3, <1>4

LEMMA DeafStops ==
  ASSUME sensor \in SensorState, Stopping, Deaf, Move
  PROVE  (Stopping /\ Deaf)'
<1>1. /\ at \in 0 .. 1 /\ at' = at + 1 /\ call' = call
      /\ at = 0 => MoveSck(1)
      /\ at = 1 => MoveSda(1)
  BY StopMoves DEF Stopping
<1>2. CASE at = 0
  BY <1>1, <1>2, SckRisen, RisenFacts DEF Stopping, Deaf
<1>3. CASE at = 1
  BY <1>1, <1>3, SdaMoved DEF Stopping, Deaf
<1> QED BY <1>1, <1>2, <1>3

LEMMA RestMoves ==
  ASSUME sensor \in SensorState, RestInv, Moves
  PROVE  RestInv' /\ written' = written
<1> USE Unmoved
<1>1. CASE Stopping /\ Deaf
  <2>1. (Stopping /\ Deaf)'
    BY <1>1, DeafStops
  <2>2. written' = written
    BY <1>1 DEF Deaf
  <2> QED BY <2>1, <2>2 DEF RestInv
<1>2. CASE Stopping /\ Late
  <2>1. PICK k \in 1 .. 3 : Missed(k) /\ Sends(k - 1 + sck)
    BY <1>2 DEF Late
  <2>2. /\ at \in 0 .. 1 /\ at' = at + 1 /\ call' = call
        /\ at = 0 => MoveSck(1)
        /\ at = 1 => MoveSda(1)
    BY <1>2, StopMoves DEF Stopping
  <2>3. written' = written
    BY <2>1 DEF Sends
  <2>4. CASE at = 0
    <3>1. /\ Stopping' /\ sck = 0 /\ sck' = 1
          /\ sensor' = Risen(sensor, Level(sda, pull)) /\ Level(sda, pull) \in {0, 1}
      BY <1>2, <2>2, <2>4, SckRisen DEF Stopping
    <3>2. (Sends(k))'
      BY <2>1, <3>1, RisenFacts DEF Sends
    <3> QED BY <2>1, <2>3, <3>1, <3>2 DEF RestInv, Late
  <2>5. CASE at = 1
    <3>1. /\ Stopping' /\ sck = 1 /\ sck' = 1 /\ pull' = pull /\ sensor.mode # "absent"
          /\ sensor' = sensor \/ (pull = 1 /\ sensor'.mode = "idle")
      BY <1>2, <2>1, <2>2, <2>5, SdaMoved DEF Stopping, Sends
    <3> QED BY <2>1, <2>3, <3>1 DEF RestInv, Late, Sends, Deaf
  <2> QED BY <2>2, <2>4, <2>5
<1>3. CASE Stopping /\ at < 2 /\ sda = 0 /\ pull = 1 /\ Hears("register", at)
  <2>2. /\ at \in 0 .. 1 /\ at' = at + 1 /\ call' = call
        /\ at = 0 => MoveSck(1)
        /\ at = 1 => MoveSda(1)
    BY <1>3, StopMoves DEF Stopping
  <2>3. written' = written
    BY <1>3 DEF Hears
  <2>4. CASE at = 0
    <3>1. /\ Stopping' /\ at' = 1 /\ sda' = 0 /\ pull' = 1
          /\ sensor' = Risen(sensor, Level(sda, pull)) /\ Level(sda, pull) \in {0, 1}
      BY <1>3, <2>2, <2>4, SckRisen DEF Stopping
    <3>2. (Hears("register", 1))'
      BY <1>3, <2>4, <3>1, RisenFacts DEF Hears, Listening
    <3> QED BY <2>3, <3>1, <3>2 DEF RestInv
  <2>5. CASE at = 1
    BY <1>3, <2>2, <2>3, <2>5, SdaMoved DEF RestInv, Stopping, Hears, Deaf
  <2> QED BY <2>2, <2>4, <2>5
<1>4. CASE Checked
  BY <1>4, CheckMoves DEF Checked
<1> QED BY <1>1, <1>2, <1>3, <1>4 DEF RestInv

LEMMA StartStageMoves ==
  ASSUME sensor \in SensorState, StartInv, Moves
  PROVE  StartInv'
<1> USE Unmoved
<1>1. CASE call = i2c_init /\ at \in 0 .. 2 /\ sda = 1 /\ sck = 1 /\ Deaf
  <2>1. /\ at' = at + 1 /\ at' \in 0 .. 2 /\ call' = call /\ sda' = 1 /\ sck' = 1
        /\ sensor' = sensor /\ pull' = pull
    BY <1>1, InitMoves, SdaMoved, SckKept DEF Deaf
  <2>2. Deaf' /\ written' = written
    BY <1>1, <2>1 DEF Deaf
  <2> QED BY <1>1, <2>1, <2>2 DEF StartInv, Stopping, Checked, i2c_init
<1>2. CASE Stopping /\ at = 2
  BY <1>2, StopMoves DEF Stopping
<1>3. CASE Checked
  BY <1>3, CheckMoves DEF Checked
<1> QED BY <1>1, <1>2, <1>3 DEF StartInv

LEMMA VerifyMoves ==
  ASSUME sensor \in SensorState, VerifyInv, Moves
  PROVE  VerifyInv' /\ written' = written
<1>1. (Stopping /\ Deaf)'
  BY Unmoved, DeafStops DEF VerifyInv
<1>2. written' = written
  BY Unmoved DEF VerifyInv, Deaf
<1> QED BY <1>1, <1>2, Unmoved DEF VerifyInv

LEMMA PutMoves ==
  ASSUME sensor \in SensorState, PutInv, Moves
  PROVE  PutInv'
<1> USE Unmoved
<1>1. CASE Starting
  <2>1. /\ at \in 0 .. 3 /\ at' = at + 1 /\ call' = call
        /\ at = 0 => MoveSda(1)
        /\ at = 1 => MoveSck(1)
        /\ at = 2 => MoveSda(0)
        /\ at = 3 => MoveSck(0)
    BY <1>1, StartMoves DEF Starting
  <2>2. CASE at = 0
    <3>1. Starting' /\ sck' = sck /\ pull' = pull /\ sensor' = sensor /\ at' = 1
      BY <1>1, <2>1, <2>2, SdaMoved DEF Starting
    <3>2. written' = written /\ (Deaf' <=> Deaf) /\ (Late' <=> Late) /\ (Told' <=> Told)
          /\ (Hears("value", 0)' <=> Hears("value", 0))
      <4>1. \A p : Sends(p)' <=> Sends(p)
        BY <3>1 DEF Sends
      <4>2. \A k \in 1 .. 3 :
              (Missed(k) /\ Sends(k - 1 + sck))' <=> (Missed(k) /\ Sends(k - 1 + sck))
        BY <3>1, <4>1
      <4>3. Late' <=> Late
        BY <4>2 DEF Late
      <4>4. sensor.mode = "value" => sensor'.mode = "value"
        BY <3>1
      <4> QED BY <3>1, <4>3, <4>4 DEF Deaf, Told, Hears
    <3> QED BY <2>2, <3>1, <3>2 DEF PutInv, Checked, Starting
  <2>3. CASE at = 1
    <3>1. /\ Starting' /\ at' = 2 /\ sck' = 1 /\ pull' = pull
          /\ sck = 1 => sensor' = sensor
          /\ sck = 0 => sensor' = Risen(sensor, Level(sda, pull)) /\ Level(sda, pull) \in {0, 1}
          /\ sck \in {0, 1}
      BY <1>1, <2>1, <2>3, SckRisen, SckKept DEF Starting
    <3>2. CASE Deaf
      BY <1>1, <2>3, <3>1, <3>2, RisenFacts DEF PutInv, Deaf, Hears, Checked, Starting, Sends
    <3>3. CASE Late /\ count = 0
      <4>1. PICK k \in 1 .. 3 : Missed(k) /\ Sends(k - 1 + sck)
        BY <3>3 DEF Late
      <4>2. Sends(k)'
        BY <3>1, <4>1, RisenFacts DEF Sends
      <4>3. Late'
        BY <3>1, <4>1, <4>2 DEF Late
      <4>4. written' = written
        BY <4>1 DEF Sends
      <4> QED BY <3>1, <3>3, <4>3, <4>4 DEF PutInv
    <3>4. CASE count = 2 /\ ~Writes /\ pull = 1 /\ Told /\ sck = 0 /\ Hears("value", 0)
      <4>1. Hears("value", 1)' /\ sensor'.register = sensor.register
        BY <3>1, <3>4, RisenFacts DEF Hears, Listening
      <4>2. written' = written
        BY <4>1 DEF Hears
      <4> QED BY <3>1, <3>4, <4>1, <4>2 DEF PutInv, Told
    <3> QED BY <1>1, <2>3, <3>2, <3>3, <3>4 DEF PutInv, Checked, Starting
  <2>4. CASE at = 2
    <3>1. /\ Starting' /\ at' = 3 /\ sck = 1 /\ sck' = 1 /\ pull' = pull /\ sda = 1 /\ MoveSda(0)
      BY <1>1, <2>1, <2>4, SdaMoved DEF Starting
    <3>2. CASE pull = 1 /\ sensor.mode # "absent"
      <4>1. Hears("address", 0)' /\ sensor'.byte = 0 /\ sensor'.register = sensor.register
        BY <3>1, <3>2, SdaMoved DEF Hears
      <4>2. written' = written
        BY <4>1 DEF Hears
      <4>3. Told' <=> Told
        BY <4>1 DEF Told
      <4>4. (count = 0 \/ (count = 2 /\ ~Writes /\ Told)) /\ written = {} /\ got = 0
        BY <2>4, <1>1 DEF PutInv, Checked, Starting
      <4> QED BY <3>1, <3>2, <4>1, <4>2, <4>3, <4>4 DEF PutInv, Told
    <3>3. CASE pull # 1
      <4>1. Late /\ count = 0 /\ written = {} /\ got = 0
        BY <2>4, <3>3, <1>1 DEF PutInv, Checked, Starting, Deaf
      <4>2. PICK k \in 1 .. 3 : Missed(k) /\ Sends(k - 1 + sck)
        BY <4>1 DEF Late
      <4>3. sensor' = sensor
        BY <3>1, <3>3, SdaMoved
      <4>4. Late' /\ written' = written
        BY <3>1, <4>2, <4>3 DEF Late, Sends
      <4> QED BY <3>1, <3>3, <4>1, <4>4 DEF PutInv
    <3>4. sensor.mode # "absent"
      BY <1>1, <2>4 DEF PutInv, Checked, Starting, Deaf, Late, Sends, Hears
    <3> QED BY <3>2, <3>3, <3>4
  <2>5. CASE at = 3
    <3>1. /\ Starting' /\ at' = 4 /\ sck = 1 /\ sck' = 0
          /\ sensor' = Fallen(sensor) /\ pull' \in Pulls(sensor')
      BY <1>1, <2>1, <2>5, SckFallen DEF Starting
    <3>2. CASE pull = 1
      <4>1. /\ count \in {0, 2} /\ (count = 2 => ~Writes) /\ written = {} /\ got = 0
            /\ Hears("address", 0) /\ sensor.byte = 0 /\ Told
        BY <1>1, <2>5, <3>2 DEF PutInv, Checked, Starting
      <4>2. sensor' = sensor
        BY <3>1, <4>1, FallenFacts DEF Hears, Listening
      <4>3. pull' = 1
        BY <3>1, <4>1, <4>2, PullsFacts DEF Hears, Listening
      <4>4. Hears("address", 0)' /\ sensor'.byte = 0 /\ Told' /\ written' = written
        BY <4>1, <4>2 DEF Hears, Told
      <4> QED BY <3>1, <4>1, <4>3, <4>4 DEF PutInv
    <3>3. CASE pull # 1
      <4>1. /\ count = 0 /\ written = {} /\ got = 0 /\ Late
        BY <1>1, <2>5, <3>3 DEF PutInv, Checked, Starting
      <4>2. PICK k \in 1 .. 3 : Missed(k) /\ Sends(k - 1 + sck)
        BY <4>1 DEF Late
      <4>3. Sends(k)
        BY <3>1, <4>2 DEF Sends
      <4>4. sensor' = sensor
        BY <3>1, <4>3, FallenFacts DEF Sends
      <4>5. Missed(k)' /\ Sends(k)' /\ written' = written
        BY <4>2, <4>3, <4>4 DEF Sends
      <4> QED BY <3>1, <4>1, <4>5 DEF PutInv
    <3> QED BY <3>2, <3>3
  <2> QED BY <2>1, <2>2, <2>3, <2>4, <2>5
<1>2. CASE Checked
  BY <1>2, CheckMoves DEF Checked
<1> QED BY <1>1, <1>2 DEF PutInv

LEMMA PuttingMoves ==
  ASSUME Putting, Moves
  PROVE  /\ Putting' /\ at \in 0 .. 23 /\ at' = at + 1
         /\ at % 3 = 0 => /\ MoveSda(BitOf(Sent, at \div 3)) /\ Risings' = Risings
                          /\ sck = 0 /\ sck' = sck /\ at' < 24
         /\ at % 3 = 1 => /\ MoveSck(1) /\ Risings \in 0 .. 7 /\ Risings' = Risings + 1
                          /\ sck = 0 /\ sck' = 1 /\ sda = BitOf(Sent, Risings) /\ at' < 24
         /\ at % 3 = 2 => /\ MoveSck(0) /\ Risings \in 1 .. 8 /\ Risings' = Risings
                          /\ sck = 1 /\ sck' = 0 /\ (at' < 24 <=> Risings < 8)
<1>1. /\ at \in 0 .. 23 /\ at' = at + 1 /\ call' = call
      /\ at % 3 = 0 => MoveSda(BitOf(Sent, at \div 3))
      /\ at % 3 = 1 => MoveSck(1)
      /\ at % 3 = 2 => MoveSck(0)
      /\ Sent' = Sent
  BY Unmoved, WriteMoves DEF Putting
<1>2. PICK j \in 0 .. 7 : at \in {3 * j, 3 * j + 1, 3 * j + 2}
  <2>1. at \div 3 \in 0 .. 7 /\ at \in {3 * (at \div 3), 3 * (at \div 3) + 1, 3 * (at \div 3) + 2}
    BY <1>1
  <2> QED BY <2>1
<1>3. CASE at = 3 * j
  <2>1. /\ at % 3 = 0 /\ at \div 3 = j /\ at' % 3 = 1 /\ at' \div 3 = j
        /\ Risings = j /\ Risings' = j /\ at' \in 0 .. 23
    BY <1>1, <1>3 DEF Risings
  <2>2. MoveSda(BitOf(Sent, j)) /\ sck = 0
    BY <1>1, <2>1 DEF Putting
  <2>3. sda' = BitOf(Sent, j) /\ sck' = sck
    BY <2>2 DEF MoveSda
  <2> QED BY <1>1, <2>1, <2>2, <2>3 DEF Putting
<1>4. CASE at = 3 * j + 1
  <2>1. /\ at % 3 = 1 /\ at \div 3 = j /\ at' % 3 = 2 /\ at' \div 3 = j
        /\ Risings = j /\ Risings' = j + 1 /\ at' \in 0 .. 23
    BY <1>1, <1>4 DEF Risings
  <2>2. MoveSck(1) /\ sck = 0 /\ sda = BitOf(Sent, j)
    BY <1>1, <2>1 DEF Putting
  <2>3. sck' = 1 /\ sda' = sda
    BY <2>2 DEF MoveSck
  <2> QED BY <1>1, <2>1, <2>2, <2>3 DEF Putting
<1>5. CASE at = 3 * j + 2
  <2>1. /\ at % 3 = 2 /\ at \div 3 = j /\ at' % 3 = 0
        /\ Risings = j + 1 /\ Risings' = j + 1 /\ at' \in 0 .. 24 /\ (at' < 24 <=> j + 1 < 8)
    BY <1>1, <1>5 DEF Risings
  <2>2. MoveSck(0) /\ sck = 1
    BY <1>1, <2>1 DEF Putting
  <2>3. sck' = 0
    BY <2>2 DEF MoveSck
  <2> QED BY <1>1, <2>1, <2>2, <2>3 DEF Putting
<1> QED BY <1>2, <1>3, <1>4, <1>5

LEMMA CheckStageMoves ==
  ASSUME sensor \in SensorState, transfer \in InitTransfers \cup {Capture}, stage = "check",
         CheckInv, Moves
  PROVE  CheckInv'
<1> DEFINE R == Risings
           InStep == /\ Hears(Mode, R) /\ sensor.byte = First(Sent, R) /\ Told
                     /\ (at < 24 => pull = 1) /\ (at = 24 => pull = 0)
           NoOne == Deaf /\ (Writes \/ (Captures /\ count < 2))
           Again(k) == k < 3 /\ (count = 0 \/ (count = 1 /\ k = 1 /\ Writes))
           Before(k) == Sends(k + R) /\ k + R < 9 /\ (k + R = 8 /\ sck = 0 => pull = 1)
           Ninth(k) == Sends(9) /\ k + R = 9 /\ sck = 1 /\ Again(k)
           After(k) == Sends(k + R - 9) /\ k + R >= 9 /\ (k + R = 9 => sck = 0) /\ Again(k)
           Ahead(k) == /\ Missed(k) /\ (count = 1 => k < 3) /\ (count = 2 => k = 1 /\ Writes)
                       /\ Before(k) \/ Ninth(k) \/ After(k)
<1>1. /\ got = 0 /\ written = {} /\ count \in 0 .. 2 /\ Putting
      /\ InStep \/ NoOne \/ \E k \in 1 .. 3 : Ahead(k)
  BY Zenon DEF CheckInv
<1>2. SUFFICES written' = written /\ (InStep' \/ NoOne' \/ \E k \in 1 .. 3 : Ahead(k)')
  BY <1>1, Unmoved, PuttingMoves, Zenon DEF CheckInv
<1>3. /\ Sent' = Sent /\ Mode' = Mode /\ (Writes' <=> Writes) /\ (Captures' <=> Captures)
      /\ transfer' = transfer /\ count' = count
      /\ ~(sensor.mode = "value" /\ sensor'.mode = "register") => written' = written
      /\ \A k : Missed(k)' <=> Missed(k)
      /\ Sent \in Nat /\ Sent < 256
  BY <1>1, Unmoved, SentFacts
<1>4. /\ at \in 0 .. 23 /\ at' = at + 1
      /\ R \in 0 .. 8 /\ at % 3 \in {0, 1, 2}
  BY <1>1, PuttingMoves DEF Putting, Risings
<1>5. CASE InStep
  <2>1. /\ Mode \in {"address", "register", "value"} /\ sensor.mode = Mode /\ sensor.pulses = R
        /\ Listening(sensor) /\ pull = 1
    BY <1>4, <1>5 DEF Mode, Hears, Listening
  <2>2. SUFFICES /\ sensor'.mode = Mode /\ sensor'.pulses = R' /\ sensor'.byte = First(Sent, R')
                 /\ sensor'.register = sensor.register
                 /\ (at' < 24 => pull' = 1) /\ (at' = 24 => pull' = 0)
    <3>1. written' = written
      BY <1>3, <2>1, <2>2
    <3>2. Hears(Mode, R)' /\ Told'
      BY <1>3, <1>5, <2>2 DEF Hears, Told
    <3> QED BY <1>3, <2>2, <3>1, <3>2
  <2>3. CASE at % 3 = 0
    <3>1. sensor' = sensor /\ pull' = pull /\ R' = R /\ at' < 24
      BY <1>1, <2>3, PuttingMoves DEF MoveSda
    <3> QED BY <1>5, <2>1, <3>1
  <2>4. CASE at % 3 = 1
    <3>1. /\ R \in 0 .. 7 /\ R' = R + 1 /\ sda = BitOf(Sent, R) /\ at' < 24
          /\ sck = 0 /\ MoveSck(1)
      BY <1>1, <2>4, PuttingMoves
    <3>2. /\ BitOf(Sent, R) \in {0, 1}
          /\ First(Sent, R + 1) = 2 * First(Sent, R) + BitOf(Sent, R)
      BY <1>3, <3>1, FirstBits
    <3>3. sensor' = Risen(sensor, BitOf(Sent, R)) /\ pull' = 1
      BY <2>1, <3>1, <3>2, SckRisen DEF Level
    <3> QED BY <1>5, <2>1, <3>1, <3>2, <3>3, RisenFacts
  <2>5. CASE at % 3 = 2
    <3>1. R' = R /\ sck = 1 /\ MoveSck(0) /\ (at' < 24 <=> R < 8)
      BY <1>1, <2>5, PuttingMoves
    <3>2. sensor' = Fallen(sensor) /\ pull' \in Pulls(sensor')
      BY <3>1, SckFallen
    <3>3. Fallen(sensor) = sensor
      <4>1. R = 8 => sensor.byte = Sent
        BY <1>3, <1>5, FirstBits
      <4>2. Mode = "address" => Sent \in {236, 237}
        BY <1>1, SentFacts, TransferFacts DEF Mode
      <4> QED BY <1>4, <2>1, <4>1, <4>2, FallenFacts
    <3>4. (R < 8 => pull' = 1) /\ (R = 8 => pull' = 0)
      BY <1>4, <2>1, <3>2, <3>3, PullsFacts
    <3> QED BY <1>4, <1>5, <2>1, <3>1, <3>2, <3>3, <3>4
  <2> QED BY <1>4, <2>3, <2>4, <2>5
<1>6. CASE NoOne
  <2>1. sensor' = sensor /\ pull' = 1
    <3>1. CASE at % 3 = 0
      BY <1>1, <1>6, <3>1, PuttingMoves DEF MoveSda, Deaf
    <3>2. CASE at % 3 = 1
      BY <1>1, <1>6, <3>2, PuttingMoves, SckRisen, RisenFacts DEF Deaf
    <3>3. CASE at % 3 = 2
      BY <1>1, <1>6, <3>3, PuttingMoves, SckFallen, FallenFacts, PullsFacts DEF Deaf
    <3> QED BY <1>4, <3>1, <3>2, <3>3
  <2> QED BY <1>3, <1>6, <2>1 DEF Deaf
<1>7. ASSUME NEW k \in 1 .. 3, Ahead(k)
      PROVE  written' = written /\ (NoOne' \/ Ahead(k)')
  <2>1. sensor.mode = "send" /\ written' = written
    BY <1>3, <1>7 DEF Sends
  <2>2. CASE at % 3 = 0
    <3>1. sensor' = sensor /\ pull' = pull /\ R' = R /\ sck' = sck
      BY <1>1, <2>2, PuttingMoves DEF MoveSda
    <3>2. \A p : Sends(p)' <=> Sends(p)
      BY <3>1 DEF Sends
    <3>3. Ahead(k)'
      BY <1>3, <1>7, <3>1, <3>2
    <3> QED BY <2>1, <3>3
  <2>3. CASE at % 3 = 1
    <3>1. /\ R \in 0 .. 7 /\ R' = R + 1 /\ sda = BitOf(Sent, R)
          /\ sck = 0 /\ sck' = 1 /\ MoveSck(1)
      BY <1>1, <2>3, PuttingMoves
    <3>2. /\ sensor' = Risen(sensor, Level(sda, pull)) /\ pull' = pull
          /\ Level(sda, pull) \in {0, 1}
      BY <3>1, SckRisen
    <3>3. CASE Before(k) /\ k + R < 8
      <4>1. Sends(k + R)' 
        BY <1>4, <2>1, <3>1, <3>2, <3>3, RisenFacts DEF Sends
      <4>2. Before(k)'
        BY <3>1, <3>3, <4>1
      <4> QED BY <1>3, <1>7, <2>1, <4>2
    <3>4. CASE Before(k) /\ k + R = 8
      <4>1. pull = 1 /\ R = 8 - k /\ sensor.pulses = 8 /\ BitOf(Sent, R) \in {0, 1}
        BY <1>3, <1>4, <3>1, <3>4, FirstBits DEF Sends
      <4>2. Level(sda, pull) = BitOf(Sent, R)
        BY <3>1, <4>1 DEF Level
      <4>3. CASE BitOf(Sent, R) = 0
        <5>1. Sends(9)'
          BY <2>1, <3>2, <4>1, <4>2, <4>3, RisenFacts DEF Sends
        <5>2. Again(k)
          BY <1>1, <1>7, <4>1, <4>3, WrongBits, SentFacts
             DEF Missed, Capture, Trigger, Writes, BME280_sendI2cRead,
                 BME280_sendI2cTriggerForcedRead, BME280_sendI2cWriteData,
                 BME280_REG_CTRL_MEAS, ctrl_meas_reg
        <5>3. Ninth(k)'
          BY <1>3, <3>1, <4>1, <5>1, <5>2
        <5> QED BY <1>3, <1>7, <2>1, <5>3
      <4>4. CASE BitOf(Sent, R) = 1
        <5>1. Deaf'
          BY <2>1, <3>2, <4>1, <4>2, <4>4, RisenFacts DEF Deaf
        <5>2. Writes \/ Captures
          BY <1>7 DEF Missed, Capture, Trigger, Writes, Captures, BME280_sendI2cRead,
                      BME280_sendI2cTriggerForcedRead, BME280_sendI2cWriteData
        <5>3. NoOne'
          BY <1>1, <1>3, <1>7, <5>1, <5>2
        <5> QED BY <2>1, <5>3
      <4> QED BY <4>1, <4>3, <4>4
    <3>5. CASE After(k)
      <4>1. sensor.pulses = k + R - 9 /\ k + R - 9 < 8
        BY <1>4, <3>5, <3>1 DEF Sends
      <4>2. sensor'.mode = "send" /\ sensor'.pulses = k + R - 9 + 1
        BY <2>1, <3>2, <4>1, RisenFacts
      <4>3. Sends(k + R - 9)'
        BY <1>4, <3>1, <4>2 DEF Sends
      <4>4. After(k)'
        BY <1>3, <1>4, <3>1, <3>5, <4>3
      <4> QED BY <1>3, <1>7, <2>1, <4>4
    <3> QED BY <1>4, <1>7, <3>1, <3>3, <3>4, <3>5
  <2>4. CASE at % 3 = 2
    <3>1. R \in 1 .. 8 /\ R' = R /\ sck = 1 /\ sck' = 0 /\ MoveSck(0)
      BY <1>1, <2>4, PuttingMoves
    <3>2. sensor' = Fallen(sensor) /\ pull' \in Pulls(sensor')
      BY <3>1, SckFallen
    <3>3. CASE Before(k)
      <4>1. sensor.pulses = k + R /\ sensor.pulses < 9
        BY <3>3 DEF Sends
      <4>2. sensor' = sensor
        BY <2>1, <3>2, <4>1, FallenFacts
      <4>3. k + R = 8 => pull' = 1
        BY <2>1, <3>2, <4>1, <4>2, PullsFacts
      <4>4. Sends(k + R)'
        BY <2>1, <3>1, <4>1, <4>2 DEF Sends
      <4>5. Before(k)'
        BY <3>1, <3>3, <4>3, <4>4
      <4> QED BY <1>3, <1>7, <2>1, <4>5
    <3>4. CASE Ninth(k)
      <4>1. Sends(0)'
        BY <2>1, <3>2, <3>4, FallenFacts DEF Sends
      <4>2. Sends(k + R - 9)'
        BY <3>1, <3>4, <4>1
      <4>3. After(k)'
        BY <1>3, <3>1, <3>4, <4>2
      <4> QED BY <1>3, <1>7, <2>1, <4>3
    <3>5. CASE After(k)
      <4>1. sensor.pulses = k + R - 9 /\ sensor.pulses < 9
        BY <3>5, <3>1 DEF Sends
      <4>2. sensor' = sensor
        BY <2>1, <3>2, <4>1, FallenFacts
      <4>3. Sends(k + R - 9)'
        BY <2>1, <3>1, <4>1, <4>2 DEF Sends
      <4>4. After(k)'
        BY <1>3, <3>1, <3>5, <4>3
      <4> QED BY <1>3, <1>7, <2>1, <4>4
    <3> QED BY <1>7, <3>3, <3>4, <3>5
  <2> QED BY <1>4, <2>2, <2>3, <2>4
<1> QED BY <1>1, <1>5, <1>6, <1>7

LEMMA CheckingMoves ==
  ASSUME Checking, Move
  PROVE  /\ Checking' /\ at \in 0 .. 5 /\ at' = at + 1
         /\ at \in {0, 5} => /\ sck = 0 /\ sck' = 0
                             /\ UNCHANGED <<sample, sensor, pull>>
         /\ at = 1 => UNCHANGED <<sample, sensor, pull>>
         /\ at = 2 => /\ sck = 0 /\ sda = 1 /\ UNCHANGED <<sample, pull>>
                      /\ sensor' = Risen(sensor, Level(sda, pull))
                      /\ Level(sda, pull) \in {0, 1}
         /\ at = 3 => sample' = Level(1, pull) /\ UNCHANGED <<sensor, pull>>
         /\ at = 4 => /\ sample' = sample
                      /\ sensor' = Fallen(sensor) /\ pull' \in Pulls(sensor')
<1>1. /\ at \in 0 .. 5 /\ at' = at + 1 /\ call' = call /\ call = i2c_check_ack
      /\ at = 0 => MoveSda(1)
      /\ at = 1 => MoveSck(0)
      /\ at = 2 => MoveSck(1)
      /\ at = 3 => ReadSda(Look)
      /\ at = 4 => MoveSck(0)
      /\ at = 5 => MoveSda(0)
  BY CheckMoves DEF Checking
<1>2. CASE at = 0
  BY <1>1, <1>2 DEF Checking, MoveSda
<1>3. CASE at = 1
  BY <1>1, <1>3, SckKept DEF Checking
<1>4. CASE at = 2
  BY <1>1, <1>4, SckRisen DEF Checking
<1>5. CASE at = 3
  BY <1>1, <1>5, Looked DEF Checking
<1>6. CASE at = 4
  BY <1>1, <1>6, SckFallen DEF Checking
<1>7. CASE at = 5
  BY <1>1, <1>7 DEF Checking, MoveSda
<1> QED BY <1>1, <1>2, <1>3, <1>4, <1>5, <1>6, <1>7

LEMMA AckedMoves ==
  ASSUME sensor \in SensorState, transfer \in InitTransfers \cup {Capture}, AckedInv, Moves
  PROVE  AckedInv'
<1> DEFINE Heard == /\ at < 5 /\ written = {} /\ pull = 0 /\ Told /\ sensor.byte = Sent
                    /\ at < 3 => Hears(Mode, 8)
                    /\ at >= 3 => Hears(Mode, 9)
                    /\ at = 4 => sample = 0
           Went == /\ at >= 5 /\ sample = 0
                   /\ count = 0 => Hears("register", 0) /\ sensor.byte = 0 /\ pull = 1
                   /\ count = 1 => /\ Hears("value", 0) /\ sensor.byte = 0
                                   /\ sensor.register = transfer.register /\ pull = 1
                   /\ count = 2 /\ Writes => Hears("register", 0) /\ pull = 1
                   /\ count = 2 /\ ~Writes => Sends(0) /\ sensor.register = transfer.register
                   /\ count < 2 \/ ~Writes => written = {}
                   /\ count = 2 /\ Writes => Taken
           NoOne == /\ Deaf /\ (at >= 4 => sample = 1) /\ written = {}
                    /\ Writes \/ (Captures /\ count < 2)
           Ahead(k) == Missed(k) /\ (count = 1 => k = 1) /\ Sends(IF at < 3 THEN k - 1 ELSE k)
           AnyAhead == /\ written = {} /\ (count = 0 \/ (count = 1 /\ Writes))
                       /\ \E k \in 1 .. 2 : Ahead(k)
<1>1. /\ got = 0 /\ count \in 0 .. 2 /\ Checking
      /\ Heard \/ Went \/ NoOne \/ AnyAhead
  BY Zenon DEF AckedInv
<1>2. /\ Checking' /\ at \in 0 .. 5 /\ at' = at + 1
      /\ Sent' = Sent /\ Mode' = Mode /\ (Writes' <=> Writes) /\ (Captures' <=> Captures)
      /\ transfer' = transfer /\ count' = count /\ got' = got
      /\ ~(sensor.mode = "value" /\ sensor'.mode = "register") => written' = written
      /\ \A k : Missed(k)' <=> Missed(k)
  BY <1>1, Unmoved, CheckingMoves
<1>3. SUFFICES Heard' \/ Went' \/ NoOne' \/ AnyAhead'
  BY <1>1, <1>2, Zenon DEF AckedInv
<1>4. CASE at \in {0, 1, 5} \/ (at = 3 /\ ~Heard)
  <2>1. sensor' = sensor /\ pull' = pull
    BY <1>1, <1>2, <1>4, Unmoved, CheckingMoves
  <2>2. written' = written
    BY <1>2, <2>1
  <2>3. /\ \A mode, p : Hears(mode, p)' <=> Hears(mode, p)
        /\ \A p : Sends(p)' <=> Sends(p)
        /\ (Told' <=> Told) /\ (Deaf' <=> Deaf) /\ (Taken' <=> Taken)
    BY <1>2, <2>1, <2>2 DEF Hears, Sends, Told, Deaf, Taken
  <2>4. CASE Heard
    <3>1. at' < 3
      BY <1>2, <1>4, <2>4
    <3>2. Hears(Mode, 8)'
      BY <1>2, <1>4, <2>3, <2>4
    <3> QED BY <1>2, <2>1, <2>2, <2>3, <2>4, <3>1, <3>2
  <2>5. CASE Went
    <3>1. at' >= 5 /\ sample' = sample
      BY <1>1, <1>2, <1>4, <2>5, Unmoved, CheckingMoves
    <3> QED BY <1>2, <2>1, <2>2, <2>3, <2>5, <3>1
  <2>6. CASE NoOne
    <3>1. at' >= 4 => sample' = 1
      BY <1>1, <1>2, <1>4, <2>6, Unmoved, CheckingMoves DEF Level, Deaf
    <3> QED BY <1>2, <2>2, <2>3, <2>6, <3>1
  <2>7. CASE AnyAhead
    <3>1. PICK k \in 1 .. 2 : Ahead(k)
      BY <2>7
    <3>2. (IF at < 3 THEN k - 1 ELSE k)' = IF at < 3 THEN k - 1 ELSE k
      BY <1>2, <1>4
    <3>3. Ahead(k)'
      BY <1>2, <2>3, <3>1, <3>2
    <3> QED BY <1>2, <2>2, <2>7, <3>3
  <2> QED BY <1>1, <2>4, <2>5, <2>6, <2>7
<1>5. CASE at = 2
  <2>1. /\ sda = 1 /\ pull' = pull
        /\ sensor' = Risen(sensor, Level(sda, pull)) /\ Level(sda, pull) \in {0, 1}
    BY <1>1, <1>5, Unmoved, CheckingMoves
  <2>2. CASE Heard
    <3>1. Listening(sensor) /\ sensor.pulses = 8 /\ sensor.mode = Mode
      BY <1>1, <1>5, <2>2 DEF Hears, Mode, Listening
    <3>2. sensor'.mode = Mode /\ sensor'.pulses = 9 /\ sensor'.byte = Sent
          /\ sensor'.register = sensor.register
      BY <2>1, <2>2, <3>1, RisenFacts
    <3>3. Hears(Mode, 9)' /\ Told'
      BY <1>2, <2>2, <3>2 DEF Hears, Told
    <3>4. written' = written
      BY <1>2, <3>1, <3>2
    <3> QED BY <1>2, <1>5, <2>1, <2>2, <3>2, <3>3, <3>4
  <2>3. CASE NoOne
    BY <1>2, <1>5, <2>1, <2>3, RisenFacts DEF Deaf
  <2>4. CASE AnyAhead
    <3>1. PICK k \in 1 .. 2 : Ahead(k)
      BY <2>4
    <3>2. sensor.mode = "send" /\ sensor.pulses = k - 1
      BY <1>5, <3>1 DEF Sends
    <3>3. Sends(k)' /\ written' = written
      BY <1>2, <2>1, <3>2, RisenFacts DEF Sends
    <3>4. Ahead(k)'
      BY <1>2, <1>5, <3>1, <3>3
    <3> QED BY <1>2, <2>4, <3>3, <3>4
  <2> QED BY <1>1, <1>5, <2>2, <2>3, <2>4
<1>6. CASE at = 3 /\ Heard
  <2>1. sample' = 0 /\ sensor' = sensor /\ pull' = 0
    BY <1>1, <1>6, Unmoved, CheckingMoves DEF Level
  <2>2. Hears(Mode, 9)' /\ Told' /\ written' = written
    BY <1>2, <1>6, <2>1 DEF Hears, Told
  <2> QED BY <1>2, <1>6, <2>1, <2>2
<1>7. CASE at = 4
  <2>1. sample' = sample /\ sensor' = Fallen(sensor) /\ pull' \in Pulls(sensor')
    BY <1>1, <1>7, Unmoved, CheckingMoves
  <2>2. CASE Heard
    <3>1. Hears(Mode, 9) /\ written = {} /\ sample = 0 /\ Told /\ sensor.byte = Sent /\ at' = 5
      BY <1>2, <1>7, <2>2
    <3>2. CASE count = 0
      <4>1. Mode = "address" /\ Sent = 236
        BY <3>2, SentFacts DEF Mode
      <4>2. sensor'.mode = "register" /\ sensor'.pulses = 0 /\ sensor'.byte = 0
        BY <2>1, <3>1, <4>1, FallenFacts DEF Hears
      <4>3. pull' = 1
        BY <2>1, <4>2, PullsFacts DEF Listening
      <4>4. written' = written
        BY <1>2, <3>1, <4>1 DEF Hears
      <4> QED BY <1>2, <2>1, <3>1, <3>2, <4>2, <4>3, <4>4 DEF Hears
    <3>3. CASE count = 1
      <4>1. Mode = "register" /\ Sent = transfer.register
        BY <3>3, SentFacts DEF Mode
      <4>2. /\ sensor'.mode = "value" /\ sensor'.pulses = 0 /\ sensor'.byte = 0
            /\ sensor'.register = transfer.register
        BY <2>1, <3>1, <4>1, FallenFacts DEF Hears
      <4>3. pull' = 1
        BY <2>1, <4>2, PullsFacts DEF Listening
      <4>4. written' = written
        BY <1>2, <3>1, <4>1 DEF Hears
      <4> QED BY <1>2, <2>1, <3>1, <3>3, <4>2, <4>3, <4>4 DEF Hears
    <3>4. CASE count = 2 /\ Writes
      <4>1. Mode = "value" /\ Sent = transfer.third /\ sensor.register = transfer.register
        BY <3>1, <3>4, SentFacts DEF Mode, Told
      <4>2. sensor'.mode = "register" /\ sensor'.pulses = 0
        BY <2>1, <3>1, <4>1, FallenFacts DEF Hears
      <4>3. pull' = 1
        BY <2>1, <4>2, PullsFacts DEF Listening
      <4>4. written' = {<<transfer.register, transfer.third>>}
        BY <3>1, <4>1, <4>2 DEF Moves, Hears
      <4> QED BY <1>2, <2>1, <3>1, <3>4, <4>2, <4>3, <4>4 DEF Hears, Taken
    <3>5. CASE count = 2 /\ ~Writes
      <4>1. Mode = "address" /\ Sent = 237 /\ sensor.register = transfer.register
        BY <3>1, <3>5, SentFacts, TransferFacts DEF Mode, Told
      <4>2. sensor'.mode = "send" /\ sensor'.pulses = 0 /\ sensor'.register = transfer.register
        BY <2>1, <3>1, <4>1, FallenFacts DEF Hears
      <4>4. written' = written
        BY <1>2, <3>1, <4>1 DEF Hears
      <4> QED BY <1>2, <2>1, <3>1, <3>5, <4>2, <4>4 DEF Sends
    <3> QED BY <1>1, <3>2, <3>3, <3>4, <3>5
  <2>3. CASE NoOne
    BY <1>2, <1>7, <2>1, <2>3, FallenFacts, PullsFacts DEF Deaf
  <2>4. CASE AnyAhead
    <3>1. PICK k \in 1 .. 2 : Ahead(k)
      BY <2>4
    <3>2. sensor.mode = "send" /\ sensor.pulses = k
      BY <1>7, <3>1 DEF Sends
    <3>3. Sends(k)' /\ written' = written
      BY <1>2, <2>1, <3>2, FallenFacts DEF Sends
    <3>4. Ahead(k)'
      BY <1>2, <1>7, <3>1, <3>3
    <3> QED BY <1>2, <2>4, <3>3, <3>4
  <2> QED BY <1>1, <1>7, <2>2, <2>3, <2>4
<1> QED BY <1>2, <1>4, <1>5, <1>6, <1>7

LEMMA AnsweringMoves ==
  ASSUME sensor \in SensorState, transfer \in InitTransfers \cup {Capture},
         got \in Int, got > 0, got <= transfer.bytes,
         NEW a \in {0, 1}, Answering(a), Moves
  PROVE  Answering(a)' /\ written' = written
<1>1. /\ at \in 0 .. 5 /\ at' = at + 1 /\ call' = call
      /\ at = 0 => MoveSck(0)
      /\ at = 1 => MoveSda(1 - a)
      /\ at = 2 => MoveSck(0)
      /\ at = 3 => MoveSck(1)
      /\ at = 4 => MoveSck(0)
      /\ at = 5 => MoveSda(1)
      /\ transfer' = transfer /\ got' = got
      /\ ~(sensor.mode = "value" /\ sensor'.mode = "register") => written' = written
  BY Unmoved, SendAckMoves DEF Answering
<1>2. sensor.mode \in {"send", "idle"}
  BY <1>1 DEF Answering, Sends, Deaf
<1>3. CASE at \in {0, 1, 2, 5}
  <2>1. /\ sck = 0 /\ sck' = 0 /\ sensor' = sensor /\ pull' = pull
        /\ at = 1 => sda' = 1 - a
        /\ at \in {0, 2} => sda' = sda
        /\ at = 5 => sda' = 1
    BY <1>1, <1>3, SckKept DEF Answering, MoveSda
  <2>2. (\A p : Sends(p)' <=> Sends(p)) /\ (Deaf' <=> Deaf)
    BY <2>1 DEF Sends, Deaf
  <2>3. written' = written
    BY <1>1, <1>2, <2>1
  <2> QED BY <1>1, <1>3, <2>1, <2>2, <2>3 DEF Answering
<1>4. CASE at = 3
  <2>1. /\ sck' = 1 /\ sda = 1 - a /\ sda' = sda /\ pull = 1 /\ pull' = 1 /\ Sends(8)
        /\ sensor' = Risen(sensor, 1 - a)
    BY <1>1, <1>4, SckRisen DEF Answering, Level
  <2>2. CASE a = 1
    <3>1. Sends(9)' /\ sensor'.register = sensor.register
      BY <2>1, <2>2, RisenFacts DEF Sends
    <3> QED BY <1>1, <1>2, <1>4, <2>1, <2>2, <3>1 DEF Answering, Sends
  <2>3. CASE a = 0
    <3>1. Deaf'
      BY <2>1, <2>3, RisenFacts DEF Sends, Deaf
    <3> QED BY <1>1, <1>2, <1>4, <2>1, <2>3, <3>1 DEF Answering, Sends
  <2> QED BY <2>2, <2>3
<1>5. CASE at = 4
  <2>1. /\ sck' = 0 /\ sda = 1 - a /\ sda' = sda
        /\ sensor' = Fallen(sensor) /\ pull' \in Pulls(sensor')
    BY <1>1, <1>5, SckFallen DEF Answering
  <2>2. CASE a = 1
    <3>1. Sends(9) /\ sensor.register = transfer.register + got - 1
      BY <1>5, <2>2 DEF Answering
    <3>2. (sensor.register + 1) % 256 = transfer.register + got
      BY <3>1, TransferFacts
    <3>3. Sends(0)' /\ sensor'.register = transfer.register + got
      BY <2>1, <3>1, <3>2, FallenFacts DEF Sends
    <3> QED BY <1>1, <1>2, <1>5, <2>1, <2>2, <3>3 DEF Answering, Sends
  <2>3. CASE a = 0
    <3>1. Deaf'
      BY <1>5, <2>1, <2>3, FallenFacts, PullsFacts DEF Answering, Deaf
    <3> QED BY <1>1, <1>2, <1>5, <2>1, <2>3, <3>1 DEF Answering, Deaf
  <2> QED BY <2>2, <2>3
<1> QED BY <1>1, <1>3, <1>4, <1>5

LEMMA ReadStageMoves ==
  ASSUME sensor \in SensorState, transfer \in InitTransfers \cup {Capture}, got \in Int,
         ReadInv, Moves
  PROVE  ReadInv' /\ written' = written
<1>1. CASE got = 0 /\ Checked
  BY <1>1, Unmoved, CheckMoves DEF Checked
<1>2. CASE got > 0 /\ Answering(1)
  <2>1. Answering(1)' /\ written' = written
    BY <1>2, TransferFacts, AnsweringMoves DEF ReadInv
  <2> QED BY <1>2, <2>1, Unmoved DEF ReadInv
<1> QED BY <1>1, <1>2 DEF ReadInv

LEMMA AnswerMoves ==
  ASSUME sensor \in SensorState, AnswerInv, Moves
  PROVE  AnswerInv' /\ written' = written
<1>1. /\ at \in 0 .. 25 /\ at' = at + 1 /\ call' = call
      /\ at = 0 => MoveSda(1)
      /\ at % 3 = 1 => MoveSck(0)
      /\ at % 3 = 2 => MoveSck(1)
      /\ at > 0 /\ at % 3 = 0 => \E m : ReadSda(m)
      /\ count' = count /\ (Writes' <=> Writes) /\ transfer' = transfer /\ got' = got
      /\ ~(sensor.mode = "value" /\ sensor'.mode = "register") => written' = written
  BY Unmoved, ReadMoves DEF AnswerInv
<1>2. PICK j \in 0 .. 8 : at \in {3 * j, 3 * j + 1, 3 * j + 2}
  <2>1. at \div 3 \in 0 .. 8 /\ at \in {3 * (at \div 3), 3 * (at \div 3) + 1, 3 * (at \div 3) + 2}
    BY <1>1
  <2> QED BY <2>1
<1>3. at \div 3 = j /\ Sends(j) /\ (at >= 1 => sda = 1)
  BY <1>2 DEF AnswerInv
<1>4. SUFFICES /\ sensor'.mode = "send" /\ sensor'.pulses = at' \div 3
               /\ sensor'.register = sensor.register
               /\ sda' = 1
               /\ at' = 1 \/ at' % 3 = 2 => sck' = 0
               /\ at' > 1 /\ at' % 3 # 2 => sck' = 1
               /\ at' = 26 => pull' = 1
  <2>1. written' = written
    BY <1>1, <1>3 DEF Sends
  <2>2. at' \in 0 .. 26 /\ (at' >= 1 => sda' = 1) /\ at' # 0
    BY <1>1, <1>4
  <2> QED BY <1>1, <1>4, <2>1, <2>2 DEF AnswerInv, Sends
<1>5. CASE at = 0
  <2>1. sck = 0 /\ MoveSda(1) /\ j = 0 /\ at' \div 3 = 0 /\ at' = 1
    BY <1>1, <1>2, <1>5 DEF AnswerInv
  <2> QED BY <1>3, <2>1 DEF MoveSda, Sends
<1>6. CASE at = 3 * j /\ at # 0
  <2>1. /\ at % 3 = 0 /\ at' \div 3 = j /\ at' # 26 /\ at' > 1 /\ at' % 3 = 1
        /\ sck = 1
    BY <1>1, <1>6 DEF AnswerInv
  <2>2. UNCHANGED <<sda, sck, sensor, pull>>
    BY <1>1, <1>6, <2>1, Looked
  <2> QED BY <1>3, <1>1, <1>6, <2>1, <2>2 DEF Sends
<1>7. CASE at = 3 * j + 1
  <2>1. /\ at % 3 = 1 /\ at' \div 3 = j /\ at' % 3 = 2 /\ (at' = 26 <=> j = 8) /\ at >= 1
        /\ (at = 1 => sck = 0) /\ (at > 1 => sck = 1) /\ MoveSck(0) /\ sda = 1
    BY <1>1, <1>3, <1>7 DEF AnswerInv
  <2>2. CASE at = 1
    BY <1>3, <2>1, <2>2, SckKept DEF Sends
  <2>3. CASE at > 1
    <3>1. sensor' = Fallen(sensor) /\ pull' \in Pulls(sensor') /\ sck' = 0 /\ sda' = 1
      BY <2>1, <2>3, SckFallen
    <3>2. sensor' = sensor
      BY <1>3, <3>1, FallenFacts DEF Sends
    <3>3. j = 8 => pull' = 1
      BY <1>3, <3>1, <3>2, PullsFacts DEF Sends
    <3> QED BY <1>3, <2>1, <3>1, <3>2, <3>3 DEF Sends
  <2> QED BY <1>1, <2>1, <2>2, <2>3
<1>8. CASE at = 3 * j + 2
  <2>1. /\ at % 3 = 2 /\ j \in 0 .. 7 /\ at' \div 3 = j + 1 /\ at' % 3 = 0 /\ at' > 1 /\ at' # 26
        /\ sck = 0 /\ MoveSck(1) /\ sda = 1
    BY <1>1, <1>3, <1>8 DEF AnswerInv
  <2>2. /\ sensor' = Risen(sensor, Level(sda, pull)) /\ Level(sda, pull) \in {0, 1}
        /\ sck' = 1 /\ sda' = 1
    BY <2>1, SckRisen
  <2>3. sensor'.mode = "send" /\ sensor'.pulses = j + 1 /\ sensor'.register = sensor.register
    BY <1>3, <2>1, <2>2, RisenFacts DEF Sends
  <2> QED BY <2>1, <2>2, <2>3 DEF Sends
<1> QED BY <1>2, <1>5, <1>6, <1>7, <1>8

LEMMA StopStageMoves ==
  ASSUME sensor \in SensorState, transfer \in InitTransfers \cup {Capture}, got \in Int,
         StopInv, Moves
  PROVE  StopInv' /\ written' = written
<1>1. CASE Writes
  BY <1>1, Unmoved, CheckMoves DEF StopInv, Checked
<1>2. CASE ~Writes
  <2>1. got = transfer.bytes /\ transfer.bytes >= 1 /\ transfer.bytes \in Nat
    BY <1>2, TransferFacts DEF StopInv
  <2>2. CASE Captures
    <3>1. Answering(1)' /\ written' = written
      BY <1>2, <2>1, <2>2, AnsweringMoves DEF StopInv
    <3> QED BY <1>2, <2>2, <3>1, Unmoved DEF StopInv
  <2>3. CASE ~Captures
    <3>1. Answering(0)' /\ written' = written
      BY <1>2, <2>1, <2>3, AnsweringMoves DEF StopInv
    <3> QED BY <1>2, <2>3, <3>1, Unmoved DEF StopInv
  <2> QED BY <2>2, <2>3
<1> QED BY <1>1, <1>2

LEMMA GoneMoves ==
  ASSUME sensor \in SensorState, Gone, Moves
  PROVE  Gone' /\ written' = written
<1>1. /\ sensor' = sensor /\ pull' = 1 /\ written' = written
      /\ count' = count /\ stage' = stage /\ (Writes' <=> Writes) /\ Move
  BY MoveKeeps, Unmoved DEF Gone
<1>2. ASSUME stage = "acked"
      PROVE  /\ call' = i2c_check_ack /\ at' \in 0 .. 6
             /\ at' \in 1 .. 5 => sda' = 1
             /\ at' >= 4 => sample' = 1
  <2>1. /\ at \in 0 .. 5 /\ at' = at + 1 /\ call' = call /\ call = i2c_check_ack
        /\ at = 0 => MoveSda(1)
        /\ at = 1 => MoveSck(0)
        /\ at = 2 => MoveSck(1)
        /\ at = 3 => ReadSda(Look)
        /\ at = 4 => MoveSck(0)
        /\ at = 5 => MoveSda(0)
    BY <1>1, <1>2, CheckMoves DEF Gone
  <2>2. at = 0 => sda' = 1
    BY <2>1 DEF MoveSda
  <2>3. at \in {1, 2, 4} => UNCHANGED <<sda, sample>>
    BY <2>1 DEF MoveSck
  <2>4. at = 3 => sda' = sda /\ sample' = 1
    BY <1>2, <2>1, Looked DEF Gone, Level
  <2>5. at = 5 => sample' = sample
    BY <2>1 DEF MoveSda
  <2> QED BY <1>2, <2>1, <2>2, <2>3, <2>4, <2>5 DEF Gone
<1> QED BY <1>1, <1>2 DEF Gone

\* What is constant does not change.
LEMMA TransfersStay ==
  InitTransfers' = InitTransfers /\ Capture' = Capture /\ Trigger' = Trigger
BY DEF InitTransfers, SensorSettings, Capture, Trigger, BME280_verifyChipId,
       BME280_sendI2cTriggerForcedRead

LEMMA NextInv ==
  ASSUME sensor' \in SensorState, stage' \in Stages, got' \in Int, Program',
         written' \subseteq Known, Present' \/ Gone'
  PROVE  SensorInv'
<1>1. SensorState' = SensorState /\ Stages' = Stages /\ Known' = Known
  BY DEF SensorState, Stages, Known, BME280_REG_CTRL_HUM, BME280_REG_CTRL_MEAS,
         BME280_REG_CONFIG, ctrl_meas_reg
<1> QED BY <1>1 DEF SensorInv

LEMMA MovesInv ==
  ASSUME SensorInv, Moves
  PROVE  SensorInv'
<1>1. /\ sensor \in SensorState /\ transfer \in InitTransfers \cup {Capture}
      /\ stage \in Stages /\ got \in Int /\ written \subseteq Known /\ Program
  BY DEF SensorInv, Program
<1>2. /\ UNCHANGED <<stage, transfer, count, got, transfers, forced>>
      /\ (Writes' <=> Writes) /\ sensor' \in SensorState
      /\ sensor.mode # "absent" => sensor'.mode # "absent"
  <2>1. Move /\ UNCHANGED <<stage, transfer, count, got, transfers, forced>> /\ (Writes' <=> Writes)
    BY Unmoved, Zenon
  <2> QED BY <1>1, <2>1, MoveKeeps, Zenon
<1>3. Program'
  <2>1. Captures' <=> Captures
    BY Unmoved
  <2> QED BY <1>1, <1>2, <2>1, TransfersStay, Zenon DEF Program
<1>4. CASE Gone
  BY <1>1, <1>2, <1>3, <1>4, GoneMoves, NextInv
<1>5. CASE Present
  <2>1. CASE stage = "rest"
    BY <1>1, <1>2, <1>3, <1>5, <2>1, RestMoves, NextInv DEF Present
  <2>2. CASE stage = "start"
    <3>1. StartInv' /\ written' = {}
      BY <1>1, <1>5, <2>2, StartStageMoves DEF Present, StartInv
    <3> QED BY <1>1, <1>2, <1>3, <1>5, <2>2, <3>1, NextInv DEF Present
  <2>3. CASE stage = "put"
    <3>1. PutInv' /\ written' = {}
      BY <1>1, <1>5, <2>3, PutMoves DEF Present, PutInv
    <3> QED BY <1>1, <1>2, <1>3, <1>5, <2>3, <3>1, NextInv DEF Present
  <2>4. CASE stage = "check"
    <3>1. CheckInv' /\ written' = {}
      BY <1>1, <1>5, <2>4, CheckStageMoves DEF Present, CheckInv
    <3> QED BY <1>1, <1>2, <1>3, <1>5, <2>4, <3>1, NextInv DEF Present
  <2>5. CASE stage = "acked"
    <3>1. AckedInv'
      BY <1>1, <1>5, <2>5, AckedMoves DEF Present
    <3>2. written' = {} \/ (Writes' /\ Taken')
      BY <3>1 DEF AckedInv
    <3>3. Taken' => written' = {<<transfer.register, transfer.third>>}
      BY <1>2 DEF Taken
    <3>4. written' \subseteq Known
      BY <1>1, <1>2, <3>2, <3>3, TransferFacts
    <3> QED BY <1>1, <1>2, <1>3, <1>5, <2>5, <3>1, <3>4, NextInv DEF Present
  <2>6. CASE stage = "read"
    BY <1>1, <1>2, <1>3, <1>5, <2>6, ReadStageMoves, NextInv DEF Present
  <2>7. CASE stage = "answer"
    BY <1>1, <1>2, <1>3, <1>5, <2>7, AnswerMoves, NextInv DEF Present
  <2>8. CASE stage = "stop"
    BY <1>1, <1>2, <1>3, <1>5, <2>8, StopStageMoves, NextInv DEF Present
  <2>9. CASE stage = "verify"
    BY <1>1, <1>2, <1>3, <1>5, <2>9, VerifyMoves, NextInv DEF Present
  <2> QED BY <1>1, <2>1, <2>2, <2>3, <2>4, <2>5, <2>6, <2>7, <2>8, <2>9 DEF Stages
<1> QED BY <1>4, <1>5 DEF SensorInv

-----------------------------------------------------------------------------
(* What the program does between two functions.                            *)

\* A function that has returned has made all its calls.
LEMMA Ended ==
  ASSUME ~Running
  PROVE  /\ call = i2c_init /\ at \in 0 .. 2 => at = 2
         /\ Stopping => at = 2
         /\ Starting => at = 4
         /\ Putting => at = 24
         /\ Checking => at = 6
         /\ \A a : Answering(a) => at = 6
         /\ \A kept : call = i2c_readByte(kept) /\ at \in 0 .. 26 => at = 26
<1>1. at + 1 \notin DOMAIN call
  BY DEF Running
<1>2. DOMAIN i2c_init = 1 .. 2 /\ DOMAIN i2c_stop = 1 .. 2
  BY DEF i2c_init, i2c_stop
<1>3. DOMAIN i2c_start = 1 .. 4
  BY DEF i2c_start
<1>4. DOMAIN i2c_check_ack = 1 .. 6 /\ \A a : DOMAIN i2c_send_ack(a) = 1 .. 6
  BY DEF i2c_check_ack, i2c_send_ack
<1>5. /\ \A byte : DOMAIN i2c_writeByte(byte) = 1 .. 24
      /\ \A kept : DOMAIN i2c_readByte(kept) = 1 .. 26
  BY DEF i2c_writeByte, i2c_readByte
<1>6. (call = i2c_init /\ at \in 0 .. 2 => at = 2) /\ (Stopping => at = 2)
  BY <1>1, <1>2 DEF Stopping
<1>7. Starting => at = 4
  BY <1>1, <1>3 DEF Starting
<1>8. Putting => at = 24
  BY <1>1, <1>5 DEF Putting
<1>9. (Checking => at = 6) /\ \A a : Answering(a) => at = 6
  BY <1>1, <1>4 DEF Checking, Answering
<1>10. \A kept : call = i2c_readByte(kept) /\ at \in 0 .. 26 => at = 26
  BY <1>1, <1>5
<1> QED BY <1>6, <1>7, <1>8, <1>9, <1>10

\* What a stage hands on to the next one.
LEMMA Kept ==
  ASSUME NEW from, NEW to, Goes(from, to)
  PROVE  /\ stage = from /\ stage' = to /\ ~Running
         /\ UNCHANGED <<sda, sck, sample, sensor, pull>>
         /\ Deaf' <=> Deaf
         /\ \A p : Sends(p)' <=> Sends(p)
         /\ \A mode, p : Hears(mode, p)' <=> Hears(mode, p)
<1>1. /\ stage = from /\ stage' = to /\ ~Running
      /\ UNCHANGED <<sda, sck, sample, sensor, pull>>
  BY DEF Goes, Between
<1> QED BY <1>1 DEF Deaf, Sends, Hears

LEMMA SameKept ==
  ASSUME SameTransfer, stage # "rest", Program
  PROVE  /\ transfer \in InitTransfers \cup {Capture} /\ transfer' = transfer
         /\ written' = written
         /\ (Writes' <=> Writes) /\ (Captures' <=> Captures)
         /\ Program'
         /\ stage' # "rest" => \A k : Missed(k)' <=> Missed(k)
         /\ Captures => transfers = <<>> /\ transfers' = <<>>
<1>1. transfer' = transfer /\ transfers' = transfers /\ forced' = forced /\ written' = written
  BY DEF SameTransfer
<1>2. (Writes' <=> Writes) /\ (Captures' <=> Captures)
  BY <1>1 DEF Writes, Captures
<1>3. /\ transfer \in InitTransfers \cup {Capture} /\ (Captures => transfers = <<>>)
      /\ \/ transfers = <<>> \/ transfers = <<Capture>>
         \/ transfers \in Seq(InitTransfers) /\ ~Captures
  BY DEF Program
<1>4. InitTransfers' = InitTransfers /\ Capture' = Capture /\ Trigger' = Trigger
  BY TransfersStay
<1>5. Program'
  BY <1>1, <1>2, <1>3, <1>4, Zenon DEF Program
<1>6. stage' # "rest" => \A k : Missed(k)' <=> Missed(k)
  BY <1>1, <1>4 DEF Missed
<1> QED BY <1>1, <1>2, <1>3, <1>5, <1>6

LEMMA Sequences ==
  /\ Capture \notin InitTransfers /\ Trigger \in InitTransfers /\ Trigger # Capture
  /\ <<Trigger, Capture>> \notin Seq(InitTransfers) /\ <<Capture>> \notin Seq(InitTransfers)
  /\ <<Trigger, Capture>> # <<>> /\ <<Capture>> # <<>> /\ <<Trigger, Capture>> # <<Capture>>
  /\ Head(<<Capture>>) = Capture /\ Tail(<<Capture>>) = <<>>
  /\ Head(<<Trigger, Capture>>) = Trigger /\ Tail(<<Trigger, Capture>>) = <<Capture>>
<1>1. Capture \notin InitTransfers /\ Trigger \in InitTransfers /\ Trigger # Capture
  BY DEF InitTransfers, SensorSettings, Capture, Trigger, BME280_sendI2cWriteData,
         BME280_sendI2cRead, BME280_verifyChipId, BME280_sendI2cTriggerForcedRead
<1>2. ASSUME NEW a, NEW b, a # b
      PROVE  /\ <<a, b>> # <<>> /\ <<b>> # <<>> /\ <<a, b>> # <<b>>
             /\ Head(<<b>>) = b /\ Tail(<<b>>) = <<>>
             /\ Head(<<a, b>>) = a /\ Tail(<<a, b>>) = <<b>>
  OBVIOUS
<1>3. ASSUME NEW S, NEW a, NEW b, b \notin S
      PROVE  <<a, b>> \notin Seq(S) /\ <<b>> \notin Seq(S)
  <2>1. <<a, b>>[2] = b /\ <<b>>[1] = b /\ Len(<<a, b>>) = 2 /\ Len(<<b>>) = 1
    OBVIOUS
  <2>2. \A s \in Seq(S) : \A i \in 1 .. Len(s) : s[i] \in S
    OBVIOUS
  <2> QED BY <1>3, <2>1, <2>2
<1> QED BY <1>1, <1>2, <1>3

LEMMA NextTransferInv == SensorInv /\ NextTransfer => SensorInv'
<1> SUFFICES ASSUME SensorInv, NextTransfer PROVE SensorInv'
  OBVIOUS
<1>1. /\ sensor \in SensorState /\ Program /\ (Present \/ Gone)
      /\ Goes("rest", "start") /\ transfers # <<>>
      /\ transfer' = Head(transfers) /\ transfers' = Tail(transfers)
      /\ count' = 0 /\ got' = 0 /\ written' = {} /\ UNCHANGED <<call, at, forced>>
  BY DEF SensorInv, NextTransfer
<1>2. InitTransfers' = InitTransfers /\ Capture' = Capture /\ Trigger' = Trigger
  BY TransfersStay
<1>3. transfer' \in InitTransfers => ~Captures'
  <2>1. \A t \in InitTransfers : t.for # "capture"
    BY DEF InitTransfers, SensorSettings, Trigger, BME280_sendI2cWriteData, BME280_sendI2cRead,
           BME280_verifyChipId, BME280_sendI2cTriggerForcedRead
  <2> QED BY <2>1 DEF Captures
<1>4. Program'
  <2>1. CASE transfers = <<Capture>>
    BY <1>1, <1>2, <2>1, Sequences, Zenon DEF Program
  <2>2. CASE transfers = <<Trigger, Capture>>
    <3>1. transfer' = Trigger /\ transfers' = <<Capture>>
      BY <1>1, <2>2, Sequences
    <3> QED BY <1>2, <1>3, <3>1, Sequences, Zenon DEF Program
  <2>3. CASE transfers \in Seq(InitTransfers)
    <3>1. transfer' \in InitTransfers /\ transfers' \in Seq(InitTransfers)
      BY <1>1, <2>3
    <3> QED BY <1>2, <1>3, <3>1, Zenon DEF Program
  <2> QED BY <1>1, <2>1, <2>2, <2>3 DEF Program
<1>5. SUFFICES Present' \/ Gone'
  BY <1>1, <1>4, Kept, NextInv DEF Stages
<1>6. CASE Gone
  BY <1>1, <1>6, Kept DEF Gone
<1>7. CASE Present
  <2>1. /\ ~Running /\ stage = "rest" /\ RestInv /\ sensor.mode # "absent"
        /\ UNCHANGED <<sda, sck, sensor, pull>>
        /\ (Deaf' <=> Deaf) /\ (\A p : Sends(p)' <=> Sends(p)) /\ stage' = "start"
    BY <1>1, <1>7, Kept DEF Present
  <2>2. (Stopping' <=> Stopping) /\ (Checked' <=> Checked)
    BY <1>1, <2>1 DEF Stopping, Checked
  <2>3. Late => Late'
    <3>1. ASSUME NEW k \in 1 .. 3, Missed(k)
          PROVE  Missed(k)'
      <4>1. \/ transfers = <<Trigger, Capture>> /\ (forced => k # 2)
            \/ transfers = <<Capture>> /\ (forced => k = 2)
        BY <1>1, <2>1, <3>1 DEF Missed
      <4>2. CASE transfers = <<Trigger, Capture>> /\ (forced => k # 2)
        <5>1. forced
          BY <1>1, <4>2, Sequences DEF Program
        <5>2. transfer' = Trigger /\ transfers' = <<Capture>> /\ forced' = forced
          BY <1>1, <4>2, Sequences
        <5> QED BY <1>2, <2>1, <4>2, <5>1, <5>2, Zenon DEF Missed
      <4>3. CASE transfers = <<Capture>> /\ (forced => k = 2)
        <5>1. transfer' = Capture /\ forced' = forced
          BY <1>1, <4>3, Sequences
        <5> QED BY <1>2, <2>1, <4>3, <5>1, Zenon DEF Missed
      <4> QED BY <4>1, <4>2, <4>3
    <3>2. ASSUME NEW k \in 1 .. 3, Missed(k) /\ Sends(k - 1 + sck)
          PROVE  Missed(k)' /\ Sends(k - 1 + sck)'
      BY <2>1, <3>1, <3>2 DEF Sends
    <3> QED BY <3>2 DEF Late
  <2>4. \/ Stopping /\ at = 2 /\ (Deaf \/ Late)
        \/ Checked /\ Late
    BY <2>1, Ended DEF RestInv
  <2>5. StartInv'
    BY <1>1, <2>1, <2>2, <2>3, <2>4 DEF StartInv
  <2> QED BY <2>1, <2>5 DEF Present
<1> QED BY <1>1, <1>6, <1>7

LEMMA StartActionInv == SensorInv /\ Start => SensorInv'
<1> SUFFICES ASSUME SensorInv, Start PROVE SensorInv'
  OBVIOUS
<1>1. /\ sensor \in SensorState /\ Program /\ (Present \/ Gone) /\ got \in Int
      /\ written \subseteq Known
      /\ Goes("start", "put") /\ call' = i2c_start /\ at' = 0
      /\ SameTransfer /\ UNCHANGED <<count, got>>
  BY DEF SensorInv, Start, Run
<1>2. /\ stage = "start" /\ stage' = "put" /\ ~Running
      /\ UNCHANGED <<sda, sck, sensor, pull>>
      /\ (Deaf' <=> Deaf) /\ (\A p : Sends(p)' <=> Sends(p))
      /\ \A mode, p : Hears(mode, p)' <=> Hears(mode, p)
  BY <1>1, Kept
<1>3. /\ transfer' = transfer /\ written' = written /\ (Writes' <=> Writes) /\ Program'
      /\ \A k : Missed(k)' <=> Missed(k)
  BY <1>1, <1>2, SameKept
<1>4. SUFFICES Present' \/ Gone'
  BY <1>1, <1>2, <1>3, NextInv DEF Stages
<1>5. CASE Gone
  BY <1>1, <1>2, <1>3, <1>5 DEF Gone
<1>6. CASE Present
  <2>1. StartInv /\ sensor.mode # "absent"
    BY <1>2, <1>6 DEF Present
  <2>2. Late => Late'
    BY <1>2, <1>3 DEF Late
  <2>3. Told' <=> Told
    BY <1>1, <1>2, <1>3 DEF Told
  <2>4. Starting' <=> (sda = sck /\ sck \in {0, 1})
    BY <1>1, <1>2 DEF Starting
  <2>5. PutInv'
    <3>1. CASE count = 0 /\ (Deaf \/ Late)
      <4>1. Starting'
        BY <1>2, <2>1, <2>4, <3>1, Ended DEF StartInv, Stopping, Checked
      <4> QED BY <1>1, <1>2, <1>3, <2>1, <2>2, <3>1, <4>1 DEF PutInv, StartInv
    <3>2. CASE count = 2 /\ ~Writes /\ Checked /\ pull = 1 /\ Hears("value", 0) /\ Told
      BY <1>1, <1>2, <1>3, <2>1, <2>3, <2>4, <3>2 DEF PutInv, StartInv, Checked
    <3> QED BY <2>1, <3>1, <3>2 DEF StartInv
  <2> QED BY <1>2, <2>1, <2>5 DEF Present
<1> QED BY <1>1, <1>5, <1>6

LEMMA PutActionInv == SensorInv /\ Put => SensorInv'
<1> SUFFICES ASSUME SensorInv, Put PROVE SensorInv'
  OBVIOUS
<1>1. /\ sensor \in SensorState /\ Program /\ (Present \/ Gone) /\ got \in Int
      /\ written \subseteq Known
      /\ Goes("put", "check") /\ call' = i2c_writeByte(Sent) /\ at' = 0
      /\ SameTransfer /\ UNCHANGED <<count, got>>
  BY DEF SensorInv, Put, Run
<1>2. /\ stage = "put" /\ stage' = "check" /\ ~Running
      /\ UNCHANGED <<sda, sck, sensor, pull>>
      /\ (Deaf' <=> Deaf) /\ (\A p : Sends(p)' <=> Sends(p))
      /\ \A mode, p : Hears(mode, p)' <=> Hears(mode, p)
  BY <1>1, Kept
<1>3. /\ transfer' = transfer /\ written' = written /\ (Writes' <=> Writes) /\ Program'
      /\ \A k : Missed(k)' <=> Missed(k)
      /\ transfer \in InitTransfers \cup {Capture}
  BY <1>1, <1>2, SameKept
<1>4. SUFFICES Present' \/ Gone'
  BY <1>1, <1>2, <1>3, NextInv DEF Stages
<1>5. CASE Gone
  BY <1>1, <1>2, <1>3, <1>5 DEF Gone
<1>6. CASE Present
  <2>1. PutInv /\ sensor.mode # "absent"
    BY <1>2, <1>6 DEF Present
  <2>2. Sent' = Sent /\ Mode' = Mode
    BY <1>1, <1>3 DEF Sent, Mode
  <2>3. Told' <=> Told
    BY <1>1, <1>2, <1>3 DEF Told
  <2>4. Putting' /\ Risings' = 0 /\ sck' = 0 /\ got' = 0 /\ written' = {}
    <3>1. sck = 0
      BY <1>2, <2>1, Ended DEF PutInv, Starting, Checked
    <3> QED BY <1>1, <1>2, <1>3, <2>1, <2>2, <3>1 DEF Putting, Risings, PutInv
  <2>5. \/ /\ count \in 0 .. 2 /\ Hears(Mode, 0) /\ sensor.byte = 0 /\ pull = 1 /\ Told
        \/ /\ count = 0 /\ \E k \in 1 .. 3 : Missed(k) /\ Sends(k)
        \/ /\ count = 1 \/ (count = 2 /\ Writes)
           /\ \E k \in 1 .. 2 : Missed(k) /\ Sends(k) /\ (count = 2 => k = 1)
    <3>1. CASE Starting
      <4>1. at = 4
        BY <1>2, <3>1, Ended
      <4> QED BY <2>1, <4>1, <3>1 DEF PutInv, Checked, Mode
    <3>2. CASE Checked
      BY <2>1, <3>2 DEF PutInv, i2c_start, i2c_check_ack, Checked, Starting
    <3> QED BY <2>1, <3>1, <3>2 DEF PutInv
  <2>6. CASE count \in 0 .. 2 /\ Hears(Mode, 0) /\ sensor.byte = 0 /\ pull = 1 /\ Told
    <3>1. First(Sent, 0) = 0
      BY <1>3, <2>6, SentFacts, FirstBits
    <3>2. Hears(Mode, 0)' /\ sensor'.byte = First(Sent, 0)
      BY <1>2, <2>2, <2>6, <3>1
    <3>3. CheckInv'
      <4>1. Hears(Mode, Risings)' /\ sensor'.byte = First(Sent, Risings)'
        BY <2>2, <2>4, <3>2 DEF First, Upper
      <4> QED BY <1>1, <1>2, <2>3, <2>4, <2>6, <4>1 DEF CheckInv
    <3> QED BY <1>2, <2>1, <3>3 DEF Present
  <2>7. ASSUME NEW k \in 1 .. 3, Missed(k), Sends(k), count \in 0 .. 2,
               count = 1 => k < 3, count = 2 => k = 1 /\ Writes
        PROVE  Present'
    <3>1. Missed(k)' /\ Sends(k + Risings)'
      BY <1>2, <1>3, <2>4, <2>7 DEF Sends
    <3>2. CheckInv'
      BY <1>1, <1>3, <2>4, <2>7, <3>1 DEF CheckInv
    <3> QED BY <1>2, <2>1, <3>2 DEF Present
  <2> QED BY <2>5, <2>6, <2>7
<1> QED BY <1>1, <1>5, <1>6

LEMMA CheckActionInv == SensorInv /\ Check => SensorInv'
<1> SUFFICES ASSUME SensorInv, Check PROVE SensorInv'
  OBVIOUS
<1>1. /\ sensor \in SensorState /\ Program /\ (Present \/ Gone) /\ got \in Int
      /\ written \subseteq Known
      /\ Goes("check", "acked") /\ call' = i2c_check_ack /\ at' = 0
      /\ SameTransfer /\ UNCHANGED <<count, got>>
  BY DEF SensorInv, Check, Run
<1>2. /\ stage = "check" /\ stage' = "acked" /\ ~Running
      /\ UNCHANGED <<sda, sck, sensor, pull>>
      /\ (Deaf' <=> Deaf) /\ (\A p : Sends(p)' <=> Sends(p))
      /\ \A mode, p : Hears(mode, p)' <=> Hears(mode, p)
  BY <1>1, Kept
<1>3. /\ transfer' = transfer /\ written' = written /\ (Writes' <=> Writes) /\ Program'
      /\ (Captures' <=> Captures)
      /\ \A k : Missed(k)' <=> Missed(k)
      /\ transfer \in InitTransfers \cup {Capture}
  BY <1>1, <1>2, SameKept
<1>4. SUFFICES Present' \/ Gone'
  BY <1>1, <1>2, <1>3, NextInv DEF Stages
<1>5. CASE Gone
  BY <1>1, <1>2, <1>3, <1>5 DEF Gone
<1>6. CASE Present
  <2>1. CheckInv /\ sensor.mode # "absent" /\ at = 24 /\ Risings = 8 /\ sck = 0
    <3>1. CheckInv /\ sensor.mode # "absent" /\ at = 24
      BY <1>2, <1>6, Ended DEF Present, CheckInv
    <3> QED BY <3>1 DEF CheckInv, Putting, Risings
  <2>2. Sent' = Sent /\ Mode' = Mode
    BY <1>1, <1>3 DEF Sent, Mode
  <2>3. Told' <=> Told
    BY <1>1, <1>2, <1>3 DEF Told
  <2>4. Checking' /\ got' = 0 /\ written' = {} /\ count' = count /\ count \in 0 .. 2 /\ at' = 0
    BY <1>1, <1>2, <1>3, <2>1 DEF Checking, CheckInv
  <2>5. \/ Hears(Mode, 8) /\ sensor.byte = First(Sent, 8) /\ Told /\ pull = 0
        \/ Deaf /\ (Writes \/ (Captures /\ count < 2))
        \/ \E k \in 1 .. 2 :
             Missed(k) /\ Sends(k - 1) /\ (count = 0 \/ (count = 1 /\ k = 1 /\ Writes))
    BY <2>1 DEF CheckInv
  <2>6. CASE Hears(Mode, 8) /\ sensor.byte = First(Sent, 8) /\ Told /\ pull = 0
    <3>1. First(Sent, 8) = Sent
      BY <1>3, <2>4, SentFacts, FirstBits
    <3>2. Hears(Mode, 8)' /\ sensor'.byte = Sent'
      BY <1>2, <2>2, <2>6, <3>1
    <3>3. AckedInv'
      BY <1>2, <2>3, <2>4, <2>6, <3>2 DEF AckedInv
    <3> QED BY <1>2, <2>1, <3>3 DEF Present
  <2>7. CASE Deaf /\ (Writes \/ (Captures /\ count < 2))
    <3>3. AckedInv'
      BY <1>2, <1>3, <2>4, <2>7 DEF AckedInv
    <3> QED BY <1>2, <2>1, <3>3 DEF Present
  <2>8. ASSUME NEW k \in 1 .. 2, Missed(k), Sends(k - 1),
               count = 0 \/ (count = 1 /\ k = 1 /\ Writes)
        PROVE  Present'
    <3>1. Missed(k)' /\ Sends(k - 1)'
      BY <1>2, <1>3, <2>8
    <3>3. AckedInv'
      BY <1>2, <1>3, <2>4, <2>8, <3>1 DEF AckedInv
    <3> QED BY <1>2, <2>1, <3>3 DEF Present
  <2> QED BY <2>5, <2>6, <2>7, <2>8
<1> QED BY <1>1, <1>5, <1>6

\* A transfer that the sensor has missed is the capture or its trigger.
LEMMA MissedIs ==
  ASSUME NEW k, Missed(k), stage # "rest"
  PROVE  /\ k \in 1 .. 3
         /\ Writes \/ Captures
         /\ Writes => transfer = Trigger /\ transfers = <<Capture>> /\ forced /\ k # 2
         /\ ~Writes => transfer = Capture /\ (forced => k = 2)
BY DEF Missed, Writes, Captures, Capture, Trigger, BME280_sendI2cRead,
       BME280_sendI2cTriggerForcedRead, BME280_sendI2cWriteData

LEMMA AckedActionInv == SensorInv /\ Acked => SensorInv'
<1> SUFFICES ASSUME SensorInv, Acked PROVE SensorInv'
  OBVIOUS
<1>1. /\ sensor \in SensorState /\ Program /\ (Present \/ Gone) /\ got \in Int
      /\ written \subseteq Known /\ sample = 0
      /\ call' = call /\ at' = at /\ got' = got /\ count' = count + 1
      /\ SameTransfer
  BY DEF SensorInv, Acked
<1>2. PICK to \in Behind : Goes("acked", to)
  BY DEF Acked
<1>3. /\ stage = "acked" /\ stage' = to /\ ~Running
      /\ UNCHANGED <<sda, sck, sensor, pull>>
      /\ (Deaf' <=> Deaf) /\ (\A p : Sends(p)' <=> Sends(p))
      /\ \A mode, p : Hears(mode, p)' <=> Hears(mode, p)
  BY <1>2, Kept
<1>4. /\ transfer' = transfer /\ written' = written /\ (Writes' <=> Writes) /\ Program'
      /\ (stage' # "rest" => \A k : Missed(k)' <=> Missed(k))
      /\ transfer \in InitTransfers \cup {Capture}
      /\ (Captures => transfers' = <<>>)
  BY <1>1, <1>3, SameKept
<1>5. Captures => ~Writes
  BY <1>4, TransferFacts
<1>6. /\ count = 0 => Behind = {"put"}
      /\ count = 1 /\ Writes => Behind = {"put"}
      /\ count = 1 /\ ~Writes => Behind = {"start"}
      /\ count = 2 /\ Writes => Behind = {"stop"}
      /\ count = 2 /\ ~Writes /\ Captures => Behind = {"read", "rest"}
      /\ count = 2 /\ ~Writes /\ ~Captures => Behind = {"read"}
  <2>1. (count = 0 => Behind = {"put"}) /\ (count = 1 /\ Writes => Behind = {"put"})
    BY DEF Behind
  <2>2. count = 1 /\ ~Writes => Behind = {"start"}
    BY DEF Behind
  <2>5. count = 2 /\ Writes => Behind = {"stop"}
    BY <1>5 DEF Behind
  <2>3. count = 2 /\ ~Writes /\ Captures => Behind = {"read", "rest"}
    BY DEF Behind
  <2>4. count = 2 /\ ~Writes /\ ~Captures => Behind = {"read"}
    BY DEF Behind
  <2> QED BY <2>1, <2>2, <2>3, <2>4, <2>5
<1>7. CASE Gone
  <2>1. at = 6
    BY <1>3, <1>7 DEF Gone, Running, i2c_check_ack
  <2> QED BY <1>1, <1>3, <1>7, <2>1 DEF Gone
<1>8. CASE Present
  <2>1. AckedInv /\ sensor.mode # "absent" /\ at = 6 /\ Checked
    <3>1. AckedInv /\ sensor.mode # "absent" /\ at = 6
      BY <1>3, <1>8, Ended DEF Present, AckedInv
    <3> QED BY <3>1 DEF AckedInv, Checking, Checked
  <2>2. Checked' /\ sck = 0 /\ got = 0 /\ got' = 0 /\ count \in 0 .. 2
    BY <1>1, <1>3, <2>1 DEF Checked, AckedInv
  <2>3. to \in Stages
    BY <1>6, <2>2 DEF Stages
  <2>4. SUFFICES Present'
    BY <1>1, <1>3, <1>4, <2>2, <2>3, NextInv
  <2>5. \/ /\ count = 0 => Hears("register", 0) /\ sensor.byte = 0 /\ pull = 1
           /\ count = 1 => /\ Hears("value", 0) /\ sensor.byte = 0
                           /\ sensor.register = transfer.register /\ pull = 1
           /\ count = 2 /\ Writes => Hears("register", 0) /\ pull = 1
           /\ count = 2 /\ ~Writes => Sends(0) /\ sensor.register = transfer.register
           /\ count < 2 \/ ~Writes => written = {}
           /\ count = 2 /\ Writes => Taken
        \/ /\ written = {} /\ (count = 0 \/ (count = 1 /\ Writes))
           /\ \E k \in 1 .. 2 : Missed(k) /\ (count = 1 => k = 1) /\ Sends(k)
    BY <1>1, <2>1 DEF AckedInv
  <2>6. CASE /\ count = 0 => Hears("register", 0) /\ sensor.byte = 0 /\ pull = 1
             /\ count = 1 => /\ Hears("value", 0) /\ sensor.byte = 0
                             /\ sensor.register = transfer.register /\ pull = 1
             /\ count = 2 /\ Writes => Hears("register", 0) /\ pull = 1
             /\ count = 2 /\ ~Writes => Sends(0) /\ sensor.register = transfer.register
             /\ count < 2 \/ ~Writes => written = {}
             /\ count = 2 /\ Writes => Taken
    <3>1. CASE count = 0
      <4>1. Mode' = "register" /\ Told' /\ count' = 1
        BY <1>1, <3>1 DEF Mode, Told
      <4>2. PutInv'
        BY <1>3, <1>4, <2>2, <2>6, <3>1, <4>1 DEF PutInv
      <4> QED BY <1>3, <1>6, <2>1, <3>1, <4>2 DEF Present
    <3>2. CASE count = 1 /\ Writes
      <4>1. Mode' = "value" /\ Told' /\ count' = 2
        BY <1>1, <1>3, <1>4, <2>6, <3>2 DEF Mode, Told
      <4>2. PutInv'
        BY <1>3, <1>4, <2>2, <2>6, <3>2, <4>1 DEF PutInv
      <4> QED BY <1>3, <1>6, <2>1, <3>2, <4>2 DEF Present
    <3>3. CASE count = 1 /\ ~Writes
      <4>1. Told' /\ count' = 2
        BY <1>1, <1>3, <1>4, <2>6, <3>3 DEF Told
      <4>2. StartInv'
        BY <1>3, <1>4, <2>2, <2>6, <3>3, <4>1 DEF StartInv
      <4> QED BY <1>3, <1>6, <2>1, <3>3, <4>2 DEF Present
    <3>4. CASE count = 2 /\ Writes
      <4>1. Taken' /\ count' = 3
        BY <1>1, <1>4, <2>6, <3>4 DEF Taken
      <4>2. StopInv'
        BY <1>3, <1>4, <2>2, <2>6, <3>4, <4>1 DEF StopInv
      <4> QED BY <1>3, <1>6, <2>1, <3>4, <4>2 DEF Present
    <3>5. CASE count = 2 /\ ~Writes /\ to = "read"
      <4>1. got' < transfer.bytes /\ count' = 3
        BY <1>1, <1>4, <2>2, <3>5, TransferFacts
      <4>2. ReadInv'
        BY <1>3, <1>4, <2>2, <2>6, <3>5, <4>1 DEF ReadInv
      <4> QED BY <1>3, <2>1, <3>5, <4>2 DEF Present
    <3>6. CASE count = 2 /\ ~Writes /\ to = "rest" /\ Captures
      <4>1. Missed(1)'
        BY <1>3, <1>4, <3>6 DEF Missed
      <4>2. Sends(1 - 1 + sck)'
        BY <1>3, <2>2, <2>6, <3>6 DEF Sends
      <4>3. RestInv'
        BY <2>2, <4>1, <4>2 DEF RestInv, Late
      <4> QED BY <1>3, <2>1, <3>6, <4>3 DEF Present
    <3> QED BY <1>6, <2>2, <3>1, <3>2, <3>3, <3>4, <3>5, <3>6
  <2>7. ASSUME written = {}, count = 0 \/ (count = 1 /\ Writes),
               NEW k \in 1 .. 2, Missed(k), count = 1 => k = 1, Sends(k)
        PROVE  Present'
    <3>1. to = "put"
      BY <1>6, <2>7
    <3>2. Missed(k)' /\ Sends(k)'
      BY <1>3, <1>4, <2>7, <3>1
    <3>3. PutInv'
      BY <1>1, <1>4, <2>2, <2>7, <3>2 DEF PutInv
    <3> QED BY <1>3, <2>1, <3>1, <3>3 DEF Present
  <2> QED BY <2>5, <2>6, <2>7
<1> QED BY <1>1, <1>7, <1>8

LEMMA NotAckedInv == SensorInv /\ NotAcked => SensorInv'
<1> SUFFICES ASSUME SensorInv, NotAcked PROVE SensorInv'
  OBVIOUS
<1> DEFINE to == IF Writes \/ (Captures /\ count < 2) THEN "rest" ELSE "read"
<1>1. /\ sensor \in SensorState /\ Program /\ (Present \/ Gone) /\ got \in Int
      /\ written \subseteq Known /\ sample = 1
      /\ Goes("acked", to) /\ call' = i2c_stop /\ at' = 0
      /\ SameTransfer /\ UNCHANGED <<count, got>>
  BY DEF SensorInv, NotAcked, Run
<1>2. /\ stage = "acked" /\ stage' = to /\ ~Running
      /\ UNCHANGED <<sda, sck, sensor, pull>>
      /\ (Deaf' <=> Deaf) /\ (\A p : Sends(p)' <=> Sends(p))
  BY <1>1, Kept
<1>3. /\ transfer' = transfer /\ written' = written /\ (Writes' <=> Writes) /\ Program'
      /\ (Captures => transfers = <<>> /\ transfers' = <<>>)
  BY <1>1, <1>2, SameKept
<1>4. SUFFICES Present' \/ Gone'
  <2>1. stage' \in Stages
    BY <1>2 DEF Stages
  <2> QED BY <1>1, <1>2, <1>3, <1>4, <2>1, NextInv
<1>5. CASE Gone
  <2>1. to = "read" => ~Writes'
    BY <1>3
  <2> QED BY <1>1, <1>2, <1>3, <1>5, <2>1 DEF Gone
<1>6. CASE Present
  <2>1. AckedInv /\ sensor.mode # "absent" /\ at = 6 /\ Checked
    <3>1. AckedInv /\ sensor.mode # "absent" /\ at = 6
      BY <1>2, <1>6, Ended DEF Present, AckedInv
    <3> QED BY <3>1 DEF AckedInv, Checking, Checked
  <2>2. Stopping' /\ sck = 0 /\ sck' = 0
    BY <1>1, <1>2, <2>1 DEF Stopping, Checked
  <2>3. CASE Deaf /\ (Writes \/ (Captures /\ count < 2))
    <3>1. RestInv'
      BY <1>2, <2>2, <2>3 DEF RestInv
    <3> QED BY <1>2, <2>1, <2>3, <3>1 DEF Present
  <2>4. ASSUME count = 0 \/ (count = 1 /\ Writes),
               NEW k \in 1 .. 2, Missed(k), count = 1 => k = 1, Sends(k)
        PROVE  Present'
    <3>1. /\ Writes \/ Captures
          /\ Writes => transfers = <<Capture>> /\ forced /\ k # 2
          /\ ~Writes => (forced => k = 2)
      BY <1>2, <2>4, MissedIs
    <3>2. to = "rest"
      BY <2>4, <3>1
    <3>3. Capture' = Capture /\ Trigger' = Trigger /\ transfers' = transfers /\ forced' = forced
      BY <1>1 DEF SameTransfer, Capture, Trigger, BME280_sendI2cTriggerForcedRead
    <3>4. Missed(k + 1)'
      BY <1>2, <1>3, <3>1, <3>2, <3>3, <2>4 DEF Missed
    <3>5. Sends(k + 1 - 1 + sck)'
      BY <1>2, <2>2, <2>4 DEF Sends
    <3>6. RestInv'
      BY <2>2, <3>4, <3>5 DEF RestInv, Late
    <3> QED BY <1>2, <2>1, <3>2, <3>6 DEF Present
  <2> QED BY <1>1, <2>1, <2>3, <2>4 DEF AckedInv
<1> QED BY <1>1, <1>5, <1>6

LEMMA ReadByteInv == SensorInv /\ ReadByte => SensorInv'
<1> SUFFICES ASSUME SensorInv, ReadByte PROVE SensorInv'
  OBVIOUS
<1>1. /\ sensor \in SensorState /\ Program /\ (Present \/ Gone) /\ got \in Int
      /\ written \subseteq Known
      /\ Goes("read", "answer") /\ call' = i2c_readByte(transfer.for = "verify") /\ at' = 0
      /\ SameTransfer /\ UNCHANGED <<count, got>>
  BY DEF SensorInv, ReadByte, Run
<1>2. /\ stage = "read" /\ stage' = "answer" /\ ~Running
      /\ UNCHANGED <<sda, sck, sensor, pull>>
      /\ \A p : Sends(p)' <=> Sends(p)
  BY <1>1, Kept
<1>3. transfer' = transfer /\ written' = written /\ (Writes' <=> Writes) /\ Program'
  BY <1>1, <1>2, SameKept
<1>4. SUFFICES Present' \/ Gone'
  BY <1>1, <1>2, <1>3, NextInv DEF Stages
<1>5. CASE Gone
  BY <1>1, <1>2, <1>3, <1>5 DEF Gone
<1>6. CASE Present
  <2>1. ReadInv /\ sensor.mode # "absent"
    BY <1>2, <1>6 DEF Present
  <2>2. /\ got >= 0 /\ sck = 0 /\ Sends(0) /\ sensor.register = transfer.register + got
    <3>1. CASE got = 0 /\ Checked
      <4>1. transfer.register \in Nat
        BY <1>1, TransferFacts DEF Program
      <4> QED BY <2>1, <3>1, <4>1 DEF ReadInv, Checked
    <3>2. CASE got > 0 /\ Answering(1)
      <4>1. at = 6
        BY <1>2, <3>2, Ended
      <4> QED BY <1>1, <3>2, <4>1 DEF Answering
    <3> QED BY <2>1, <3>1, <3>2 DEF ReadInv
  <2>3. Sends(at \div 3)'
    BY <1>1, <1>2, <2>2 DEF Sends
  <2>4. AnswerInv'
    BY <1>1, <1>2, <1>3, <2>1, <2>2, <2>3 DEF AnswerInv, ReadInv
  <2> QED BY <1>2, <2>1, <2>4 DEF Present
<1> QED BY <1>1, <1>5, <1>6

LEMMA AnswerActionInv == SensorInv /\ Answer => SensorInv'
<1> SUFFICES ASSUME SensorInv, Answer PROVE SensorInv'
  OBVIOUS
<1> DEFINE more == got + 1 < transfer.bytes
           a == IF more \/ Captures THEN 1 ELSE 0
<1>1. /\ sensor \in SensorState /\ Program /\ (Present \/ Gone) /\ got \in Int
      /\ written \subseteq Known
      /\ Goes("answer", IF more THEN "read" ELSE "stop")
      /\ call' = i2c_send_ack(a) /\ at' = 0
      /\ got' = got + 1 /\ SameTransfer /\ UNCHANGED count
  BY DEF SensorInv, Answer, Run
<1>2. /\ stage = "answer" /\ stage' = (IF more THEN "read" ELSE "stop") /\ ~Running
      /\ UNCHANGED <<sda, sck, sensor, pull>>
      /\ \A p : Sends(p)' <=> Sends(p)
  BY <1>1, Kept
<1>3. /\ transfer' = transfer /\ written' = written /\ (Writes' <=> Writes) /\ Program'
      /\ (Captures' <=> Captures) /\ transfer \in InitTransfers \cup {Capture}
  BY <1>1, <1>2, SameKept
<1>4. SUFFICES Present' \/ Gone'
  <2>1. stage' \in Stages /\ got' \in Int
    BY <1>1, <1>2 DEF Stages
  <2> QED BY <1>1, <1>3, <1>4, <2>1, <1>2, NextInv
<1>5. CASE Gone
  BY <1>1, <1>2, <1>3, <1>5 DEF Gone
<1>6. CASE Present
  <2>1. AnswerInv /\ sensor.mode # "absent" /\ at = 26
    BY <1>2, <1>6, Ended DEF Present, AnswerInv
  <2>2. /\ sck = 0 /\ Sends(8) /\ pull = 1 /\ sensor.register = transfer.register + got
        /\ got >= 0 /\ got < transfer.bytes /\ count = 3 /\ ~Writes /\ written = {}
    BY <2>1 DEF AnswerInv
  <2>3. transfer.register \in Nat /\ transfer.bytes \in Nat
    BY <1>3, TransferFacts
  <2>4. \A b \in {0, 1} : a = b => Answering(b)'
    <3>1. /\ at' = 0 /\ sck' = 0 /\ pull' = 1 /\ Sends(8)'
          /\ sensor'.register = transfer'.register + got' - 1
      BY <1>1, <1>2, <1>3, <2>2, <2>3
    <3>2. ASSUME NEW b \in {0, 1}, call' = i2c_send_ack(b) PROVE Answering(b)'
      BY <3>1, <3>2 DEF Answering
    <3> QED BY <1>1, <3>2
  <2>5. CASE more
    <3>1. Answering(1)' /\ got' > 0 /\ got' < transfer'.bytes
      BY <1>1, <1>3, <2>2, <2>3, <2>4, <2>5
    <3>2. ReadInv'
      BY <1>1, <1>3, <2>2, <3>1 DEF ReadInv
    <3> QED BY <1>2, <2>1, <2>5, <3>2 DEF Present
  <2>6. CASE ~more
    <3>1. got' = transfer'.bytes /\ IF Captures THEN Answering(1)' ELSE Answering(0)'
      BY <1>1, <1>3, <2>2, <2>3, <2>4, <2>6
    <3>2. StopInv'
      BY <1>1, <1>3, <2>2, <3>1 DEF StopInv
    <3> QED BY <1>2, <2>1, <2>6, <3>2 DEF Present
  <2> QED BY <2>5, <2>6
<1> QED BY <1>1, <1>5, <1>6

LEMMA StopActionInv == SensorInv /\ Stop => SensorInv'
<1> SUFFICES ASSUME SensorInv, Stop PROVE SensorInv'
  OBVIOUS
<1> DEFINE to == IF transfer.for = "verify" THEN "verify" ELSE "rest"
<1>1. /\ sensor \in SensorState /\ Program /\ (Present \/ Gone) /\ got \in Int
      /\ written \subseteq Known
      /\ Goes("stop", to) /\ call' = i2c_stop /\ at' = 0
      /\ SameTransfer /\ UNCHANGED <<count, got>>
  BY DEF SensorInv, Stop, Run
<1>2. /\ stage = "stop" /\ stage' = to /\ ~Running
      /\ UNCHANGED <<sda, sck, sensor, pull>>
      /\ (Deaf' <=> Deaf) /\ (\A p : Sends(p)' <=> Sends(p))
      /\ \A mode, p : Hears(mode, p)' <=> Hears(mode, p)
  BY <1>1, Kept
<1>3. /\ transfer' = transfer /\ written' = written /\ (Writes' <=> Writes) /\ Program'
      /\ (Captures => transfers' = <<>>)
      /\ transfer \in InitTransfers \cup {Capture}
  BY <1>1, <1>2, SameKept
<1>4. SUFFICES Present' \/ Gone'
  <2>1. stage' \in Stages
    BY <1>2 DEF Stages
  <2> QED BY <1>1, <1>2, <1>3, <1>4, <2>1, NextInv
<1>5. /\ Writes => to = "rest" /\ ~Captures
      /\ Captures => to = "rest"
  BY DEF Writes, Captures
<1>6. CASE Gone
  BY <1>1, <1>2, <1>3, <1>5, <1>6 DEF Gone
<1>7. CASE Present
  <2>1. StopInv /\ sensor.mode # "absent"
    BY <1>2, <1>7 DEF Present
  <2>2. CASE Writes
    <3>1. Checked /\ pull = 1 /\ Hears("register", 0)
      BY <2>1, <2>2 DEF StopInv
    <3>2. Stopping' /\ at' = 0 /\ sda' = 0 /\ pull' = 1 /\ Hears("register", 0)'
      BY <1>1, <1>2, <3>1 DEF Stopping, Checked
    <3>3. Hears("register", at)'
      BY <3>2 DEF Hears
    <3>4. RestInv'
      BY <3>2, <3>3 DEF RestInv
    <3> QED BY <1>2, <1>5, <2>1, <2>2, <3>4 DEF Present
  <2>3. CASE Captures
    <3>1. Answering(1) /\ at = 6
      BY <1>2, <1>5, <2>1, <2>3, Ended DEF StopInv
    <3>2. sck = 0 /\ sda = 1 /\ Sends(0)
      BY <3>1 DEF Answering
    <3>3. Stopping' /\ Missed(1)' /\ Sends(1 - 1 + sck)'
      BY <1>1, <1>2, <1>3, <1>5, <2>3, <3>2 DEF Stopping, Missed, Sends
    <3>4. RestInv'
      BY <3>3 DEF RestInv, Late
    <3> QED BY <1>2, <1>5, <2>1, <2>3, <3>4 DEF Present
  <2>4. CASE ~Writes /\ ~Captures
    <3>1. Answering(0) /\ at = 6
      BY <1>2, <2>1, <2>4, Ended DEF StopInv
    <3>2. sck = 0 /\ sda = 1 /\ Deaf
      BY <3>1 DEF Answering
    <3>3. Stopping' /\ Deaf'
      BY <1>1, <1>2, <3>2 DEF Stopping
    <3>4. RestInv' /\ VerifyInv'
      BY <1>3, <2>4, <3>3 DEF RestInv, VerifyInv
    <3> QED BY <1>2, <2>1, <3>4 DEF Present
  <2> QED BY <2>2, <2>3, <2>4
<1> QED BY <1>1, <1>6, <1>7

LEMMA VerifyInvariant == SensorInv /\ Verify => SensorInv'
<1> SUFFICES ASSUME SensorInv, Verify PROVE SensorInv'
  OBVIOUS
<1>1. /\ sensor \in SensorState /\ Program /\ (Present \/ Gone) /\ got \in Int
      /\ written \subseteq Known
      /\ Goes("verify", "rest") /\ (transfers' = transfers \/ transfers' = <<>>)
      /\ UNCHANGED <<call, at, transfer, count, got, written>>
  BY DEF SensorInv, Verify
<1>2. /\ stage = "verify" /\ stage' = "rest" /\ ~Running
      /\ UNCHANGED <<sda, sck, sensor, pull>> /\ (Deaf' <=> Deaf)
  BY <1>1, Kept
<1>3. Program'
  <2>1. InitTransfers' = InitTransfers /\ Capture' = Capture /\ (Captures' <=> Captures)
    BY <1>1, TransfersStay DEF Captures
  <2>2. /\ transfer \in InitTransfers \cup {Capture}
        /\ \/ transfers = <<>> \/ transfers = <<Capture>>
           \/ transfers \in Seq(InitTransfers) /\ ~Captures
    BY <1>1, <1>2 DEF Program
  <2> QED BY <1>1, <1>2, <2>1, <2>2, Zenon DEF Program
<1>4. SUFFICES Present' \/ Gone'
  BY <1>1, <1>2, <1>3, NextInv DEF Stages
<1>5. CASE Gone
  BY <1>1, <1>2, <1>5 DEF Gone
<1>6. CASE Present
  <2>1. Stopping /\ Deaf /\ sensor.mode # "absent"
    BY <1>2, <1>6 DEF Present, VerifyInv
  <2>2. RestInv'
    BY <1>1, <1>2, <2>1 DEF RestInv, Stopping
  <2> QED BY <1>2, <2>1, <2>2 DEF Present
<1> QED BY <1>1, <1>5, <1>6

LEMMA CaptureInv == SensorInv /\ sensors_capture => SensorInv'
<1> SUFFICES ASSUME SensorInv, sensors_capture PROVE SensorInv'
  OBVIOUS
<1>1. /\ sensor \in SensorState /\ Program /\ (Present \/ Gone) /\ got \in Int
      /\ written \subseteq Known
      /\ Goes("rest", "rest") /\ transfers = <<>>
      /\ UNCHANGED <<call, at, transfer, count, got, forced, written>>
  BY DEF SensorInv, sensors_capture
<1>2. /\ stage = "rest" /\ stage' = "rest" /\ ~Running
      /\ UNCHANGED <<sda, sck, sensor, pull>> /\ (Deaf' <=> Deaf)
  BY <1>1, Kept
<1>3. InitTransfers' = InitTransfers /\ Capture' = Capture /\ Trigger' = Trigger
  BY TransfersStay
<1>4. /\ forced => transfers' = <<Trigger, Capture>>
      /\ ~forced => transfers' = <<Capture>>
  <2>1. <<Trigger>> \o <<Capture>> = <<Trigger, Capture>>
    <3> DEFINE c == <<Trigger>> \o <<Capture>>
    <3>1. ASSUME NEW S, NEW x \in S, NEW y \in S
          PROVE  <<x>> \o <<y>> \in Seq(S) /\ Len(<<x>> \o <<y>>) = 2
      OBVIOUS
    <3>2. ASSUME NEW S, NEW x \in S, NEW y \in S
          PROVE  (<<x>> \o <<y>>)[1] = x /\ (<<x>> \o <<y>>)[2] = y
      OBVIOUS
    <3>3. c \in Seq({Trigger, Capture}) /\ Len(c) = 2 /\ c[1] = Trigger /\ c[2] = Capture
      BY <3>1, <3>2
    <3> HIDE DEF c
    <3>4. c = <<Trigger, Capture>>
      BY <3>3
    <3> QED BY <3>4 DEF c
  <2>3. <<>> \o <<Capture>> = <<Capture>>
    OBVIOUS
  <2>2. transfers' = (IF forced THEN <<Trigger>> ELSE <<>>) \o <<Capture>>
    BY DEF sensors_capture, BME280_sendI2cReadSensorData, Trigger, Capture
  <2> QED BY <2>1, <2>2, <2>3
<1>5. Program'
  BY <1>1, <1>2, <1>3, <1>4, Zenon DEF Program
<1>6. SUFFICES Present' \/ Gone'
  BY <1>1, <1>2, <1>5, NextInv DEF Stages
<1>7. CASE Gone
  BY <1>1, <1>2, <1>7 DEF Gone
<1>8. CASE Present
  <2>1. RestInv /\ sensor.mode # "absent"
    BY <1>2, <1>8 DEF Present
  <2>2. (Stopping' <=> Stopping) /\ (Checked' <=> Checked)
    BY <1>1, <1>2 DEF Stopping, Checked
  <2>3. Late => Late'
    <3>1. ASSUME NEW k \in 1 .. 3, Missed(k) /\ Sends(k - 1 + sck)
          PROVE  (Missed(k) /\ Sends(k - 1 + sck))'
      <4>1. forced => k # 2
        BY <1>1, <1>2, <3>1, Sequences DEF Missed
      <4>2. Missed(k)'
        BY <1>1, <1>2, <1>3, <1>4, <4>1, Zenon DEF Missed
      <4>3. Sends(k - 1 + sck)'
        BY <1>2, <3>1 DEF Sends
      <4> QED BY <4>2, <4>3
    <3> QED BY <3>1 DEF Late
  <2>4. (Stopping /\ (Deaf \/ Late)) \/ (Checked /\ Late)
    BY <1>2, <2>1, Ended DEF RestInv
  <2>5. RestInv'
    BY <1>2, <2>2, <2>3, <2>4 DEF RestInv
  <2> QED BY <1>2, <2>1, <2>5 DEF Present
<1> QED BY <1>1, <1>7, <1>8

LEMMA SensorInitInv == SensorInit => SensorInv
<1> SUFFICES ASSUME SensorInit PROVE SensorInv
  OBVIOUS
<1>1. /\ sda = 1 /\ sck = 1 /\ call = i2c_init /\ at = 0
      /\ sensor \in {Idle, Absent} /\ pull = 1
      /\ stage = "start" /\ transfer = BME280_verifyChipId /\ count = 0 /\ got = 0
      /\ transfers = BME280_writeConfigRegisters \o BME280_readCalibrationRegisters
      /\ written = {}
  BY DEF SensorInit, BusInit
<1>2. sensor \in SensorState /\ sensor.mode \in {"idle", "absent"}
  BY <1>1 DEF SensorState, Idle, Absent, Begin
<1>3. transfers \in Seq(InitTransfers)
  <2>1. /\ BME280_writeConfigRegisters \in Seq(InitTransfers)
        /\ BME280_readCalibrationRegisters \in Seq(InitTransfers)
    <3> DEFINE S == InitTransfers
    <3>1. ASSUME NEW a \in S, NEW b \in S, NEW c \in S PROVE <<a, b, c>> \in Seq(S)
      <4> HIDE DEF S
      <4> QED OBVIOUS
    <3>2. /\ BME280_sendI2cWriteData(BME280_REG_CTRL_HUM, 1) \in S
          /\ BME280_sendI2cWriteData(BME280_REG_CTRL_MEAS, ctrl_meas_reg) \in S
          /\ BME280_sendI2cWriteData(BME280_REG_CONFIG, 4 * 32) \in S
          /\ BME280_sendI2cRead("calibrate", 136, 24) \in S
          /\ BME280_sendI2cRead("calibrate", 161, 1) \in S
          /\ BME280_sendI2cRead("calibrate", 225, 7) \in S
      BY DEF InitTransfers, SensorSettings, Trigger, BME280_sendI2cTriggerForcedRead
    <3> HIDE DEF S
    <3>3. /\ BME280_writeConfigRegisters \in Seq(S)
          /\ BME280_readCalibrationRegisters \in Seq(S)
      BY <3>1, <3>2 DEF BME280_writeConfigRegisters, BME280_readCalibrationRegisters
    <3> QED BY <3>3 DEF S
  <2>2. ASSUME NEW S, NEW s \in Seq(S), NEW t \in Seq(S) PROVE s \o t \in Seq(S)
    OBVIOUS
  <2> QED BY <1>1, <2>1, <2>2
<1>4. transfer \in InitTransfers /\ ~Captures /\ ~Writes
  BY <1>1 DEF InitTransfers, Captures, Writes, BME280_verifyChipId, BME280_sendI2cRead
<1>5. Program
  BY <1>1, <1>3, <1>4 DEF Program
<1>6. CASE sensor.mode = "idle"
  <2>1. StartInv
    BY <1>1, <1>6 DEF StartInv, Deaf
  <2>2. Present
    BY <1>1, <1>6, <2>1 DEF Present
  <2> QED BY <1>1, <1>2, <1>5, <2>2 DEF SensorInv, Stages
<1>7. CASE sensor.mode = "absent"
  <2>1. Gone
    BY <1>1, <1>7 DEF Gone
  <2> QED BY <1>1, <1>2, <1>5, <2>1 DEF SensorInv, Stages
<1> QED BY <1>2, <1>6, <1>7

LEMMA SensorStutter == SensorInv /\ UNCHANGED sensorVars => SensorInv'
<1> SUFFICES ASSUME SensorInv, UNCHANGED sensorVars PROVE SensorInv'
  OBVIOUS
<1>1. /\ UNCHANGED <<sda, sck, call, at, sample, sensor, pull>>
      /\ UNCHANGED <<stage, transfer, count, got, transfers, forced, written>>
  BY DEF sensorVars, bus
<1>2. /\ InitTransfers' = InitTransfers /\ Capture' = Capture /\ Trigger' = Trigger
      /\ (Captures' <=> Captures) /\ (Writes' <=> Writes)
  BY <1>1, TransfersStay DEF Captures, Writes
<1>3. /\ Sent' = Sent /\ Mode' = Mode /\ Risings' = Risings
      /\ (Told' <=> Told) /\ (Deaf' <=> Deaf) /\ (Taken' <=> Taken)
      /\ \A k : Missed(k)' <=> Missed(k)
      /\ \A p : Sends(p)' <=> Sends(p)
      /\ \A mode, p : Hears(mode, p)' <=> Hears(mode, p)
  BY <1>1, <1>2 DEF Sent, Mode, Risings, Told, Deaf, Taken, Missed, Sends, Hears
<1>4. Program'
  BY <1>1, <1>2, Zenon DEF SensorInv, Program
<1>5. Late' <=> Late
  BY <1>1, <1>3 DEF Late
<1>6. /\ (Stopping' <=> Stopping) /\ (Checked' <=> Checked) /\ (Starting' <=> Starting)
      /\ (Putting' <=> Putting) /\ (Checking' <=> Checking)
      /\ \A a : Answering(a)' <=> Answering(a)
  BY <1>1, <1>3 DEF Stopping, Checked, Starting, Putting, Checking, Answering, Sends, Deaf
<1>7. CASE Gone
  <2>1. Gone'
    BY <1>1, <1>2, <1>7 DEF Gone
  <2> QED BY <1>1, <1>4, <2>1, NextInv DEF SensorInv
<1>8. CASE Present
  <2> SUFFICES Present'
    BY <1>1, <1>4, NextInv DEF SensorInv
  <2>1. CASE stage = "rest"
    BY <1>1, <1>3, <1>5, <1>6, <1>8, <2>1 DEF Present, RestInv
  <2>2. CASE stage = "start"
    BY <1>1, <1>2, <1>3, <1>5, <1>6, <1>8, <2>2 DEF Present, StartInv
  <2>3. CASE stage = "put"
    BY <1>1, <1>2, <1>3, <1>5, <1>6, <1>8, <2>3 DEF Present, PutInv
  <2>4. CASE stage = "check"
    BY <1>1, <1>2, <1>3, <1>6, <1>8, <2>4 DEF Present, CheckInv
  <2>5. CASE stage = "acked"
    BY <1>1, <1>2, <1>3, <1>6, <1>8, <2>5 DEF Present, AckedInv
  <2>6. CASE stage = "read"
    BY <1>1, <1>2, <1>3, <1>6, <1>8, <2>6 DEF Present, ReadInv
  <2>7. CASE stage = "answer"
    BY <1>1, <1>2, <1>3, <1>6, <1>8, <2>7 DEF Present, AnswerInv
  <2>8. CASE stage = "stop"
    BY <1>1, <1>2, <1>3, <1>6, <1>8, <2>8 DEF Present, StopInv
  <2>9. CASE stage = "verify"
    BY <1>1, <1>2, <1>3, <1>6, <1>8, <2>9 DEF Present, VerifyInv
  <2> QED BY <2>1, <2>2, <2>3, <2>4, <2>5, <2>6, <2>7, <2>8, <2>9 DEF SensorInv, Stages
<1> QED BY <1>7, <1>8 DEF SensorInv

LEMMA SensorNextInv == SensorInv /\ [SensorNext]_sensorVars => SensorInv'
BY MovesInv, NextTransferInv, StartActionInv, PutActionInv, CheckActionInv, AckedActionInv,
   NotAckedInv, ReadByteInv, AnswerActionInv, StopActionInv, VerifyInvariant, CaptureInv,
   SensorStutter DEF SensorNext

\* What the sensor does and what the driver takes it to do keep together, all
\* through the program.
THEOREM SensorSafe == SensorSpec => []SensorInv
BY SensorInitInv, SensorNextInv, PTL DEF SensorSpec

LEMMA InvAligned == SensorInv => Aligned
<1> SUFFICES ASSUME SensorInv, stage = "answer", count = 3, Running, call[at + 1].wire = "bit"
             PROVE  /\ sensor.mode = "send" /\ sensor.register = transfer.register + got
                    /\ sensor.pulses = call[at + 1].number + 1
  BY DEF Aligned
<1>1. AnswerInv
  BY DEF SensorInv, Present, Gone
<1> DEFINE kept == transfer.for = "verify"
<1>2. call = i2c_readByte(kept) /\ at \in 0 .. 25
  BY <1>1 DEF AnswerInv, Running, i2c_readByte
<1>3. at % 3 = 0 /\ at # 0
  <2>1. /\ at = 0 => call[at + 1] = Sda(1)
        /\ at % 3 = 1 => call[at + 1] = Sck(0)
        /\ at % 3 = 2 => call[at + 1] = Sck(1)
    BY <1>2 DEF i2c_readByte
  <2>2. \A level : Sda(level).wire # "bit" /\ Sck(level).wire # "bit"
    BY DEF Sda, Sck
  <2> QED BY <1>2, <2>1, <2>2
<1>4. call[at + 1] = LookFor(((at + 1) \div 3) - 1, kept)
  BY <1>2, <1>3 DEF i2c_readByte
<1>5. call[at + 1].number = (at \div 3) - 1
  BY <1>2, <1>3, <1>4 DEF LookFor
<1>6. sensor.mode = "send" /\ sensor.pulses = at \div 3 /\ sensor.register = transfer.register + got
  BY <1>1 DEF AnswerInv, Sends
<1> QED BY <1>2, <1>5, <1>6

\* Whenever i2c_readByte samples a bit of an acknowledged request, the sensor
\* is sending that bit of that register.
THEOREM ReadsAligned == SensorSpec => []Aligned
BY SensorSafe, InvAligned, PTL

LEMMA InvTaken == SensorInv => WrittenIsTaken
BY DEF SensorInv, Known, Present, Gone, StopInv, Taken, WrittenIsTaken

\* The sensor takes the settings of BME280_writeConfigRegisters and no other,
\* and what BME280_sendI2cWriteData reports as written it has taken.
THEOREM WritesAreTaken == SensorSpec => []WrittenIsTaken
BY SensorSafe, InvTaken, PTL
=============================================================================
