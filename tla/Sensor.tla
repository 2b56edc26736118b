--------------------------------- MODULE Sensor ---------------------------------
(***************************************************************************)
(* The sensor's driver and loop: src/sensor/i2c_bme280.c without its       *)
(* arithmetic, and src/sensor/sensor_loop.c, on the wires of I2c.          *)
(*                                                                         *)
(* The program is a list of transfers.  A transfer goes through stages; at *)
(* each it calls a function of the I2C driver or decides how to go on.     *)
(***************************************************************************)
EXTENDS I2c, Sequences

VARIABLES
  stage,               \* what comes when the running function returns
  transfer,            \* the transfer under way, or the last one
  count,               \* how many of its first three bytes were acknowledged
  got,                 \* how many bytes were read behind them
  transfers,           \* what BME280_Init or the capture has still to do
  forced,              \* BME280_OperationMode is BME280_MODE_FORCED
  written              \* history: what the sensor was told in this transfer

sensorVars == <<bus, stage, transfer, count, got, transfers, forced, written>>

BME280_W == 236
BME280_R == 237
BME280_CHIP_ID == 96
BME280_REG_CTRL_HUM == 242
BME280_REG_CTRL_MEAS == 244
BME280_REG_CONFIG == 245
ctrl_meas_reg == 32 + 4 + 1        \* osrs_t, osrs_p, BME280_MODE_FORCED

-----------------------------------------------------------------------------
(* Transfers: the third byte is a register's new value, or the address to  *)
(* read from; then so many bytes follow.                                   *)

BME280_sendI2cWriteData(reg, value) ==
  [for |-> "write", register |-> reg, third |-> value, bytes |-> 0]

BME280_sendI2cRead(for, reg, n) ==
  [for |-> for, register |-> reg, third |-> BME280_R, bytes |-> n]

BME280_verifyChipId == BME280_sendI2cRead("verify", CHIP_ID_REG, 1)

BME280_writeConfigRegisters ==
  <<BME280_sendI2cWriteData(BME280_REG_CTRL_HUM, 1),
    BME280_sendI2cWriteData(BME280_REG_CTRL_MEAS, ctrl_meas_reg),
    BME280_sendI2cWriteData(BME280_REG_CONFIG, 4 * 32)>>

BME280_readCalibrationRegisters ==
  <<BME280_sendI2cRead("calibrate", 136, 24), BME280_sendI2cRead("calibrate", 161, 1),
    BME280_sendI2cRead("calibrate", 225, 7)>>

BME280_sendI2cTriggerForcedRead == BME280_sendI2cWriteData(BME280_REG_CTRL_MEAS, ctrl_meas_reg)

BME280_sendI2cReadSensorData ==
  (IF forced THEN <<BME280_sendI2cTriggerForcedRead>> ELSE <<>>)
  \o <<BME280_sendI2cRead("capture", 247, 8)>>

Writes == transfer.for = "write"
Captures == transfer.for = "capture"

-----------------------------------------------------------------------------
\* BME280_Init, which begins with the identifier.
SensorInit ==
  /\ BusInit
  /\ stage = "start" /\ transfer = BME280_verifyChipId /\ count = 0 /\ got = 0
  /\ transfers = BME280_writeConfigRegisters \o BME280_readCalibrationRegisters
  /\ forced = FALSE /\ written = {}

\* A call moves the wires; the sensor takes a value that it acknowledged.
Moves == /\ Move
         /\ written' = IF sensor.mode = "value" /\ sensor'.mode = "register"
                       THEN written \cup {<<sensor.register, sensor.byte>>} ELSE written
         /\ UNCHANGED <<stage, transfer, count, got, transfers, forced>>

\* The stage is over, and another one follows.
Goes(from, to) == stage = from /\ stage' = to /\ Between
SameTransfer == UNCHANGED <<transfer, transfers, forced, written>>

NextTransfer == /\ Goes("rest", "start")
                /\ transfers # <<>>
                /\ transfer' = Head(transfers) /\ transfers' = Tail(transfers)
                /\ count' = 0 /\ got' = 0 /\ written' = {}
                /\ UNCHANGED <<call, at, forced>>

Start == /\ Goes("start", "put")
         /\ Run(i2c_start)
         /\ SameTransfer /\ UNCHANGED <<count, got>>

Sent == <<BME280_W, transfer.register, transfer.third>>[count + 1]

Put == /\ Goes("put", "check")
       /\ Run(i2c_writeByte(Sent))
       /\ SameTransfer /\ UNCHANGED <<count, got>>

Check == /\ Goes("check", "acked")
         /\ Run(i2c_check_ack)
         /\ SameTransfer /\ UNCHANGED <<count, got>>

\* BME280_sendI2cRead returns no value when all three were acknowledged, and
\* only the capture looks at the result.
Behind == CASE count = 0 \/ (count = 1 /\ Writes) -> {"put"}
            [] count = 1 /\ ~Writes -> {"start"}
            [] count = 2 /\ Writes -> {"stop"}
            [] count = 2 /\ Captures -> {"read", "rest"}
            [] OTHER -> {"read"}

\* Mutant: the acknowledgement is not looked at.
AckedUnseen == /\ \E to \in Behind : Goes("acked", to)
               /\ count' = count + 1
               /\ SameTransfer /\ UNCHANGED <<call, at, got>>

Acked == /\ sample = 0
         /\ \E to \in Behind : Goes("acked", to)
         /\ count' = count + 1
         /\ SameTransfer /\ UNCHANGED <<call, at, got>>

\* The result is 0 for the first two bytes and 1 for the third; reading goes
\* on all the same where nobody looks at it.
NotAcked == /\ sample = 1
            /\ Goes("acked", IF Writes \/ (Captures /\ count < 2) THEN "rest" ELSE "read")
            /\ Run(i2c_stop)
            /\ SameTransfer /\ UNCHANGED <<count, got>>

ReadByte == /\ Goes("read", "answer")
            /\ Run(i2c_readByte(transfer.for = "verify"))
            /\ SameTransfer /\ UNCHANGED <<count, got>>

\* All bytes but the last are acknowledged, and in a capture the last one too.
Answer == LET more == got + 1 < transfer.bytes
          IN  /\ Goes("answer", IF more THEN "read" ELSE "stop")
              /\ Run(i2c_send_ack(IF more \/ Captures THEN 1 ELSE 0))
              /\ got' = got + 1
              /\ SameTransfer /\ UNCHANGED count

Stop == /\ Goes("stop", IF transfer.for = "verify" THEN "verify" ELSE "rest")
        /\ Run(i2c_stop)
        /\ SameTransfer /\ UNCHANGED <<count, got>>

Verify == /\ Goes("verify", "rest")
          /\ forced' = (data = BME280_CHIP_ID)
          /\ transfers' = IF forced' THEN transfers ELSE <<>>
          /\ UNCHANGED <<call, at, transfer, count, got, written>>

\* sensors_capture, every SENSOR_INTERVAL.
sensors_capture == /\ Goes("rest", "rest")
                   /\ transfers = <<>>
                   /\ transfers' = BME280_sendI2cReadSensorData
                   /\ UNCHANGED <<call, at, transfer, count, got, forced, written>>

SensorNext == \/ Moves \/ NextTransfer \/ Start \/ Put \/ Check \/ Acked \/ NotAcked
              \/ ReadByte \/ Answer \/ Stop \/ Verify \/ sensors_capture

SensorSpec == SensorInit /\ [][SensorNext]_sensorVars
SensorFairSpec == SensorSpec /\ WF_sensorVars(SensorNext)

-----------------------------------------------------------------------------
(* Properties.                                                             *)

\* Whenever the driver samples a bit of a byte it reads, and the sensor has
\* acknowledged what it was asked for, the sensor is sending that bit of that
\* register: however the transfers before ended, and although the stop
\* conditions the driver means to make behind i2c_send_ack are none.
Aligned ==
  stage = "answer" /\ count = 3 /\ Running /\ call[at + 1].wire = "bit"
    => /\ sensor.mode = "send" /\ sensor.register = transfer.register + got
       /\ sensor.pulses = call[at + 1].number + 1

\* What the sensor takes for a register's new value is one of the three
\* settings of BME280_writeConfigRegisters and for its own register, and when
\* BME280_sendI2cWriteData reports success, it has taken exactly that one.
WrittenIsTaken ==
  /\ written \subseteq {<<BME280_REG_CTRL_HUM, 1>>, <<BME280_REG_CTRL_MEAS, ctrl_meas_reg>>,
                        <<BME280_REG_CONFIG, 128>>}
  /\ stage = "stop" /\ Writes => written = {<<transfer.register, transfer.third>>}

\* A sensor that is there never stops the captures from reading it: whatever it
\* was left sending by one transfer, and whatever it pulls SDA to, again and
\* again one is acknowledged up to its data.
KeepsReading == sensor.mode # "absent" => []<>(Captures /\ count = 3)
=============================================================================
