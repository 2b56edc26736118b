---------------------------------- MODULE I2c ----------------------------------
(***************************************************************************)
(* The two wires between the device and its sensor: what each function of  *)
(* src/driver/i2c.c does to them, and how the sensor, a BME280, follows.   *)
(*                                                                         *)
(* A function is the sequence of its calls of i2c_sda, i2c_sck and         *)
(* i2c_read, and the wires move one call at a time.  Both wires are open   *)
(* drain: one is high when nobody pulls it low.  The sensor pulls SDA only *)
(* and moves it only when SCK falls.                                       *)
(***************************************************************************)
EXTENDS Integers

CONSTANT ChipIds       \* what the chip at the sensor's address says it is

ASSUME ChipAssumption == ChipIds \subseteq 0 .. 255

VARIABLES
  sda, sck,            \* what the device puts on the wires
  call,                \* the running function of i2c.c
  at,                  \* how many of its calls it has made
  sample,              \* the last level of SDA it read
  data,                \* the byte it reads
  sensor,              \* what the sensor takes the transfer to be
  pull                 \* what the sensor puts on SDA

bus == <<sda, sck, call, at, sample, data, sensor, pull>>

\* The bits of a byte are sent from the highest, number 0.
Place == <<128, 64, 32, 16, 8, 4, 2, 1>>
BitOf(byte, i) == (byte \div Place[i + 1]) % 2

-----------------------------------------------------------------------------
(* The driver.                                                             *)

Sda(level) == [wire |-> "sda", to |-> level]
Sck(level) == [wire |-> "sck", to |-> level]
Look == [wire |-> "look"]
LookFor(i, kept) == [wire |-> "bit", number |-> i, kept |-> kept]

i2c_init == <<Sda(1), Sck(1)>>

\* Mutant: SDA is not let go first.
StartHeld == <<Sck(1), Sda(0), Sck(0)>>

i2c_start == <<Sda(1), Sck(1), Sda(0), Sck(0)>>
i2c_stop == <<Sck(1), Sda(1)>>

\* Mutant: 1 for NACK.
SendAckSwapped(state) == <<Sck(0), Sda(state), Sck(0), Sck(1), Sck(0), Sda(1)>>

i2c_send_ack(state) == <<Sck(0), Sda(1 - state), Sck(0), Sck(1), Sck(0), Sda(1)>>

i2c_check_ack == <<Sda(1), Sck(0), Sck(1), Look, Sck(0), Sda(0)>>

\* SCK falls and rises before a bit is read.  The byte is kept where the
\* program's course depends on it.
i2c_readByte(kept) ==
  [k \in 1 .. 26 |-> CASE k = 1 -> Sda(1)
                       [] k % 3 = 2 -> Sck(0)
                       [] k % 3 = 0 -> Sck(1)
                       [] OTHER -> LookFor((k \div 3) - 1, kept)]

i2c_writeByte(byte) ==
  [k \in 1 .. 24 |-> CASE k % 3 = 1 -> Sda(BitOf(byte, k \div 3))
                       [] k % 3 = 2 -> Sck(1)
                       [] k % 3 = 0 -> Sck(0)]

-----------------------------------------------------------------------------
(* The sensor.  In a byte it counts nine pulses of SCK, the last one for   *)
(* the acknowledgement.                                                    *)

\* A byte begins.
Begin(mode, register) == [mode |-> mode, pulses |-> 0, byte |-> 0, register |-> register]

Idle == Begin("idle", 0)
Absent == Begin("absent", 0)

CHIP_ID_REG == 208
Addresses == {236, 237}

Listening(s) == s.mode \in {"address", "register", "value"}

\* START and STOP: SDA moves while SCK is high.
Condition(s, level) ==
  IF s.mode = "absent" THEN s
  ELSE IF level = 0 THEN Begin("address", s.register)
  ELSE [s EXCEPT !.mode = "idle"]

\* SCK rises: a bit is there.
Risen(s, level) ==
  CASE Listening(s) /\ s.pulses < 8 -> [s EXCEPT !.pulses = @ + 1, !.byte = 2 * @ + level]
    [] Listening(s) /\ s.pulses = 8 -> [s EXCEPT !.pulses = 9]
    [] s.mode = "send" /\ s.pulses < 8 -> [s EXCEPT !.pulses = @ + 1]
    [] s.mode = "send" /\ s.pulses = 8 ->
         IF level = 0 THEN [s EXCEPT !.pulses = 9] ELSE [s EXCEPT !.mode = "idle"]
    [] OTHER -> s

\* After the ninth pulse the next byte begins.
NextByte(s) ==
  CASE s.mode = "address" -> Begin(IF s.byte = 236 THEN "register" ELSE "send", s.register)
    [] s.mode = "register" -> Begin("value", s.byte)
    [] s.mode = "value" -> Begin("register", s.register)
    [] s.mode = "send" -> Begin("send", (s.register + 1) % 256)

\* SCK falls.
Fallen(s) ==
  CASE s.mode = "address" /\ s.pulses = 8 /\ s.byte \notin Addresses -> [s EXCEPT !.mode = "idle"]
    [] (Listening(s) \/ s.mode = "send") /\ s.pulses = 9 -> NextByte(s)
    [] OTHER -> s

\* What it then puts on SDA: its acknowledgement, or a bit of what it sends,
\* of which only the chip's name matters.
Pulls(s) ==
  CASE Listening(s) -> {IF s.pulses = 8 THEN 0 ELSE 1}
    [] s.mode = "send" /\ s.pulses < 8 ->
         IF s.register = CHIP_ID_REG THEN {BitOf(id, s.pulses) : id \in ChipIds} ELSE {0, 1}
    [] OTHER -> {1}

-----------------------------------------------------------------------------
Level(own, other) == IF own = 1 /\ other = 1 THEN 1 ELSE 0

BusInit == /\ sda = 1 /\ sck = 1
           /\ call = i2c_init /\ at = 0 /\ sample = 1 /\ data = 0
           /\ sensor \in {Idle, Absent} /\ pull = 1

MoveSda(level) ==
  /\ sda' = level
  /\ sensor' = IF sck = 1 /\ Level(sda, pull) # Level(level, pull)
               THEN Condition(sensor, Level(level, pull)) ELSE sensor
  /\ UNCHANGED <<sck, sample, data, pull>>

MoveSck(level) ==
  /\ sck' = level
  /\ sensor' = CASE sck = 0 /\ level = 1 -> Risen(sensor, Level(sda, pull))
                 [] sck = 1 /\ level = 0 -> Fallen(sensor)
                 [] OTHER -> sensor
  /\ IF sck = 1 /\ level = 0 THEN pull' \in Pulls(sensor') ELSE UNCHANGED pull
  /\ UNCHANGED <<sda, sample, data>>

ReadSda(m) ==
  /\ sample' = Level(sda, pull)
  /\ data' = IF m.wire = "bit" /\ m.kept
             THEN (IF m.number = 0 THEN 0 ELSE 2 * data) + sample' ELSE data
  /\ UNCHANGED <<sda, sck, sensor, pull>>

\* One call of the running function.
Running == at + 1 \in DOMAIN call

Move == /\ Running
        /\ at' = at + 1 /\ UNCHANGED call
        /\ LET m == call[at + 1]
           IN  CASE m.wire = "sda" -> MoveSda(m.to)
                 [] m.wire = "sck" -> MoveSck(m.to)
                 [] OTHER -> ReadSda(m)

\* What the program does between two functions moves no wire.
Between == ~Running /\ UNCHANGED <<sda, sck, sample, data, sensor, pull>>
Run(function) == call' = function /\ at' = 0
=============================================================================
