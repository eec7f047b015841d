---------------------------- MODULE ExpansionBus ----------------------------
(* The transactions on the expansion buses.  The head drives its bus bit    *)
(* by bit; there a transaction is a sequence of tokens, and the bus says of *)
(* each token whether the clock line rose in time and, of a byte that is    *)
(* written, whether it was acknowledged.  The slave has a peripheral for    *)
(* its bus, where every transfer succeeds or fails as a whole.              *)
EXTENDS Integers, Sequences

-----------------------------------------------------------------------------
(* The head: firmware_expansion_i2c.c.  bus[n] is what the bus does with    *)
(* the n-th token; beyond its end nothing answers and the clock stays low.  *)
Token == [ack : BOOLEAN, late : BOOLEAN]
Does(bus, n) == IF n \in DOMAIN bus THEN bus[n] ELSE [ack |-> FALSE, late |-> TRUE]

Idle == [log |-> <<>>, ack |-> TRUE, late |-> FALSE]
Upcoming(t, bus) == Does(bus, Len(t.log) + 1)

(* A START, and a repeated one alike, forgets that a clock was late. *)
Start(t, bus) ==
    [t EXCEPT !.log = Append(@, "start"), !.late = Upcoming(t, bus).late]
(* A byte goes out only while the ones before it were acknowledged. *)
WriteByte(t, bus) ==
    IF ~t.ack THEN t
    ELSE [log |-> Append(t.log, "write"), ack |-> Upcoming(t, bus).ack,
          late |-> t.late \/ Upcoming(t, bus).late]
ReadByte(t, bus) ==
    [t EXCEPT !.log = Append(@, "read"), !.late = @ \/ Upcoming(t, bus).late]
Stop(t, bus) ==
    [t EXCEPT !.log = Append(@, "stop"), !.late = @ \/ Upcoming(t, bus).late]

WriteBytes(t, n, bus) ==
    LET f[i \in 0..n] == IF i = 0 THEN t ELSE WriteByte(f[i - 1], bus) IN f[n]
ReadBytes(t, n, bus) ==
    LET f[i \in 0..n] == IF i = 0 THEN t ELSE ReadByte(f[i - 1], bus) IN f[n]

(* The address, then n bytes. *)
Written(n, bus) == Stop(WriteBytes(Start(Idle, bus), 1 + n, bus), bus)
(* The address and n bytes that choose what to read, a repeated START, the  *)
(* address again, then m bytes.                                             *)
Read(n, m, bus) ==
    LET pointer == WriteBytes(Start(Idle, bus), 1 + n, bus)
        again   == WriteByte(Start(pointer, bus), bus)
    IN  Stop(IF ~pointer.ack THEN pointer
             ELSE IF again.ack THEN ReadBytes(again, m, bus) ELSE again, bus)

(* What the caller is told. *)
SlaveTold(t) == t.ack /\ ~t.late
SlaveWriteRegister(len, bus) == Written(1 + len, bus)
SlaveReadRegister(len, bus) == Read(1, len, bus)
SlaveReadRegisterWithParam(len, bus) == Read(2, len, bus)

(* The camera drivers do not ask whether the clock was late. *)
CameraTold(t) == t.ack
CameraRead(words, bus) == Read(2, 2 * words, bus)
CameraWrite(bus) == Written(4, bus)
CameraGeneralReset(bus) == Written(1, bus)
(* The 90641 reads back what it wrote. *)
CheckedWrite(bus, back, same) ==
    IF ~CameraTold(CameraWrite(bus)) \/ ~CameraTold(CameraRead(1, back)) THEN "nack"
    ELSE IF same THEN "done" ELSE "differs"
(* The 90642 writes the bytes of a command. *)
CommandWrite(n, bus) == Written(n, bus)

(* The converter of the head: writes are never checked, and a reading that  *)
(* fails is 0.  last is the configuration the next conversion starts with,  *)
(* whether or not it reached the converter.                                 *)
AdsWritten(bus) ==
    LET open == Start(Idle, bus)
        byte(t) == [WriteByte([t EXCEPT !.ack = TRUE], bus) EXCEPT !.ack = t.ack /\ @]
    IN  Stop(byte(byte(byte(byte(open)))), bus)
AdsConfigured(ads, config, bus) ==
    [last |-> config, holds |-> IF AdsWritten(bus).ack THEN config ELSE ads.holds]
(* The conversion starts with the configuration of its own write. *)
AdsTriggered(ads, bus) ==
    [ads EXCEPT !.holds = IF AdsWritten(bus).ack THEN ads.last ELSE @]
AdsResult(value, bus) == IF CameraTold(Read(1, 2, bus)) THEN value ELSE 0

-----------------------------------------------------------------------------
(* The slave: slave_i2c_sensors.c.  ok[n] says whether the n-th transfer of *)
(* the peripheral succeeds.                                                 *)
Ok(ok, n) == n \in DOMAIN ok /\ ok[n]

(* The pointer, then a transfer for every word: the words in front of the   *)
(* first failure are already in the buffer.                                 *)
WordsRead(words, ok) ==
    IF ~Ok(ok, 1) THEN 0
    ELSE LET whole == {k \in 0..words : \A n \in 1..k : Ok(ok, 1 + n)}
         IN  CHOOSE k \in whole : \A j \in whole : j <= k
ReadTold(words, ok) == Ok(ok, 1) /\ WordsRead(words, ok) = words
(* A transfer to the converter: one with its three bytes, or the pointer    *)
(* and the two bytes of the reading.                                        *)
SlaveAdsConfigured(ads, config, ok) ==
    [last |-> config, holds |-> IF Ok(ok, 1) THEN config ELSE ads.holds]
SlaveAdsTriggered(ads, ok) == [ads EXCEPT !.holds = IF Ok(ok, 1) THEN ads.last ELSE @]
SlaveAdsResult(value, ok) == IF Ok(ok, 1) /\ Ok(ok, 2) THEN value ELSE 0
SlaveWriteTold(ok) == Ok(ok, 1)
SlaveCheckedWrite(ok, same) ==
    IF ~Ok(ok, 1) \/ ~Ok(ok, 2) \/ ~Ok(ok, 3) THEN "nack" ELSE IF same THEN "done" ELSE "differs"
=============================================================================
