-------------------------- MODULE MCSensorProtocol --------------------------
(***************************************************************************)
(* The four readings of the program, and all batches of one or two         *)
(* readings with members in and out of range and zero at the end, at the   *)
(* widths of the code, on wires that end at every place in a reading.      *)
(***************************************************************************)
EXTENDS SensorProtocol

WordOf(v) == [i \in 0 .. 31 |-> IF i < 16 THEN (v \div 2 ^ i) % 2 ELSE 0]

Reading(device, battery, temp, humidity, alert) ==
    << WordOf(device), WordOf(battery), WordOf(temp), WordOf(humidity),
       WordOf(alert) >>

Samples ==
    << Reading(1, 0, 625, 45, 0), Reading(2, 1, 297, 89, 1),
       Reading(15, 0, 400, 50, 0), Reading(7, 0, 958, 12, 1) >>

Some ==
    {Samples[1], Samples[2], Reading(8, 0, 0, 0, 0), Reading(0, 0, 0, 0, 1),
     Reading(3, 1, 1030, 45, 0), Reading(17, 0, 625, 200, 1)}

MCBatches   == {Samples} \cup UNION {[1 .. n -> Some] : n \in {1, 2}}
MCWireSizes == (0 .. 6) \cup {11, 12, 32}
===========================================================================
