---------------------------- MODULE MCModbusPort ----------------------------
(* Model checking ModbusPort: the requests of each run. *)
EXTENDS ModbusPort

Kinds == [rd |-> "read", bc |-> "write", nm |-> "multi", ol |-> "online", sr |-> "read",
          bw |-> "write", gm |-> "multi", go |-> "other", gz |-> "multi"]

MCFn        == [b \in Bytes |-> Kinds[b]]
MCDest      == [b \in Bytes |-> IF b = "bc" THEN "broadcast" ELSE "own"]
MCByteCount == [b \in Bytes |-> CASE b = "nm" -> 2 [] b = "gz" -> 247 [] OTHER -> 1]
MCScan      == {"sr"} \cap Bytes
MCBaud      == {"bw"} \cap Bytes
=============================================================================
