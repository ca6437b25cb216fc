--------------------------- MODULE MCChargerConfig ---------------------------
(***************************************************************************)
(* ChargerConfig with frames of one and of two characters in place of four *)
(* and seven, a buffer of six in place of a hundred, and lengths modulo 8  *)
(* in place of 256.  The lengths are chosen around the frames:             *)
(*   4, 5  two continuation frames, the usual string;                      *)
(*   2     one continuation frame, as 5 to 11 characters in the code;      *)
(*   1     none: an address of a broker that fits its first frame;         *)
(*   4     of a broker: an address that goes on, as any real one;          *)
(*   7     past the end of the buffer;                                     *)
(*   10    kept as 2: cut.                                                 *)
(***************************************************************************)
EXTENDS ChargerConfig

MCParamOf == [s \in Str |-> CASE s = "version" -> 4
                              [] s \in {"ocpp", "brief"} -> 5
                              [] s \in {"host", "broker"} -> 7
                              [] s \in {"date", "long", "cut"} -> 10]

MCLenOf   == [s \in Str |-> CASE s \in {"version", "date", "broker"} -> 4
                              [] s = "ocpp"  -> 5
                              [] s = "brief" -> 2
                              [] s = "host"  -> 1
                              [] s = "long"  -> 7
                              [] s = "cut"   -> 10]

MCCommaAt == [s \in Str |-> IF s = "version" THEN {1} ELSE {}]

=============================================================================
