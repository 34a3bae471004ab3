---------------------------- MODULE MCRegisters ----------------------------
(* Registers for TLC: the configurations begin() is called with.  Besides    *)
(* the default with its pins set they are the widest and strongest setting   *)
(* with SF 6, a current limit above the one high power asks for, every       *)
(* option the other way round and no reset of the chip; and ones that        *)
(* begin() rejects: no pins, 500 kHz in the low band, a band the chip does   *)
(* not have.                                                                 *)
EXTENDS Registers

Usual == [DefaultConfig EXCEPT !.pins = TRUE]

Wide == [Usual EXCEPT
           !.sf = 6, !.implicit = TRUE, !.bw = kHz500, !.power = 18, !.ocp = 140,
           !.cr = 8, !.preamble = 300, !.symbols = 1100, !.sync = 52,
           !.crc = FALSE, !.iq = TRUE, !.lnaBoost = TRUE, !.tcxo = TRUE,
           !.agcAuto = FALSE, !.skipCal = TRUE, !.autoReset = FALSE,
           !.spiPins = 3]

MCConfigs ==
  {Usual, Wide, DefaultConfig,
   [Usual EXCEPT !.frequency = 433920, !.bw = kHz500],
   [Usual EXCEPT !.chip = "SX1278"]}
=============================================================================
