----------------------------- MODULE Registers -----------------------------
(***************************************************************************)
(* The configuration registers of the SX127x against SX127xDriver's cfg_:   *)
(* begin(), end() and the runtime setters, each a fixed sequence of SPI     *)
(* writes of which any one may fail.  A setter is its program, a sequence   *)
(* of partial assignments to the register file; a failed setter has         *)
(* executed a prefix of it.                                                 *)
(*                                                                          *)
(* Units: frequencies in kHz, bandwidths in 50 Hz, powers in dBm, currents  *)
(* in mA.  DIO mapping, FIFO pointer and flags are module Radio's and        *)
(* Packets'.  The chip takes a write to RegOpMode in every mode; of the      *)
(* image calibration only the frequency it is done at is kept.               *)
(***************************************************************************)
EXTENDS Integers, Sequences

CONSTANTS
  Configs,      \* the configurations begin() is called with
  Frequencies, SpreadingFactors, Bandwidths, Powers,  \* the setters' inputs
  MaxFaults     \* bound: SPI transfers that fail in a behaviour

VARIABLES
  cfg,          \* cfg_, the fields the setters read
  reg,          \* chip: the register file
  initialized,  \* initialized_
  faults,       \* environment: SPI transfers that may still fail
  dirty         \* history: register groups whose last setter failed

vars == <<cfg, reg, initialized, faults, dirty>>

PaOutputs == {"PaBoost", "Rfo"}
ChipModels == {"SX1276", "SX1277", "SX1278", "SX1279"}
Groups == {"frequency", "power", "modem", "errata"}
Modes == {"FskStandby", "FskSleep", "Sleep", "Standby", "Tx"}

---------------------------------------------------------------------------
(* LoRaConfig.  pins: the three required pins are set; spiPins: how many of  *)
(* spi_pins are.                                                             *)

kHz125 == 2500
kHz500 == 10000
Allowed == {156, 208, 312, 416, 625, 834, 1250, kHz125, 5000, kHz500}

HighBand(f) == f >= 525000

FrequencyRange(chip) == CASE chip = "SX1278" -> 137000 .. 525000
                          [] chip = "SX1279" -> 137000 .. 960000
                          [] OTHER -> 137000 .. 1020000

(* validate() *)
Valid(c) == /\ c.frequency \in FrequencyRange(c.chip)
            /\ c.bw \in Allowed
            /\ c.bw = kHz500 => HighBand(c.frequency)
            /\ c.sf \in 6 .. (IF c.chip = "SX1277" THEN 9 ELSE 12)
            /\ c.sf = 6 => c.implicit
            /\ c.cr \in 5 .. 8
            /\ c.preamble >= 6
            /\ c.ocp \in 45 .. 240
            /\ c.power \in IF c.pa = "Rfo" THEN 0 .. 14 ELSE 2 .. 20
            /\ c.pins /\ c.spiPins \in {0, 3}

(* ldro_required(): the symbol takes longer than 16 ms. *)
LdroRequired(sf, bw) ==
  (IF bw = 0 THEN 2 ^ sf * 1000000 ELSE (2 ^ sf * 20000) \div bw) > 16000

(* LoRaConfig, with the widths of its fields where they are short *)
Byte == 0 .. 255
Word == {n \in Nat : n < 2 ^ 16}
LoRaConfigs ==
  [chip : ChipModels, frequency : Nat, sf : Byte, bw : Nat, cr : Byte,
   preamble : Word, symbols : Word, sync : Word, crc : BOOLEAN, iq : BOOLEAN,
   implicit : BOOLEAN, power : -128 .. 127, pa : PaOutputs, ocp : Byte,
   ldroAuto : BOOLEAN, agcAuto : BOOLEAN, lnaBoost : BOOLEAN, tcxo : BOOLEAN,
   skipCal : BOOLEAN, autoReset : BOOLEAN, pins : BOOLEAN, spiPins : 0 .. 3]

(* What callers may pass *)
ASSUME InputsAssumption ==
  /\ Configs \subseteq LoRaConfigs
  /\ Frequencies \subseteq Nat /\ SpreadingFactors \subseteq Byte
  /\ Bandwidths \subseteq Nat /\ Powers \subseteq -128 .. 127
ASSUME FaultsAssumption == MaxFaults \in Nat

(* LoRaConfig{} *)
DefaultConfig ==
  [chip |-> "SX1276", frequency |-> 868000, sf |-> 9, bw |-> kHz125, cr |-> 5,
   preamble |-> 8, symbols |-> 100, sync |-> 18, crc |-> TRUE, iq |-> FALSE,
   implicit |-> FALSE, power |-> 14, pa |-> "PaBoost", ocp |-> 100,
   ldroAuto |-> TRUE, agcAuto |-> TRUE, lnaBoost |-> FALSE, tcxo |-> FALSE,
   skipCal |-> FALSE, autoReset |-> TRUE, pins |-> FALSE, spiPins |-> 0]

---------------------------------------------------------------------------
(* The values written *)

(* bw_code(): 125 kHz for a bandwidth the chip does not have. *)
BwCode(bw) == IF bw \in Allowed THEN bw ELSE kHz125

(* frf = (hz << 19) / 32 MHz *)
Frf(f) == (f * 2048) \div 125
FrfOf(r) == (r.frMsb * 256 + r.frMid) * 256 + r.frLsb

Symbols(n) == IF n > 1023 THEN 1023 ELSE n

(* PaDac = 0x87 *)
HighPower(dbm, pa) == pa = "PaBoost" /\ dbm > 17
Clamped(dbm) == IF dbm > 20 THEN 20 ELSE IF dbm < 2 THEN 2 ELSE dbm

(* Slip: the RFO power is not masked. *)
OutputPowerUnmasked(dbm, pa) == IF pa = "Rfo" THEN dbm
                                ELSE Clamped(dbm) - (IF dbm > 17 THEN 5 ELSE 2)

(* OutputPower; the RFO field keeps the low four bits of dbm. *)
OutputPower(dbm, pa) == IF pa = "Rfo" THEN dbm % 16
                        ELSE Clamped(dbm) - (IF dbm > 17 THEN 5 ELSE 2)

(* ocp_trim() and the limit in mA it stands for *)
OcpTrim(ma) == IF ma <= 120 THEN (ma - 45) \div 5
               ELSE IF ma <= 240 THEN (ma + 30) \div 10 ELSE 27
OcpLimit(trim) == IF trim <= 15 THEN 45 + 5 * trim ELSE 10 * trim - 30

IfFreq(bw) == IF bw >= kHz500 THEN 0
              ELSE IF bw = 156 THEN 72 ELSE IF bw <= 834 THEN 68 ELSE 64

---------------------------------------------------------------------------
(* The programs *)

Mode(m) == <<[mode |-> m]>>

ApplyFrequency(f) == <<[frMsb |-> (Frf(f) \div 65536) % 256],
                       [frMid |-> (Frf(f) \div 256) % 256],
                       [frLsb |-> Frf(f) % 256]>>

ApplyTxPower(dbm, pa) == <<[pa |-> pa, out |-> OutputPower(dbm, pa)],
                           [dacHigh |-> HighPower(dbm, pa)]>>

ApplyOcp(ma) == <<[ocpOn |-> TRUE, ocpTrim |-> OcpTrim(ma)]>>

Modem1(c) == <<[bw |-> BwCode(c.bw), cr |-> c.cr - 4, implicit |-> c.implicit],
               [sf |-> c.sf, txCont |-> FALSE, crc |-> c.crc,
                symbMsb |-> Symbols(c.symbols) \div 256],
               [symbLsb |-> Symbols(c.symbols) % 256]>>

(* RegDetectionOptimize is written whole: bit 7 goes. *)
Modem2(c) == <<[detect |-> IF c.sf = 6 THEN 5 ELSE 3, detect7 |-> FALSE],
               [threshold |-> IF c.sf = 6 THEN 12 ELSE 10]>>

(* Slip: the LDRO bit is not part of the modem configuration. *)
ApplyModemNoLdro(c) == Modem1(c) \o <<[agc |-> c.agcAuto]>> \o Modem2(c)

ApplyModem(c) ==
  Modem1(c)
  \o <<[ldro |-> c.ldroAuto /\ LdroRequired(c.sf, c.bw), agc |-> c.agcAuto]>>
  \o Modem2(c)

HighBandwidth(bw, f) == bw = kHz500 /\ HighBand(f)

ApplyErrata(bw, f) ==
  (IF HighBandwidth(bw, f) THEN <<[highBw1 |-> 2], [highBw2 |-> 100]>>
                           ELSE <<[highBw1 |-> 3]>>)
  \o <<[detect7 |-> bw >= kHz500], [ifFreq |-> IfFreq(bw)]>>

(* run_rx_image_calibration(), with frf programmed *)
Calibrate(frf) == <<[calibrated |-> frf]>>

(* The calibration comes before the frequency. *)
InitSequence(c, frf) ==
  <<[tcxo |-> c.tcxo]>> \o Mode("FskSleep")
  \o (IF c.skipCal THEN <<>> ELSE Calibrate(frf))
  \o Mode("Sleep") \o ApplyFrequency(c.frequency)
  \o ApplyTxPower(c.power, c.pa) \o ApplyOcp(c.ocp) \o ApplyModem(c)
  \o <<[sync |-> c.sync % 256],
       [preMsb |-> c.preamble \div 256], [preLsb |-> c.preamble % 256]>>
  \o <<[lna |-> 1, boost |-> c.lnaBoost], [iq |-> c.iq], [iq2 |-> c.iq]>>
  \o ApplyErrata(c.bw, c.frequency)
  \o <<[txBase |-> 0], [rxBase |-> 128]>> \o Mode("Standby")

(* The register file after the first n writes of a program: a field is what  *)
(* the last of them to write it left, or what it was.                        *)
Fields(program, n) == UNION {DOMAIN program[i] : i \in 1 .. n}
LastWrite(program, n, x) ==
  CHOOSE i \in 1 .. n : /\ x \in DOMAIN program[i]
                        /\ \A j \in i + 1 .. n : x \notin DOMAIN program[j]

Written(r, program, n) ==
  LET fields == Fields(program, n)
  IN [x \in DOMAIN r |-> IF x \in fields THEN program[LastWrite(program, n, x)][x]
                                         ELSE r[x]]

PowerOn == [mode |-> "FskStandby", frMsb |-> 108, frMid |-> 128, frLsb |-> 0,
            pa |-> "Rfo", out |-> 15, dacHigh |-> FALSE, ocpOn |-> TRUE,
            ocpTrim |-> 11, bw |-> kHz125, cr |-> 1, implicit |-> FALSE,
            sf |-> 7, txCont |-> FALSE, crc |-> FALSE, symbMsb |-> 0,
            symbLsb |-> 100, ldro |-> FALSE, agc |-> FALSE, detect |-> 3,
            detect7 |-> TRUE, threshold |-> 10, highBw1 |-> 3, highBw2 |-> 0,
            ifFreq |-> 32, sync |-> 18, preMsb |-> 0, preLsb |-> 8, lna |-> 1,
            boost |-> FALSE, iq |-> FALSE, iq2 |-> FALSE, txBase |-> 128,
            rxBase |-> 0, tcxo |-> FALSE, calibrated |-> 7110656]

---------------------------------------------------------------------------
Init == /\ cfg = DefaultConfig
        /\ reg = PowerOn
        /\ initialized = FALSE
        /\ faults = MaxFaults
        /\ dirty = {}

Fault == faults > 0 /\ faults' = faults - 1

Done(program, groups) == /\ reg' = Written(reg, program, Len(program))
                         /\ dirty' = dirty \ groups
                         /\ UNCHANGED faults

(* The failing write may have reached the chip, and so may a read-back's. *)
FailsAt(n, program, groups) == /\ Fault
                               /\ reg' = Written(reg, program, n)
                               /\ dirty' = dirty \cup groups

(* (\E p \in {program} makes TLC put the program together once.)            *)
Runs(program, groups) ==
  \E p \in {program} : \/ Done(p, groups)
                       \/ \E n \in 0 .. Len(p) : FailsAt(n, p, groups)

(* begin() resets the chip if cfg.auto_reset says so; when it fails          *)
(* initialized_ stays false.  It stores cfg_ once the SPI bus is up, before  *)
(* the first write.                                                          *)
Begin(c) ==
  /\ ~initialized /\ Valid(c)
  /\ \E before \in {IF c.autoReset THEN PowerOn ELSE reg} :
     \E program \in {InitSequence(c, FrfOf(before))} :
        \/ /\ reg' = Written(before, program, Len(program))
           /\ cfg' = c /\ initialized' = TRUE
           /\ UNCHANGED faults
        \/ /\ Fault
           /\ reg' = before /\ UNCHANGED <<cfg, initialized>>
        \/ /\ Fault
           /\ \E n \in 0 .. Len(program) : reg' = Written(before, program, n)
           /\ cfg' = c /\ UNCHANGED initialized
  /\ UNCHANGED dirty

(* The microcontroller restarts.  The chip, which has a supply of its own,   *)
(* keeps its registers and its mode.                                         *)
Restart == /\ initialized' = FALSE /\ cfg' = DefaultConfig /\ dirty' = {}
           /\ UNCHANGED <<reg, faults>>

End == /\ initialized
       /\ initialized' = FALSE /\ dirty' = {}
       /\ \/ reg' = Written(reg, Mode("Sleep"), 1) /\ UNCHANGED faults
          \/ Fault /\ UNCHANGED reg
       /\ cfg' = DefaultConfig

---------------------------------------------------------------------------
(* The runtime setters *)

LargeJump(f) == LET d == IF f > cfg.frequency THEN f - cfg.frequency
                                              ELSE cfg.frequency - f
                IN d * 20 > cfg.frequency

(* A jump of more than 5% goes through FSK for the image calibration, and    *)
(* ends in Standby whatever the radio was doing.                             *)
FrequencyProgram(f) ==
  ApplyFrequency(f)
  \o (IF LargeJump(f) /\ ~cfg.skipCal
      THEN Mode("Standby") \o Mode("FskSleep") \o Calibrate(Frf(f) % 2 ^ 24)
           \o Mode("Sleep") \o Mode("Standby")
      ELSE <<>>)

(* cfg_.frequency_hz follows when all three bytes are written. *)
SetFrequency(f) ==
  LET stored == cfg' = [cfg EXCEPT !.frequency = f]
  IN /\ initialized
     /\ \E program \in {FrequencyProgram(f)} :
        \/ Done(program, {"frequency"}) /\ stored
        \/ \E n \in 0 .. 3 : FailsAt(n, program, {"frequency"}) /\ UNCHANGED cfg
        \/ \E n \in 3 .. Len(program) :
              /\ Len(program) > 3
              /\ FailsAt(n, program, {"frequency"}) /\ stored
     /\ UNCHANGED initialized

(* Slip: a raised current limit stays when the power is lowered. *)
TxPowerProgramKeeps(dbm, pa) ==
  ApplyTxPower(dbm, pa)
  \o (IF HighPower(dbm, pa) /\ cfg.ocp < 130 THEN ApplyOcp(130) ELSE <<>>)

TxPowerProgram(dbm, pa) ==
  ApplyTxPower(dbm, pa)
  \o (IF ~HighPower(dbm, pa) THEN ApplyOcp(cfg.ocp)
      ELSE IF cfg.ocp < 130 THEN ApplyOcp(130) ELSE <<>>)

SetTxPower(dbm, pa) == /\ initialized
                       /\ cfg' = [cfg EXCEPT !.power = dbm, !.pa = pa]
                       /\ Runs(TxPowerProgram(dbm, pa), {"power"})
                       /\ UNCHANGED initialized

(* cfg_ is set before the first write, and stays when a write fails. *)
SetSpreadingFactor(sf) == /\ initialized /\ sf \in 6 .. 12
                          /\ cfg' = [cfg EXCEPT !.sf = sf]
                          /\ Runs(ApplyModem(cfg'), {"modem"})
                          /\ UNCHANGED initialized

SetBandwidth(bw) == /\ initialized
                    /\ cfg' = [cfg EXCEPT !.bw = bw]
                    /\ Runs(ApplyModem(cfg') \o ApplyErrata(bw, cfg.frequency),
                            {"modem", "errata"})
                    /\ UNCHANGED initialized

(* Setters that keep cfg_ as it is *)
Plain(program) == /\ initialized
                  /\ Runs(program, {})
                  /\ UNCHANGED <<cfg, initialized>>

SetLnaGain(gain) ==
  Plain(IF gain = 0 THEN <<[agc |-> TRUE]>>
                    ELSE <<[agc |-> FALSE], [lna |-> gain, boost |-> cfg.lnaBoost]>>)

SetOcpEnabled(enabled) == Plain(<<[ocpOn |-> enabled]>>)

StartContinuousWave == Plain(<<[txCont |-> TRUE]>> \o Mode("Tx"))

SetStandby == Plain(Mode("Standby"))
SetSleep == Plain(Mode("Sleep"))

StartTransmit == Plain(Mode("Standby") \o Mode("Tx"))

(* The chip ends a packet by itself, a continuous wave never. *)
ChipTxDone == /\ reg.mode = "Tx" /\ ~reg.txCont
              /\ reg' = [reg EXCEPT !.mode = "Standby"]
              /\ UNCHANGED <<cfg, initialized, faults, dirty>>

Setters == \/ \E f \in Frequencies : SetFrequency(f)
           \/ \E dbm \in Powers, pa \in PaOutputs : SetTxPower(dbm, pa)
           \/ \E sf \in SpreadingFactors : SetSpreadingFactor(sf)
           \/ \E bw \in Bandwidths : SetBandwidth(bw)
           \/ \E gain \in {0, 3} : SetLnaGain(gain)
           \/ \E enabled \in BOOLEAN : SetOcpEnabled(enabled)

Next == \/ \E c \in Configs : Begin(c)
        \/ End \/ Restart
        \/ Setters
        \/ StartContinuousWave \/ SetStandby \/ SetSleep \/ StartTransmit
        \/ ChipTxDone

Spec == Init /\ [][Next]_vars

---------------------------------------------------------------------------
(* Properties *)

TypeOK == /\ cfg \in LoRaConfigs /\ cfg.sf \in 6 .. 12 /\ cfg.ocp \in 45 .. 240
          /\ reg.mode \in Modes /\ reg.bw \in Allowed /\ reg.sf \in 6 .. 12
          /\ {reg.frMsb, reg.frMid, reg.frLsb} \subseteq 0 .. 255
          /\ reg.out \in 0 .. 15 /\ reg.ocpTrim \in 0 .. 31
          /\ initialized \in BOOLEAN
          /\ faults \in 0 .. MaxFaults /\ dirty \subseteq Groups

Clean(group) == initialized /\ group \notin dirty

(* The receiver workaround of erratum 2.3 matches the bandwidth, and its     *)
(* bit 7 is never left set below 500 kHz, where it spoils the reception.     *)
SpuriousErratum ==
    Clean("errata") => /\ reg.ifFreq = IfFreq(cfg.bw)
                       /\ reg.detect7 => cfg.bw >= kHz500

(* Erratum 2.1: the optimisation for 500 kHz above 525 MHz is on exactly      *)
(* there.  set_frequency() does not apply the errata, so that it holds only   *)
(* for an application that does not cross 525 MHz within a session           *)
(* (RegistersBand.cfg).  RegHighBwOptimize2 is left when it ends.            *)
HighBandwidthErratum ==
    Clean("errata") =>
      IF HighBandwidth(cfg.bw, cfg.frequency) THEN reg.highBw1 = 2 /\ reg.highBw2 = 100
                                              ELSE reg.highBw1 = 3
StaysInBand ==
    \A c \in Configs, f \in Frequencies :
       Valid(c) => (HighBand(f) <=> HighBand(c.frequency))

(* The power that the registers of a chip ask for, and what each output can  *)
(* be asked for.  begin() insists on the range, set_tx_power() does not: RFO *)
(* keeps the low four bits (18 dBm is sent with 2), PA_BOOST the nearest      *)
(* power it has, and both are reported as OK (RegistersPower.cfg).           *)
SentPower(r) == r.out + (IF r.pa = "Rfo" THEN 0 ELSE IF r.dacHigh THEN 5 ELSE 2)
Sendable(pa) == IF pa = "Rfo" THEN 0 .. 15 ELSE 2 .. 20
PowerIsProgrammed == Clean("power") => SentPower(reg) = cfg.power

(* What no setter changes is as begin() was asked, also with the registers   *)
(* of an earlier session in a chip that was not reset; the setters that      *)
(* write these registers leave the fields that are not theirs.               *)
SessionIsProgrammed ==
    /\ reg.preMsb * 256 + reg.preLsb = cfg.preamble
    /\ reg.sync = cfg.sync % 256 /\ reg.iq = cfg.iq /\ reg.iq2 = cfg.iq
    /\ reg.cr = cfg.cr - 4 /\ reg.implicit = cfg.implicit /\ reg.crc = cfg.crc
    /\ reg.symbMsb * 256 + reg.symbLsb = Symbols(cfg.symbols)
    /\ reg.boost = cfg.lnaBoost /\ reg.tcxo = cfg.tcxo
    /\ reg.txBase = 0 /\ reg.rxBase = 128

(* cfg_ tells the truth about the chip: whatever setters were called in      *)
(* whatever order, wherever transfers failed and whenever the                *)
(* microcontroller restarted, a register group whose last setter succeeded   *)
(* holds what cfg_ says, and low data rate optimisation is on exactly where  *)
(* the chip's own SF and bandwidth need it.  The setters that check nothing  *)
(* have their exceptions: set_frequency() takes more than the 24 bits of      *)
(* RegFrf hold, and leaves erratum 2.1 as it is; set_tx_power() takes powers  *)
(* the output does not have; a bandwidth the chip does not have is           *)
(* programmed as 125 kHz, with the LDRO of the other.                        *)
ConfigIsProgrammed ==
    /\ Clean("frequency") /\ cfg.frequency < 1024000 =>
         FrfOf(reg) = Frf(cfg.frequency)
    /\ Clean("power") => /\ reg.pa = cfg.pa
                         /\ reg.dacHigh = HighPower(cfg.power, cfg.pa)
                         /\ cfg.power \in Sendable(cfg.pa) => SentPower(reg) = cfg.power
    /\ Clean("modem") => /\ reg.sf = cfg.sf /\ reg.bw = BwCode(cfg.bw)
                         /\ reg.detect = 5 <=> reg.sf = 6
                         /\ reg.threshold = 12 <=> reg.sf = 6
    /\ Clean("modem") /\ cfg.bw \in Allowed =>
         reg.ldro = (cfg.ldroAuto /\ LdroRequired(reg.sf, reg.bw))
    /\ initialized => SessionIsProgrammed
    /\ SpuriousErratum
    /\ StaysInBand => HighBandwidthErratum

(* The over-current limit raised for more than 17 dBm does not outlive the   *)
(* high power, and the user's own limit is never lowered.                    *)
OcpBumpEnds ==
    Clean("power") =>
      /\ ~reg.dacHigh => reg.ocpTrim = OcpTrim(cfg.ocp)
      /\ OcpLimit(reg.ocpTrim) >= OcpLimit(OcpTrim(cfg.ocp))

(* "Caller must call set_standby() to exit [continuous-wave mode]"           *)
(* (IRadioDriver::start_continuous_wave()): a packet sent from Standby is    *)
(* not sent as a continuous wave.                                            *)
ContinuousWaveEnds ==
    [][StartTransmit /\ reg.mode = "Standby" /\ reg'.mode = "Tx" => ~reg'.txCont]_vars

(* "recalibrate RX image if the new frequency differs from the calibrated    *)
(* one by more than ~5%" (sx127x_driver.cpp:441-442): the image is           *)
(* calibrated within 5% of the frequency in use.                             *)
CalibratedNearby ==
    Clean("frequency") /\ ~cfg.skipCal =>
      LET d == FrfOf(reg) - reg.calibrated
      IN (IF d < 0 THEN -d ELSE d) * 20 <= reg.calibrated
=============================================================================
