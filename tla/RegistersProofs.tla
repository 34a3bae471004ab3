--------------------------- MODULE RegistersProofs ---------------------------
(***************************************************************************)
(* Theorems about Registers for every set of configurations and inputs and  *)
(* every number of failing transfers.  What a program of register writes    *)
(* leaves behind is proved once for programs of any length; each program of *)
(* the driver is then put together from its segments, as in the code.       *)
(***************************************************************************)
EXTENDS Registers, SequenceTheorems, WellFoundedInduction, TLAPS

USE InputsAssumption, FaultsAssumption

---------------------------------------------------------------------------
(* What is written last *)

LEMMA Largest ==
  ASSUME NEW n \in Nat, NEW W \in SUBSET (1 .. n), NEW w \in W
  PROVE  \E m \in W : \A k \in W : k <= m
  <1>. DEFINE R == OpToRel(<, Nat)
              T == {n - i : i \in W}
  <1>1. /\ IsWellFoundedOn(R, Nat)
        /\ \A x, y \in Nat : <<y, x>> \notin R => x <= y
    BY NatLessThanWellFounded DEF OpToRel
  <1>2. T \subseteq Nat
    OBVIOUS
  <1>3. n - w \in T
    OBVIOUS
  <1>. HIDE DEF R, T
  <1>4. PICK x \in T : \A y \in T : ~ (<<y, x>> \in R)
    BY <1>1, <1>2, <1>3, WFMin
  <1>5. \A y \in T : x <= y
    BY <1>1, <1>2, <1>4
  <1>6. PICK m \in W : x = n - m
    BY DEF T
  <1>7. ASSUME NEW k \in W PROVE k <= m
    <2>1. n - k \in T
      BY DEF T
    <2>. QED
      BY <2>1, <1>5, <1>6
  <1>. QED
    BY <1>7

(* LastWrite() is a write of the field. *)
LEMMA LastWriteWrites ==
  ASSUME NEW p, NEW n \in Nat, NEW x \in Fields(p, n)
  PROVE  /\ LastWrite(p, n, x) \in 1 .. n
         /\ x \in DOMAIN p[LastWrite(p, n, x)]
  <1>. DEFINE W == {i \in 1 .. n : x \in DOMAIN p[i]}
  <1>1. PICK w \in W : TRUE
    BY DEF Fields
  <1>2. PICK m \in W : \A k \in W : k <= m
    BY <1>1, Largest
  <1>3. m \in 1 .. n /\ x \in DOMAIN p[m] /\ \A j \in m + 1 .. n : x \notin DOMAIN p[j]
    BY <1>2
  <1>. QED
    BY <1>3 DEF LastWrite

---------------------------------------------------------------------------
(* Programs that fit a configuration                                         *)

(* Two of the bits, named because they are conditions in c *)
LdroBit(c) == c.ldroAuto /\ LdroRequired(c.sf, c.bw)
ErrataBit(c) == c.bw >= kHz500

(* What erratum 2.1 may hold: the truth, for an application that stays on    *)
(* its side of 525 MHz; anything that is ever written there, for another.    *)
Optimised(c) == HighBandwidth(c.bw, c.frequency)
HighBw1(c) == IF StaysInBand THEN {IF Optimised(c) THEN 2 ELSE 3} ELSE {2, 3}
HighBw2(c) == IF StaysInBand /\ Optimised(c) THEN {100} ELSE {0, 100}

(* The values the driver writes to the fields that depend on c.  The current *)
(* limit is the user's, or the raised one; bit 7 of RegDetectionOptimize is   *)
(* cleared with the modem configuration and set by the erratum.              *)
Values(c) ==
  [mode |-> Modes,
   frMsb |-> {(Frf(c.frequency) \div 65536) % 256},
   frMid |-> {(Frf(c.frequency) \div 256) % 256},
   frLsb |-> {Frf(c.frequency) % 256},
   pa |-> {c.pa}, out |-> {OutputPower(c.power, c.pa)},
   dacHigh |-> {HighPower(c.power, c.pa)},
   ocpTrim |-> {OcpTrim(c.ocp)} \cup
                 (IF HighPower(c.power, c.pa) /\ c.ocp < 130 THEN {OcpTrim(130)} ELSE {}),
   bw |-> {BwCode(c.bw)}, cr |-> {c.cr - 4}, implicit |-> {c.implicit},
   sf |-> {c.sf}, crc |-> {c.crc}, symbMsb |-> {Symbols(c.symbols) \div 256},
   symbLsb |-> {Symbols(c.symbols) % 256},
   ldro |-> {LdroBit(c)},
   detect |-> {IF c.sf = 6 THEN 5 ELSE 3}, threshold |-> {IF c.sf = 6 THEN 12 ELSE 10},
   detect7 |-> {FALSE, ErrataBit(c)}, ifFreq |-> {IfFreq(c.bw)},
   highBw1 |-> HighBw1(c), highBw2 |-> HighBw2(c),
   sync |-> {c.sync % 256}, preMsb |-> {c.preamble \div 256},
   preLsb |-> {c.preamble % 256}, boost |-> {c.lnaBoost}, iq |-> {c.iq},
   iq2 |-> {c.iq}, txBase |-> {0}, rxBase |-> {128}, tcxo |-> {c.tcxo}]

Known == {"mode", "frMsb", "frMid", "frLsb", "pa", "out", "dacHigh", "ocpTrim",
          "bw", "cr", "implicit", "sf", "crc", "symbMsb", "symbLsb", "ldro",
          "detect", "threshold", "detect7", "ifFreq", "highBw1", "highBw2", "sync", "preMsb", "preLsb", "boost",
          "iq", "iq2", "txBase", "rxBase", "tcxo"}

LEMMA KnownFields == \A c : DOMAIN Values(c) = Known
  BY DEF Values, Known

(* The same, one field at a time: the provers are slow on a record this wide. *)
LEMMA ValuesMode ==
  \A c : /\ Values(c).mode = Modes
  BY DEF Values

FrequencySays(v, c) == /\ v.frMsb = {(Frf(c.frequency) \div 65536) % 256}
                       /\ v.frMid = {(Frf(c.frequency) \div 256) % 256}
                       /\ v.frLsb = {Frf(c.frequency) % 256}
LEMMA ValuesFrequency == \A c : FrequencySays(Values(c), c)
  BY DEF Values, FrequencySays

PowerSays(v, c) == /\ v.pa = {c.pa}
                   /\ v.out = {OutputPower(c.power, c.pa)}
                   /\ v.dacHigh = {HighPower(c.power, c.pa)}
                   /\ v.ocpTrim = {OcpTrim(c.ocp)}
                        \cup (IF HighPower(c.power, c.pa) /\ c.ocp < 130
                        THEN {OcpTrim(130)} ELSE {})
LEMMA ValuesPower == \A c : PowerSays(Values(c), c)
  BY DEF Values, PowerSays

ModemSays(v, c) == /\ v.bw = {BwCode(c.bw)}
                   /\ v.cr = {c.cr - 4}
                   /\ v.implicit = {c.implicit}
                   /\ v.sf = {c.sf}
                   /\ v.crc = {c.crc}
                   /\ v.symbMsb = {Symbols(c.symbols) \div 256}
                   /\ v.symbLsb = {Symbols(c.symbols) % 256}
                   /\ v.ldro = {LdroBit(c)}
                   /\ v.detect = {IF c.sf = 6 THEN 5 ELSE 3}
                   /\ v.threshold = {IF c.sf = 6 THEN 12 ELSE 10}
LEMMA ValuesModem == \A c : ModemSays(Values(c), c)
  BY DEF Values, ModemSays

ErrataSays(v, c) == /\ v.detect7 = {FALSE, ErrataBit(c)}
                    /\ FALSE \in v.detect7 /\ ErrataBit(c) \in v.detect7
                    /\ \A b \in v.detect7 : b = FALSE \/ b = ErrataBit(c)
                    /\ v.ifFreq = {IfFreq(c.bw)}
                    /\ v.highBw1 = HighBw1(c) /\ v.highBw2 = HighBw2(c)
LEMMA ValuesErrata == \A c : ErrataSays(Values(c), c)
  <1>. TAKE c
  <1>1. /\ Values(c).detect7 = {FALSE, ErrataBit(c)} /\ Values(c).ifFreq = {IfFreq(c.bw)}
        /\ Values(c).highBw1 = HighBw1(c) /\ Values(c).highBw2 = HighBw2(c)
    BY DEF Values
  <1>2. FALSE \in {FALSE, ErrataBit(c)} /\ ErrataBit(c) \in {FALSE, ErrataBit(c)}
    BY Zenon
  <1>3. \A b \in {FALSE, ErrataBit(c)} : b = FALSE \/ b = ErrataBit(c)
    BY Zenon
  <1>. QED
    BY <1>1, <1>2, <1>3, Zenon DEF ErrataSays

SessionSays(v, c) == /\ v.sync = {c.sync % 256}
                     /\ v.preMsb = {c.preamble \div 256}
                     /\ v.preLsb = {c.preamble % 256}
                     /\ v.boost = {c.lnaBoost}
                     /\ v.iq = {c.iq}
                     /\ v.iq2 = {c.iq}
                     /\ v.txBase = {0}
                     /\ v.rxBase = {128}
                     /\ v.tcxo = {c.tcxo}
LEMMA ValuesSession == \A c : SessionSays(Values(c), c)
  BY DEF Values, SessionSays

(* A write, and a program of writes, that says of c's fields what c says.     *)
Obeys(w, c) == \A x \in DOMAIN w : x \in Known => w[x] \in Values(c)[x]

Fits(p, c, F) == /\ \E S : p \in Seq(S)
                 /\ \A i \in 1 .. Len(p) : Obeys(p[i], c)
                 /\ F \subseteq Fields(p, Len(p))

LEMMA FitsNothing == ASSUME NEW c PROVE Fits(<<>>, c, {})
  BY DEF Fits, Fields

LEMMA FitsOne == ASSUME NEW c, NEW w, Obeys(w, c) PROVE Fits(<<w>>, c, DOMAIN w)
  <1>1. <<w>> \in Seq({w}) /\ Len(<<w>>) = 1 /\ <<w>>[1] = w
    OBVIOUS
  <1>2. \E S : <<w>> \in Seq(S)
    BY <1>1
  <1>3. \A i \in 1 .. 1 : Obeys(<<w>>[i], c)
    BY <1>1
  <1>4. DOMAIN w \subseteq Fields(<<w>>, 1)
    BY <1>1 DEF Fields
  <1>. QED
    BY <1>1, <1>2, <1>3, <1>4 DEF Fits

LEMMA FitsTwo ==
  ASSUME NEW c, NEW v, NEW w, Obeys(v, c), Obeys(w, c)
  PROVE  Fits(<<v, w>>, c, DOMAIN v \cup DOMAIN w)
  <1>1. /\ <<v, w>> \in Seq({v, w}) /\ Len(<<v, w>>) = 2
        /\ <<v, w>>[1] = v /\ <<v, w>>[2] = w
    OBVIOUS
  <1>2. \E S : <<v, w>> \in Seq(S)
    BY <1>1
  <1>3. \A i \in 1 .. 2 : Obeys(<<v, w>>[i], c)
    BY <1>1
  <1>4. DOMAIN v \cup DOMAIN w \subseteq Fields(<<v, w>>, 2)
    BY <1>1 DEF Fields
  <1>. QED
    BY <1>1, <1>2, <1>3, <1>4 DEF Fits

LEMMA FitsThree ==
  ASSUME NEW c, NEW u, NEW v, NEW w, Obeys(u, c), Obeys(v, c), Obeys(w, c)
  PROVE  Fits(<<u, v, w>>, c, DOMAIN u \cup DOMAIN v \cup DOMAIN w)
  <1>1. /\ <<u, v, w>> \in Seq({u, v, w}) /\ Len(<<u, v, w>>) = 3
        /\ <<u, v, w>>[1] = u /\ <<u, v, w>>[2] = v /\ <<u, v, w>>[3] = w
    OBVIOUS
  <1>2. \E S : <<u, v, w>> \in Seq(S)
    BY <1>1
  <1>3. \A i \in 1 .. 3 : Obeys(<<u, v, w>>[i], c)
    BY <1>1
  <1>4. DOMAIN u \cup DOMAIN v \cup DOMAIN w \subseteq Fields(<<u, v, w>>, 3)
    BY <1>1 DEF Fields
  <1>. QED
    BY <1>1, <1>2, <1>3, <1>4 DEF Fits

(* One program after the other *)
LEMMA FitsJoined ==
  ASSUME NEW c, NEW p, NEW q, NEW F, NEW G, Fits(p, c, F), Fits(q, c, G)
  PROVE  Fits(p \o q, c, F \cup G)
  <1>1. PICK S : p \in Seq(S)
    BY DEF Fits
  <1>2. PICK T : q \in Seq(T)
    BY DEF Fits
  <1>3. p \in Seq(S \cup T) /\ q \in Seq(S \cup T)
    BY <1>1, <1>2
  <1>. DEFINE r == p \o q
  <1>4. /\ r \in Seq(S \cup T) /\ Len(r) = Len(p) + Len(q)
        /\ Len(p) \in Nat /\ Len(q) \in Nat
        /\ \A i \in 1 .. Len(p) : r[i] = p[i]
        /\ \A i \in 1 .. Len(q) : r[Len(p) + i] = q[i]
    BY <1>3
  <1>. HIDE DEF r
  <1>5. ASSUME NEW i \in 1 .. Len(r) PROVE Obeys(r[i], c)
    <2>1. CASE i <= Len(p)
      BY <1>4, <2>1 DEF Fits
    <2>2. CASE i > Len(p)
      <3>1. i - Len(p) \in 1 .. Len(q) /\ i = Len(p) + (i - Len(p))
        BY <1>4, <2>2
      <3>. QED
        BY <1>4, <3>1 DEF Fits
    <2>. QED
      BY <1>4, <2>1, <2>2
  <1>6. Fields(p, Len(p)) \subseteq Fields(r, Len(r))
    BY <1>4 DEF Fields
  <1>7. ASSUME NEW x \in Fields(q, Len(q)) PROVE x \in Fields(r, Len(r))
    <2>1. PICK i \in 1 .. Len(q) : x \in DOMAIN q[i]
      BY DEF Fields
    <2>2. Len(p) + i \in 1 .. Len(r) /\ x \in DOMAIN r[Len(p) + i]
      BY <1>4, <2>1
    <2>. QED
      BY <2>2 DEF Fields
  <1>. QED
    BY <1>4, <1>5, <1>6, <1>7 DEF Fits, r

(* Executed in part, a program that fits leaves of each field what it was or  *)
(* what c says; executed whole, what c says of each field it writes.          *)
LEMMA WrittenFits ==
  ASSUME NEW r, NEW c, NEW p, NEW F, Fits(p, c, F), NEW n \in 0 .. Len(p)
  PROVE  /\ DOMAIN Written(r, p, n) = DOMAIN r
         /\ \A x \in DOMAIN r \cap Known :
              \/ Written(r, p, n)[x] = r[x]
              \/ Written(r, p, n)[x] \in Values(c)[x]
         /\ \A x \in DOMAIN r \cap Known \cap F :
              Written(r, p, Len(p))[x] \in Values(c)[x]
  <1>1. Len(p) \in Nat
    BY DEF Fits
  <1>2. ASSUME NEW m \in 0 .. Len(p), NEW x \in Fields(p, m) \cap Known
        PROVE  p[LastWrite(p, m, x)][x] \in Values(c)[x]
    <2>1. m \in Nat
      BY <1>1
    <2>2. /\ LastWrite(p, m, x) \in 1 .. m
          /\ x \in DOMAIN p[LastWrite(p, m, x)]
      BY <2>1, LastWriteWrites
    <2>. QED
      BY <1>1, <2>2 DEF Fits, Obeys
  <1>3. n \in 0 .. Len(p) /\ Len(p) \in 0 .. Len(p)
    BY <1>1
  <1>4. F \subseteq Fields(p, Len(p))
    BY DEF Fits
  <1>. QED
    BY <1>2, <1>3, <1>4 DEF Written

---------------------------------------------------------------------------
(* The driver's programs, segment by segment                                 *)

LEMMA FitsMode == ASSUME NEW c, NEW m \in Modes PROVE Fits(Mode(m), c, {"mode"})
  <1>1. Obeys([mode |-> m], c)
    BY ValuesMode DEF Obeys, Known
  <1>. QED
    BY <1>1, FitsOne DEF Mode

LEMMA FitsFrequency ==
  ASSUME NEW c
  PROVE  Fits(ApplyFrequency(c.frequency), c, {"frMsb", "frMid", "frLsb"})
  <1>. DEFINE u == [frMsb |-> (Frf(c.frequency) \div 65536) % 256]
              v == [frMid |-> (Frf(c.frequency) \div 256) % 256]
              w == [frLsb |-> Frf(c.frequency) % 256]
  <1>1. Obeys(u, c) /\ Obeys(v, c) /\ Obeys(w, c)
    BY ValuesFrequency DEF Obeys, Known, FrequencySays
  <1>2. DOMAIN u = {"frMsb"} /\ DOMAIN v = {"frMid"} /\ DOMAIN w = {"frLsb"}
    OBVIOUS
  <1>3. ApplyFrequency(c.frequency) = <<u, v, w>>
    BY DEF ApplyFrequency
  <1>4. DOMAIN u \cup DOMAIN v \cup DOMAIN w = {"frMsb", "frMid", "frLsb"}
    BY <1>2
  <1>. HIDE DEF u, v, w
  <1>. QED
    BY <1>1, <1>3, <1>4, FitsThree

LEMMA FitsTxPower ==
  ASSUME NEW c
  PROVE  Fits(ApplyTxPower(c.power, c.pa), c, {"pa", "out", "dacHigh"})
  <1>. DEFINE v == [pa |-> c.pa, out |-> OutputPower(c.power, c.pa)]
              w == [dacHigh |-> HighPower(c.power, c.pa)]
  <1>1. Obeys(v, c) /\ Obeys(w, c)
    BY ValuesPower DEF Obeys, Known, PowerSays
  <1>2. DOMAIN v \cup DOMAIN w = {"pa", "out", "dacHigh"}
    OBVIOUS
  <1>3. ApplyTxPower(c.power, c.pa) = <<v, w>>
    BY DEF ApplyTxPower
  <1>. HIDE DEF v, w
  <1>. QED
    BY <1>1, <1>2, <1>3, FitsTwo

LEMMA FitsOcp ==
  ASSUME NEW c, NEW ma, OcpTrim(ma) \in Values(c).ocpTrim
  PROVE  Fits(ApplyOcp(ma), c, {"ocpTrim"})
  <1>. DEFINE w == [ocpOn |-> TRUE, ocpTrim |-> OcpTrim(ma)]
  <1>1. Obeys(w, c)
    BY DEF Obeys, Known
  <1>2. DOMAIN w = {"ocpOn", "ocpTrim"} /\ ApplyOcp(ma) = <<w>>
    BY DEF ApplyOcp
  <1>. HIDE DEF w
  <1>3. Fits(ApplyOcp(ma), c, {"ocpOn", "ocpTrim"})
    BY <1>1, <1>2, FitsOne
  <1>. QED
    BY <1>3 DEF Fits

ModemFields == {"bw", "cr", "implicit", "sf", "crc", "symbMsb", "symbLsb", "ldro",
                "detect", "detect7", "threshold"}

LEMMA FitsModem == ASSUME NEW c PROVE Fits(ApplyModem(c), c, ModemFields)
  <1>. DEFINE u == [bw |-> BwCode(c.bw), cr |-> c.cr - 4, implicit |-> c.implicit]
              v == [sf |-> c.sf, txCont |-> FALSE, crc |-> c.crc,
                    symbMsb |-> Symbols(c.symbols) \div 256]
              w == [symbLsb |-> Symbols(c.symbols) % 256]
              t == [ldro |-> LdroBit(c), agc |-> c.agcAuto]
              d == [detect |-> IF c.sf = 6 THEN 5 ELSE 3, detect7 |-> FALSE]
              e == [threshold |-> IF c.sf = 6 THEN 12 ELSE 10]
  <1>1. Obeys(u, c) /\ Obeys(v, c) /\ Obeys(w, c)
    <2>1. Obeys(u, c)
      BY ValuesModem DEF Obeys, Known, ModemSays
    <2>2. Obeys(v, c)
      BY ValuesModem DEF Obeys, Known, ModemSays
    <2>3. Obeys(w, c)
      BY ValuesModem DEF Obeys, Known, ModemSays
    <2>. QED
      BY <2>1, <2>2, <2>3
  <1>2. Obeys(t, c) /\ Obeys(d, c) /\ Obeys(e, c)
    <2>1. Obeys(t, c)
      BY ValuesModem DEF Obeys, Known, ModemSays
    <2>2. Obeys(d, c)
      <3>1. d["detect"] \in Values(c)["detect"]
        BY ValuesModem DEF ModemSays
      <3>2. d["detect7"] \in Values(c)["detect7"]
        BY ValuesErrata DEF ErrataSays
      <3>3. DOMAIN d = {"detect", "detect7"}
        OBVIOUS
      <3>. HIDE DEF d
      <3>. QED
        BY <3>1, <3>2, <3>3 DEF Obeys
    <2>3. Obeys(e, c)
      BY ValuesModem DEF Obeys, Known, ModemSays
    <2>. QED
      BY <2>1, <2>2, <2>3
  <1>3. /\ {"bw", "cr", "implicit"} \subseteq DOMAIN u
        /\ {"sf", "crc", "symbMsb"} \subseteq DOMAIN v
        /\ "symbLsb" \in DOMAIN w
    OBVIOUS
  <1>4. /\ "ldro" \in DOMAIN t /\ {"detect", "detect7"} \subseteq DOMAIN d
        /\ "threshold" \in DOMAIN e
    OBVIOUS
  <1>5. Modem1(c) = <<u, v, w>> /\ Modem2(c) = <<d, e>>
    BY DEF Modem1, Modem2
  <1>6. ApplyModem(c) = Modem1(c) \o <<t>> \o Modem2(c)
    BY DEF ApplyModem, LdroBit
  <1>. HIDE DEF u, v, w, t, d, e
  <1>7. Fits(Modem1(c), c, DOMAIN u \cup DOMAIN v \cup DOMAIN w)
    BY <1>1, <1>5, FitsThree
  <1>8. Fits(<<t>>, c, DOMAIN t)
    BY <1>2, FitsOne
  <1>9. Fits(Modem2(c), c, DOMAIN d \cup DOMAIN e)
    BY <1>2, <1>5, FitsTwo
  <1>10. Fits(Modem1(c) \o <<t>>, c, (DOMAIN u \cup DOMAIN v \cup DOMAIN w) \cup DOMAIN t)
    BY <1>7, <1>8, FitsJoined
  <1>11. Fits(ApplyModem(c), c,
             ((DOMAIN u \cup DOMAIN v \cup DOMAIN w) \cup DOMAIN t)
                 \cup (DOMAIN d \cup DOMAIN e))
    BY <1>6, <1>9, <1>10, FitsJoined
  <1>. QED
    BY <1>3, <1>4, <1>11 DEF Fits, ModemFields

(* The fields of the errata.  RegHighBwOptimize2 is written only where the    *)
(* optimisation is on.                                                       *)
ErrataFields == {"detect7", "ifFreq", "highBw1", "highBw2"}
ErrataWritten(c) == {"detect7", "ifFreq", "highBw1"}
                      \cup (IF Optimised(c) THEN {"highBw2"} ELSE {})

LEMMA FitsErrata ==
  ASSUME NEW c
  PROVE  Fits(ApplyErrata(c.bw, c.frequency), c, ErrataWritten(c))
  <1>. DEFINE v == [detect7 |-> ErrataBit(c)]
              w == [ifFreq |-> IfFreq(c.bw)]
              x == [highBw1 |-> 2]
              y == [highBw2 |-> 100]
              z == [highBw1 |-> 3]
              b == IF Optimised(c) THEN <<x, y>> ELSE <<z>>
              B == {"highBw1"} \cup (IF Optimised(c) THEN {"highBw2"} ELSE {})
  <1>0. ErrataSays(Values(c), c)
    BY ValuesErrata
  <1>1. Obeys(v, c) /\ Obeys(w, c)
    <2>1. v["detect7"] \in Values(c)["detect7"] /\ w["ifFreq"] \in Values(c)["ifFreq"]
      <3>1. v["detect7"] = ErrataBit(c) /\ w["ifFreq"] = IfFreq(c.bw)
        OBVIOUS
      <3>2. ErrataBit(c) \in Values(c).detect7 /\ Values(c).ifFreq = {IfFreq(c.bw)}
        BY <1>0, Zenon DEF ErrataSays
      <3>. HIDE DEF v, w
      <3>. QED
        BY <3>1, <3>2
    <2>2. DOMAIN v = {"detect7"} /\ DOMAIN w = {"ifFreq"}
      OBVIOUS
    <2>. HIDE DEF v, w
    <2>. QED
      BY <2>1, <2>2 DEF Obeys
  <1>2. /\ Optimised(c) => Obeys(x, c) /\ Obeys(y, c)
        /\ ~Optimised(c) => Obeys(z, c)
    <2>1. Values(c)["highBw1"] = HighBw1(c) /\ Values(c)["highBw2"] = HighBw2(c)
      BY <1>0 DEF ErrataSays
    <2>. QED
      BY <2>1 DEF Obeys, HighBw1, HighBw2
  <1>3. /\ DOMAIN v \cup DOMAIN w = {"detect7", "ifFreq"}
        /\ DOMAIN x \cup DOMAIN y = {"highBw1", "highBw2"} /\ DOMAIN z = {"highBw1"}
    OBVIOUS
  <1>4. ApplyErrata(c.bw, c.frequency) = b \o <<v, w>>
    BY DEF ApplyErrata, ErrataBit, Optimised
  <1>. HIDE DEF v, w, x, y, z
  <1>5. Fits(b, c, B)
    <2>1. CASE Optimised(c)
      <3>1. Fits(<<x, y>>, c, DOMAIN x \cup DOMAIN y)
        BY <1>2, <2>1, FitsTwo
      <3>2. B = DOMAIN x \cup DOMAIN y
        BY <1>3, <2>1
      <3>. QED
        BY <2>1, <3>1, <3>2
    <2>2. CASE ~Optimised(c)
      <3>1. Fits(<<z>>, c, DOMAIN z)
        BY <1>2, <2>2, FitsOne
      <3>2. B = DOMAIN z
        BY <1>3, <2>2
      <3>. QED
        BY <2>2, <3>1, <3>2
    <2>. QED
      BY <2>1, <2>2
  <1>6. Fits(<<v, w>>, c, {"detect7", "ifFreq"})
    BY <1>1, <1>3, FitsTwo
  <1>7. B \cup {"detect7", "ifFreq"} = ErrataWritten(c)
    BY DEF ErrataWritten
  <1>. HIDE DEF b, B
  <1>8. Fits(b \o <<v, w>>, c, B \cup {"detect7", "ifFreq"})
    BY <1>5, <1>6, FitsJoined
  <1>. QED
    BY <1>4, <1>7, <1>8

(* Fewer fields *)
LEMMA FitsFewer ==
  ASSUME NEW c, NEW p, NEW F, Fits(p, c, F), NEW G \in SUBSET F
  PROVE  Fits(p, c, G)
  BY DEF Fits

FrequencyFields == {"frMsb", "frMid", "frLsb"}
PowerFields == {"pa", "out", "dacHigh", "ocpTrim"}
SessionFields == {"preMsb", "preLsb", "sync", "iq", "iq2", "cr", "implicit", "crc",
                  "symbMsb", "symbLsb", "boost", "tcxo", "txBase", "rxBase"}

LEMMA FitsRest ==
  ASSUME NEW c
  PROVE  /\ Fits(<<[tcxo |-> c.tcxo]>>, c, {"tcxo"})
         /\ Fits(<<[sync |-> c.sync % 256], [preMsb |-> c.preamble \div 256],
                   [preLsb |-> c.preamble % 256]>>, c, {"sync", "preMsb", "preLsb"})
         /\ Fits(<<[lna |-> 1, boost |-> c.lnaBoost], [iq |-> c.iq], [iq2 |-> c.iq]>>,
                 c, {"boost", "iq", "iq2"})
         /\ Fits(<<[txBase |-> 0], [rxBase |-> 128]>>, c, {"txBase", "rxBase"})
  <1>1. Fits(<<[tcxo |-> c.tcxo]>>, c, {"tcxo"})
    <2>. DEFINE w == [tcxo |-> c.tcxo]
    <2>1. Obeys(w, c) /\ DOMAIN w = {"tcxo"}
      BY ValuesSession DEF Obeys, Known, SessionSays
    <2>. HIDE DEF w
    <2>2. Fits(<<w>>, c, {"tcxo"})
      BY <2>1, FitsOne
    <2>. QED
      BY <2>2 DEF w
  <1>2. Fits(<<[sync |-> c.sync % 256], [preMsb |-> c.preamble \div 256],
               [preLsb |-> c.preamble % 256]>>, c, {"sync", "preMsb", "preLsb"})
    <2>. DEFINE u == [sync |-> c.sync % 256]
                v == [preMsb |-> c.preamble \div 256]
                w == [preLsb |-> c.preamble % 256]
    <2>1. Obeys(u, c) /\ Obeys(v, c) /\ Obeys(w, c)
      BY ValuesSession DEF Obeys, Known, SessionSays
    <2>2. DOMAIN u \cup DOMAIN v \cup DOMAIN w = {"sync", "preMsb", "preLsb"}
      OBVIOUS
    <2>. HIDE DEF u, v, w
    <2>3. Fits(<<u, v, w>>, c, {"sync", "preMsb", "preLsb"})
      BY <2>1, <2>2, FitsThree
    <2>. QED
      BY <2>3 DEF u, v, w
  <1>3. Fits(<<[lna |-> 1, boost |-> c.lnaBoost], [iq |-> c.iq], [iq2 |-> c.iq]>>,
             c, {"boost", "iq", "iq2"})
    <2>. DEFINE u == [lna |-> 1, boost |-> c.lnaBoost]
                v == [iq |-> c.iq]
                w == [iq2 |-> c.iq]
    <2>1. Obeys(u, c) /\ Obeys(v, c) /\ Obeys(w, c)
      BY ValuesSession DEF Obeys, Known, SessionSays
    <2>2. {"boost", "iq", "iq2"} \subseteq DOMAIN u \cup DOMAIN v \cup DOMAIN w
      OBVIOUS
    <2>. HIDE DEF u, v, w
    <2>3. Fits(<<u, v, w>>, c, DOMAIN u \cup DOMAIN v \cup DOMAIN w)
      BY <2>1, FitsThree
    <2>4. Fits(<<u, v, w>>, c, {"boost", "iq", "iq2"})
      BY <2>2, <2>3, FitsFewer
    <2>. QED
      BY <2>4 DEF u, v, w
  <1>4. Fits(<<[txBase |-> 0], [rxBase |-> 128]>>, c, {"txBase", "rxBase"})
    <2>. DEFINE v == [txBase |-> 0]
                w == [rxBase |-> 128]
    <2>1. Obeys(v, c) /\ Obeys(w, c)
      BY ValuesSession DEF Obeys, Known, SessionSays
    <2>2. DOMAIN v \cup DOMAIN w = {"txBase", "rxBase"}
      OBVIOUS
    <2>. HIDE DEF v, w
    <2>3. Fits(<<v, w>>, c, {"txBase", "rxBase"})
      BY <2>1, <2>2, FitsTwo
    <2>. QED
      BY <2>3 DEF v, w
  <1>. QED
    BY <1>1, <1>2, <1>3, <1>4

LEMMA FitsCalibrate == ASSUME NEW c, NEW frf PROVE Fits(Calibrate(frf), c, {})
  <1>. DEFINE w == [calibrated |-> frf]
  <1>1. Obeys(w, c) /\ Calibrate(frf) = <<w>>
    BY DEF Obeys, Known, Calibrate
  <1>. HIDE DEF w
  <1>2. Fits(Calibrate(frf), c, DOMAIN w)
    BY <1>1, FitsOne
  <1>. QED
    BY <1>2, FitsFewer

(* begin() writes every field that depends on the configuration. *)
LEMMA FitsInitSequence ==
  ASSUME NEW c, NEW frf
  PROVE  Fits(InitSequence(c, frf), c,
              FrequencyFields \cup PowerFields \cup ModemFields \cup ErrataWritten(c)
                \cup SessionFields)
  <1>. DEFINE a == <<[tcxo |-> c.tcxo]>>
              s == <<[sync |-> c.sync % 256], [preMsb |-> c.preamble \div 256],
                     [preLsb |-> c.preamble % 256]>>
              l == <<[lna |-> 1, boost |-> c.lnaBoost], [iq |-> c.iq], [iq2 |-> c.iq]>>
              b == <<[txBase |-> 0], [rxBase |-> 128]>>
              k == IF c.skipCal THEN <<>> ELSE Calibrate(frf)
              p1 == a \o Mode("FskSleep") \o k \o Mode("Sleep")
              p2 == p1 \o ApplyFrequency(c.frequency)
              p3 == p2 \o ApplyTxPower(c.power, c.pa)
              p4 == p3 \o ApplyOcp(c.ocp)
              p5 == p4 \o ApplyModem(c)
              p6 == p5 \o s \o l
              p7 == p6 \o ApplyErrata(c.bw, c.frequency)
              p8 == p7 \o b \o Mode("Standby")
  <1>0. InitSequence(c, frf) = p8
    BY DEF InitSequence
  <1>1. /\ Fits(a, c, {"tcxo"}) /\ Fits(s, c, {"sync", "preMsb", "preLsb"})
        /\ Fits(l, c, {"boost", "iq", "iq2"}) /\ Fits(b, c, {"txBase", "rxBase"})
    BY FitsRest
  <1>2. /\ Fits(Mode("FskSleep"), c, {"mode"}) /\ Fits(Mode("Sleep"), c, {"mode"})
        /\ Fits(Mode("Standby"), c, {"mode"})
    BY FitsMode DEF Modes
  <1>3. Fits(k, c, {})
    BY FitsNothing, FitsCalibrate
  <1>4. Fits(ApplyOcp(c.ocp), c, {"ocpTrim"})
    <2>1. OcpTrim(c.ocp) \in Values(c).ocpTrim
      BY ValuesPower DEF PowerSays
    <2>. QED
      BY <2>1, FitsOcp
  <1>. HIDE DEF a, s, l, b, k
  <1>5. Fits(p1, c, {"tcxo"} \cup {"mode"} \cup {} \cup {"mode"})
    BY <1>1, <1>2, <1>3, FitsJoined
  <1>. HIDE DEF p1
  <1>6. Fits(p1, c, {"tcxo"})
    BY <1>5, FitsFewer
  <1>7. Fits(p2, c, {"tcxo"} \cup FrequencyFields)
    BY <1>6, FitsFrequency, FitsJoined DEF FrequencyFields
  <1>. HIDE DEF p2
  <1>8. Fits(p3, c, ({"tcxo"} \cup FrequencyFields) \cup {"pa", "out", "dacHigh"})
    BY <1>7, FitsTxPower, FitsJoined
  <1>. HIDE DEF p3
  <1>9. Fits(p4, c, (({"tcxo"} \cup FrequencyFields) \cup {"pa", "out", "dacHigh"})
                     \cup {"ocpTrim"})
    BY <1>4, <1>8, FitsJoined
  <1>. DEFINE F4 == {"tcxo"} \cup FrequencyFields \cup PowerFields
  <1>10. Fits(p4, c, F4)
    BY <1>9, FitsFewer DEF PowerFields
  <1>. HIDE DEF p4, F4
  <1>11. Fits(p5, c, F4 \cup ModemFields)
    BY <1>10, FitsModem, FitsJoined
  <1>. HIDE DEF p5
  <1>12. Fits(p6, c, ((F4 \cup ModemFields) \cup {"sync", "preMsb", "preLsb"})
                      \cup {"boost", "iq", "iq2"})
    BY <1>1, <1>11, FitsJoined
  <1>. HIDE DEF p6
  <1>13. Fits(p7, c, (((F4 \cup ModemFields) \cup {"sync", "preMsb", "preLsb"})
                      \cup {"boost", "iq", "iq2"}) \cup ErrataWritten(c))
    BY <1>12, FitsErrata, FitsJoined
  <1>. HIDE DEF p7
  <1>14. Fits(p8, c, (((((F4 \cup ModemFields) \cup {"sync", "preMsb", "preLsb"})
                      \cup {"boost", "iq", "iq2"}) \cup ErrataWritten(c))
                      \cup {"txBase", "rxBase"}) \cup {"mode"})
    BY <1>1, <1>2, <1>13, FitsJoined
  <1>. HIDE DEF p8
  <1>. QED
    BY <1>0, <1>14, FitsFewer DEF F4, SessionFields, ModemFields

---------------------------------------------------------------------------
(* Types                                                                     *)

Typed(c) == c \in LoRaConfigs /\ c.sf \in 6 .. 12 /\ c.ocp \in 45 .. 240

RegTypes(r) == /\ r.mode \in Modes /\ r.bw \in Allowed /\ r.sf \in 6 .. 12
               /\ {r.frMsb, r.frMid, r.frLsb} \subseteq 0 .. 255
               /\ r.out \in 0 .. 15 /\ r.ocpTrim \in 0 .. 31 /\ r.highBw2 \in {0, 100}
               /\ DOMAIN r = DOMAIN PowerOn

TypeInv == /\ Typed(cfg) /\ RegTypes(reg) /\ initialized \in BOOLEAN
           /\ faults \in 0 .. MaxFaults /\ dirty \subseteq Groups

LEMMA DefaultTyped == Typed(DefaultConfig)
  <1>1. DefaultConfig \in LoRaConfigs
    <2>1. /\ {9, 5, 100} \subseteq Byte /\ {8, 100, 18} \subseteq Word
          /\ {868000, kHz125} \subseteq Nat /\ 14 \in -128 .. 127 /\ 0 \in 0 .. 3
          /\ "SX1276" \in ChipModels /\ "PaBoost" \in PaOutputs
          /\ {TRUE, FALSE} \subseteq BOOLEAN
      BY DEF Byte, Word, ChipModels, PaOutputs, kHz125
    <2>. QED
      BY <2>1, SMTT(60) DEF DefaultConfig, LoRaConfigs
  <1>2. DefaultConfig.sf = 9 /\ DefaultConfig.ocp = 100
    BY DEF DefaultConfig
  <1>. QED
    BY <1>1, <1>2 DEF Typed

LEMMA ValidTyped == \A c \in Configs : Valid(c) => Typed(c)
  BY DEF Typed, Valid, LoRaConfigs, Byte

LEMMA PowerOnTyped == RegTypes(PowerOn)
  BY DEF RegTypes, PowerOn, Modes, Allowed, kHz125

LEMMA KnownInReg == Known \subseteq DOMAIN PowerOn
  BY DEF Known, PowerOn

LEMMA ValuesTyped ==
  ASSUME NEW c, Typed(c)
  PROVE  /\ Values(c).mode \subseteq Modes /\ Values(c).bw \subseteq Allowed
         /\ Values(c).sf \subseteq 6 .. 12
         /\ Values(c).frMsb \subseteq 0 .. 255 /\ Values(c).frMid \subseteq 0 .. 255
         /\ Values(c).frLsb \subseteq 0 .. 255
         /\ Values(c).out \subseteq 0 .. 15 /\ Values(c).ocpTrim \subseteq 0 .. 31
         /\ Values(c).highBw2 \subseteq {0, 100}
  <1>1. Values(c).mode \subseteq Modes
    BY ValuesMode
  <1>2. Values(c).bw \subseteq Allowed
    BY ValuesModem DEF BwCode, Allowed, kHz125, ModemSays
  <1>3. Values(c).sf \subseteq 6 .. 12
    BY ValuesModem DEF Typed, ModemSays
  <1>4. /\ Values(c).frMsb \subseteq 0 .. 255 /\ Values(c).frMid \subseteq 0 .. 255
        /\ Values(c).frLsb \subseteq 0 .. 255
    <2>1. c.frequency \in Nat
      BY DEF Typed, LoRaConfigs
    <2>2. Frf(c.frequency) \in Nat
      BY <2>1 DEF Frf
    <2>. DEFINE hi == Frf(c.frequency) \div 65536
                mid == Frf(c.frequency) \div 256
                lo == Frf(c.frequency)
    <2>3. hi \in Nat
      BY <2>2
    <2>4. mid \in Nat
      BY <2>2
    <2>5. /\ Values(c).frMsb = {hi % 256} /\ Values(c).frMid = {mid % 256}
          /\ Values(c).frLsb = {lo % 256}
      BY ValuesFrequency DEF FrequencySays
    <2>6. \A n \in Nat : n % 256 \in 0 .. 255
      OBVIOUS
    <2>. HIDE DEF hi, mid, lo
    <2>7. hi % 256 \in 0 .. 255 /\ mid % 256 \in 0 .. 255 /\ lo % 256 \in 0 .. 255
      BY <2>2, <2>3, <2>4, <2>6 DEF lo
    <2>. QED
      BY <2>5, <2>7
  <1>5. Values(c).out \subseteq 0 .. 15
    <2>1. c.power \in -128 .. 127 /\ c.pa \in PaOutputs
      BY DEF Typed, LoRaConfigs
    <2>2. OutputPower(c.power, c.pa) \in 0 .. 15
      BY <2>1 DEF OutputPower, Clamped
    <2>. QED
      BY <2>2, ValuesPower DEF PowerSays
  <1>6. Values(c).ocpTrim \subseteq 0 .. 31
    <2>1. \A ma \in 45 .. 240 : OcpTrim(ma) \in 0 .. 31
      BY DEF OcpTrim
    <2>2. c.ocp \in 45 .. 240 /\ 130 \in 45 .. 240
      BY DEF Typed
    <2>3. OcpTrim(c.ocp) \in 0 .. 31 /\ OcpTrim(130) \in 0 .. 31
      BY <2>1, <2>2
    <2>. QED
      BY <2>3, ValuesPower DEF PowerSays
  <1>7. Values(c).highBw2 \subseteq {0, 100}
    <2>1. Values(c).highBw2 = HighBw2(c)
      BY ValuesErrata DEF ErrataSays
    <2>. QED
      BY <2>1 DEF HighBw2
  <1>. QED
    BY <1>1, <1>2, <1>3, <1>4, <1>5, <1>6, <1>7

(* From r to s some fields that depend on c have been written.                *)
Leaves(r, s, c) == /\ DOMAIN s = DOMAIN r
                   /\ \A x \in Known : s[x] = r[x] \/ s[x] \in Values(c)[x]

LEMMA TypesLeft ==
  ASSUME NEW r, NEW s, NEW c, RegTypes(r), Typed(c), Leaves(r, s, c)
  PROVE  RegTypes(s)
  <1>1. {"mode", "bw", "sf", "frMsb", "frMid", "frLsb", "out", "ocpTrim", "highBw2"}
          \subseteq Known
    BY DEF Known
  <1>. QED
    BY <1>1, ValuesTyped DEF RegTypes, Leaves

LEMMA WrittenLeaves ==
  ASSUME NEW r, NEW c, NEW p, NEW F, Fits(p, c, F), RegTypes(r),
         NEW n \in 0 .. Len(p)
  PROVE  /\ Leaves(r, Written(r, p, n), c)
         /\ \A x \in F \cap Known : Written(r, p, Len(p))[x] \in Values(c)[x]
  <1>1. Known \subseteq DOMAIN r
    BY KnownInReg DEF RegTypes
  <1>2. /\ DOMAIN Written(r, p, n) = DOMAIN r
        /\ \A x \in DOMAIN r \cap Known :
             \/ Written(r, p, n)[x] = r[x]
             \/ Written(r, p, n)[x] \in Values(c)[x]
        /\ \A x \in DOMAIN r \cap Known \cap F :
             Written(r, p, Len(p))[x] \in Values(c)[x]
    BY WrittenFits
  <1>. QED
    BY <1>1, <1>2 DEF Leaves

(* Where the optimisation is off any value that RegHighBwOptimize2 ever had   *)
(* will do: the errata are all there when those that are written are.        *)
LEMMA ErrataAll ==
  ASSUME NEW r, NEW s, NEW c, RegTypes(r), Leaves(r, s, c),
         \A x \in ErrataWritten(c) : s[x] \in Values(c)[x]
  PROVE  \A x \in ErrataFields : s[x] \in Values(c)[x]
  <1>1. s["highBw2"] \in Values(c)["highBw2"]
    <2>1. CASE Optimised(c)
      BY <2>1 DEF ErrataWritten
    <2>2. CASE ~Optimised(c)
      <3>1. Values(c)["highBw2"] = {0, 100}
        BY <2>2, ValuesErrata DEF ErrataSays, HighBw2
      <3>2. r["highBw2"] \in {0, 100} /\ "highBw2" \in Known
        BY DEF RegTypes, Known
      <3>. QED
        BY <3>1, <3>2 DEF Leaves
    <2>. QED
      BY <2>1, <2>2
  <1>. QED
    BY <1>1 DEF ErrataFields, ErrataWritten

LEMMA LenFits == ASSUME NEW c, NEW p, NEW F, Fits(p, c, F) PROVE Len(p) \in Nat
  BY DEF Fits

---------------------------------------------------------------------------
(* What agrees with cfg_                                                     *)

Agree(X) == \A x \in X : reg[x] \in Values(cfg)[x]

(* The current limit is the user's or one that high power has asked for.      *)
OcpTrims(ma) == {OcpTrim(ma)} \cup (IF ma < 130 THEN {OcpTrim(130)} ELSE {})

ModemAgreed == {"sf", "bw", "ldro", "detect", "threshold"}

(* Two configurations on the same side of 525 MHz, for an application that    *)
(* stays there                                                               *)
SameBand(c, d) == StaysInBand => (HighBand(c.frequency) <=> HighBand(d.frequency))
InBand == StaysInBand => \A f \in Frequencies : HighBand(f) <=> HighBand(cfg.frequency)

(* A group agrees unless its last setter has failed; what no setter changes   *)
(* always does.                                                              *)
ProgInv == /\ Clean("frequency") => Agree(FrequencyFields)
           /\ Clean("power") => Agree(PowerFields)
           /\ Clean("modem") => Agree(ModemAgreed)
           /\ Clean("errata") => Agree(ErrataFields)
           /\ initialized => /\ Agree(SessionFields) /\ reg.ocpTrim \in OcpTrims(cfg.ocp)
                             /\ InBand

Inv == TypeInv /\ ProgInv

SameBut(c, d, X) == \A x \in Known \ X : Values(c)[x] = Values(d)[x]

LEMMA FieldsKnown ==
    /\ FrequencyFields \subseteq Known /\ PowerFields \subseteq Known
    /\ ModemAgreed \subseteq Known /\ ErrataFields \subseteq Known
    /\ SessionFields \subseteq Known /\ ModemAgreed \subseteq ModemFields
  BY DEF FrequencyFields, PowerFields, ModemAgreed, ErrataFields, SessionFields, Known,
         ModemFields

(* A group that c says the same of as cfg_ before and after agrees still.     *)
LEMMA AgreeKept ==
  ASSUME NEW c, NEW X, NEW Y, X \subseteq Known, X \cap Y = {}, Agree(X),
         Leaves(reg, reg', c), SameBut(c, cfg, Y), SameBut(c, cfg', Y)
  PROVE  Agree(X)'
  <1>. SUFFICES ASSUME NEW x \in X PROVE reg'[x] \in Values(cfg')[x]
    BY DEF Agree
  <1>1. Values(c)[x] = Values(cfg)[x] /\ Values(c)[x] = Values(cfg')[x]
    BY DEF SameBut
  <1>2. reg[x] \in Values(cfg)[x]
    BY DEF Agree
  <1>3. reg'[x] = reg[x] \/ reg'[x] \in Values(c)[x]
    BY DEF Leaves
  <1>. QED
    BY <1>1, <1>2, <1>3

LEMMA SameSame == \A c, X : SameBut(c, c, X)
  BY DEF SameBut

(* What the setters change of cfg_ *)
LEMMA SameButFrequency ==
  ASSUME NEW f, SameBand([cfg EXCEPT !.frequency = f], cfg)
  PROVE  SameBut([cfg EXCEPT !.frequency = f], cfg, FrequencyFields)
  <1>. DEFINE c == [cfg EXCEPT !.frequency = f]
  <1>a. SameBand(c, cfg)
    OBVIOUS
  <1>1. /\ c.power = cfg.power /\ c.pa = cfg.pa /\ c.ocp = cfg.ocp
        /\ c.bw = cfg.bw /\ c.cr = cfg.cr /\ c.implicit = cfg.implicit
        /\ c.sf = cfg.sf /\ c.crc = cfg.crc /\ c.symbols = cfg.symbols
        /\ c.ldroAuto = cfg.ldroAuto /\ c.sync = cfg.sync /\ c.preamble = cfg.preamble
        /\ c.lnaBoost = cfg.lnaBoost /\ c.iq = cfg.iq /\ c.tcxo = cfg.tcxo
    OBVIOUS
  <1>0. /\ FrequencySays(Values(c), c) /\ FrequencySays(Values(cfg), cfg)
        /\ PowerSays(Values(c), c) /\ PowerSays(Values(cfg), cfg)
        /\ ModemSays(Values(c), c) /\ ModemSays(Values(cfg), cfg)
        /\ ErrataSays(Values(c), c) /\ ErrataSays(Values(cfg), cfg)
        /\ SessionSays(Values(c), c) /\ SessionSays(Values(cfg), cfg)
    BY ValuesFrequency, ValuesPower, ValuesModem, ValuesErrata, ValuesSession
  <1>. HIDE DEF c
  <1>2. /\ Values(c).mode = Values(cfg).mode
    BY <1>1, ValuesMode
  <1>3. /\ Values(c).pa = Values(cfg).pa
        /\ Values(c).out = Values(cfg).out
        /\ Values(c).dacHigh = Values(cfg).dacHigh
        /\ Values(c).ocpTrim = Values(cfg).ocpTrim
    BY <1>0, <1>1 DEF PowerSays
  <1>4. /\ Values(c).bw = Values(cfg).bw
        /\ Values(c).cr = Values(cfg).cr
        /\ Values(c).implicit = Values(cfg).implicit
        /\ Values(c).sf = Values(cfg).sf
        /\ Values(c).crc = Values(cfg).crc
        /\ Values(c).symbMsb = Values(cfg).symbMsb
        /\ Values(c).symbLsb = Values(cfg).symbLsb
        /\ Values(c).ldro = Values(cfg).ldro
        /\ Values(c).detect = Values(cfg).detect
        /\ Values(c).threshold = Values(cfg).threshold
    BY <1>0, <1>1 DEF ModemSays, LdroBit
  <1>5. /\ Values(c).detect7 = Values(cfg).detect7
        /\ Values(c).ifFreq = Values(cfg).ifFreq
        /\ Values(c).highBw1 = Values(cfg).highBw1
        /\ Values(c).highBw2 = Values(cfg).highBw2
    <2>1. ErrataBit(c) = ErrataBit(cfg)
      BY <1>1 DEF ErrataBit
    <2>2. StaysInBand => (Optimised(c) <=> Optimised(cfg))
      BY <1>1, <1>a DEF Optimised, HighBandwidth, SameBand
    <2>3. HighBw1(c) = HighBw1(cfg) /\ HighBw2(c) = HighBw2(cfg)
      BY <2>2 DEF HighBw1, HighBw2
    <2>. QED
      BY <1>0, <1>1, <2>1, <2>3 DEF ErrataSays
  <1>6. /\ Values(c).sync = Values(cfg).sync
        /\ Values(c).preMsb = Values(cfg).preMsb
        /\ Values(c).preLsb = Values(cfg).preLsb
        /\ Values(c).boost = Values(cfg).boost
        /\ Values(c).iq = Values(cfg).iq
        /\ Values(c).iq2 = Values(cfg).iq2
        /\ Values(c).txBase = Values(cfg).txBase
        /\ Values(c).rxBase = Values(cfg).rxBase
        /\ Values(c).tcxo = Values(cfg).tcxo
    BY <1>0, <1>1 DEF SessionSays
  <1>. QED
    BY <1>2, <1>3, <1>4, <1>5, <1>6 DEF SameBut, Known, c, FrequencyFields

LEMMA SameButPower ==
  ASSUME NEW dbm, NEW pa
  PROVE  SameBut([cfg EXCEPT !.power = dbm, !.pa = pa], cfg, {"pa", "out", "dacHigh", "ocpTrim"})
  <1>. DEFINE c == [cfg EXCEPT !.power = dbm, !.pa = pa]
  <1>1. /\ c.frequency = cfg.frequency /\ c.ocp = cfg.ocp /\ c.bw = cfg.bw
        /\ c.cr = cfg.cr /\ c.implicit = cfg.implicit /\ c.sf = cfg.sf
        /\ c.crc = cfg.crc /\ c.symbols = cfg.symbols /\ c.ldroAuto = cfg.ldroAuto
        /\ c.sync = cfg.sync /\ c.preamble = cfg.preamble /\ c.lnaBoost = cfg.lnaBoost
        /\ c.iq = cfg.iq /\ c.tcxo = cfg.tcxo
    OBVIOUS
  <1>0. /\ FrequencySays(Values(c), c) /\ FrequencySays(Values(cfg), cfg)
        /\ PowerSays(Values(c), c) /\ PowerSays(Values(cfg), cfg)
        /\ ModemSays(Values(c), c) /\ ModemSays(Values(cfg), cfg)
        /\ ErrataSays(Values(c), c) /\ ErrataSays(Values(cfg), cfg)
        /\ SessionSays(Values(c), c) /\ SessionSays(Values(cfg), cfg)
    BY ValuesFrequency, ValuesPower, ValuesModem, ValuesErrata, ValuesSession
  <1>. HIDE DEF c
  <1>2. /\ Values(c).mode = Values(cfg).mode
    BY <1>1, ValuesMode
  <1>3. /\ Values(c).frMsb = Values(cfg).frMsb
        /\ Values(c).frMid = Values(cfg).frMid
        /\ Values(c).frLsb = Values(cfg).frLsb
    BY <1>0, <1>1 DEF FrequencySays
  <1>4. /\ Values(c).bw = Values(cfg).bw
        /\ Values(c).cr = Values(cfg).cr
        /\ Values(c).implicit = Values(cfg).implicit
        /\ Values(c).sf = Values(cfg).sf
        /\ Values(c).crc = Values(cfg).crc
        /\ Values(c).symbMsb = Values(cfg).symbMsb
        /\ Values(c).symbLsb = Values(cfg).symbLsb
        /\ Values(c).ldro = Values(cfg).ldro
        /\ Values(c).detect = Values(cfg).detect
        /\ Values(c).threshold = Values(cfg).threshold
    BY <1>0, <1>1 DEF ModemSays, LdroBit
  <1>5. /\ Values(c).detect7 = Values(cfg).detect7
        /\ Values(c).ifFreq = Values(cfg).ifFreq
        /\ Values(c).highBw1 = Values(cfg).highBw1
        /\ Values(c).highBw2 = Values(cfg).highBw2
    <2>1. ErrataBit(c) = ErrataBit(cfg)
      BY <1>1 DEF ErrataBit
    <2>2. Optimised(c) <=> Optimised(cfg)
      BY <1>1 DEF Optimised
    <2>3. HighBw1(c) = HighBw1(cfg) /\ HighBw2(c) = HighBw2(cfg)
      BY <2>2 DEF HighBw1, HighBw2
    <2>. QED
      BY <1>0, <1>1, <2>1, <2>3 DEF ErrataSays
  <1>6. /\ Values(c).sync = Values(cfg).sync
        /\ Values(c).preMsb = Values(cfg).preMsb
        /\ Values(c).preLsb = Values(cfg).preLsb
        /\ Values(c).boost = Values(cfg).boost
        /\ Values(c).iq = Values(cfg).iq
        /\ Values(c).iq2 = Values(cfg).iq2
        /\ Values(c).txBase = Values(cfg).txBase
        /\ Values(c).rxBase = Values(cfg).rxBase
        /\ Values(c).tcxo = Values(cfg).tcxo
    BY <1>0, <1>1 DEF SessionSays
  <1>. QED
    BY <1>2, <1>3, <1>4, <1>5, <1>6 DEF SameBut, Known, c

LEMMA SameButSf ==
  ASSUME NEW sf
  PROVE  SameBut([cfg EXCEPT !.sf = sf], cfg, ModemAgreed)
  <1>. DEFINE c == [cfg EXCEPT !.sf = sf]
  <1>1. /\ c.frequency = cfg.frequency /\ c.power = cfg.power /\ c.pa = cfg.pa
        /\ c.ocp = cfg.ocp /\ c.bw = cfg.bw /\ c.cr = cfg.cr
        /\ c.implicit = cfg.implicit /\ c.crc = cfg.crc /\ c.symbols = cfg.symbols
        /\ c.ldroAuto = cfg.ldroAuto /\ c.sync = cfg.sync /\ c.preamble = cfg.preamble
        /\ c.lnaBoost = cfg.lnaBoost /\ c.iq = cfg.iq /\ c.tcxo = cfg.tcxo
    OBVIOUS
  <1>0. /\ FrequencySays(Values(c), c) /\ FrequencySays(Values(cfg), cfg)
        /\ PowerSays(Values(c), c) /\ PowerSays(Values(cfg), cfg)
        /\ ModemSays(Values(c), c) /\ ModemSays(Values(cfg), cfg)
        /\ ErrataSays(Values(c), c) /\ ErrataSays(Values(cfg), cfg)
        /\ SessionSays(Values(c), c) /\ SessionSays(Values(cfg), cfg)
    BY ValuesFrequency, ValuesPower, ValuesModem, ValuesErrata, ValuesSession
  <1>. HIDE DEF c
  <1>2. /\ Values(c).mode = Values(cfg).mode
    BY <1>1, ValuesMode
  <1>3. /\ Values(c).frMsb = Values(cfg).frMsb
        /\ Values(c).frMid = Values(cfg).frMid
        /\ Values(c).frLsb = Values(cfg).frLsb
    BY <1>0, <1>1 DEF FrequencySays
  <1>4. /\ Values(c).pa = Values(cfg).pa
        /\ Values(c).out = Values(cfg).out
        /\ Values(c).dacHigh = Values(cfg).dacHigh
        /\ Values(c).ocpTrim = Values(cfg).ocpTrim
    BY <1>0, <1>1 DEF PowerSays
  <1>5. /\ Values(c).bw = Values(cfg).bw
        /\ Values(c).cr = Values(cfg).cr
        /\ Values(c).implicit = Values(cfg).implicit
        /\ Values(c).crc = Values(cfg).crc
        /\ Values(c).symbMsb = Values(cfg).symbMsb
        /\ Values(c).symbLsb = Values(cfg).symbLsb
    BY <1>0, <1>1 DEF ModemSays
  <1>6. /\ Values(c).detect7 = Values(cfg).detect7
        /\ Values(c).ifFreq = Values(cfg).ifFreq
        /\ Values(c).highBw1 = Values(cfg).highBw1
        /\ Values(c).highBw2 = Values(cfg).highBw2
    <2>1. ErrataBit(c) = ErrataBit(cfg)
      BY <1>1 DEF ErrataBit
    <2>2. Optimised(c) <=> Optimised(cfg)
      BY <1>1 DEF Optimised
    <2>3. HighBw1(c) = HighBw1(cfg) /\ HighBw2(c) = HighBw2(cfg)
      BY <2>2 DEF HighBw1, HighBw2
    <2>. QED
      BY <1>0, <1>1, <2>1, <2>3 DEF ErrataSays
  <1>7. /\ Values(c).sync = Values(cfg).sync
        /\ Values(c).preMsb = Values(cfg).preMsb
        /\ Values(c).preLsb = Values(cfg).preLsb
        /\ Values(c).boost = Values(cfg).boost
        /\ Values(c).iq = Values(cfg).iq
        /\ Values(c).iq2 = Values(cfg).iq2
        /\ Values(c).txBase = Values(cfg).txBase
        /\ Values(c).rxBase = Values(cfg).rxBase
        /\ Values(c).tcxo = Values(cfg).tcxo
    BY <1>0, <1>1 DEF SessionSays
  <1>. QED
    BY <1>2, <1>3, <1>4, <1>5, <1>6, <1>7 DEF SameBut, Known, c, ModemAgreed

LEMMA SameButBw ==
  ASSUME NEW bw
  PROVE  SameBut([cfg EXCEPT !.bw = bw], cfg, ModemAgreed \cup ErrataFields)
  <1>. DEFINE c == [cfg EXCEPT !.bw = bw]
  <1>1. /\ c.frequency = cfg.frequency /\ c.power = cfg.power /\ c.pa = cfg.pa
        /\ c.ocp = cfg.ocp /\ c.cr = cfg.cr /\ c.implicit = cfg.implicit
        /\ c.sf = cfg.sf /\ c.crc = cfg.crc /\ c.symbols = cfg.symbols
        /\ c.ldroAuto = cfg.ldroAuto /\ c.sync = cfg.sync /\ c.preamble = cfg.preamble
        /\ c.lnaBoost = cfg.lnaBoost /\ c.iq = cfg.iq /\ c.tcxo = cfg.tcxo
    OBVIOUS
  <1>0. /\ FrequencySays(Values(c), c) /\ FrequencySays(Values(cfg), cfg)
        /\ PowerSays(Values(c), c) /\ PowerSays(Values(cfg), cfg)
        /\ ModemSays(Values(c), c) /\ ModemSays(Values(cfg), cfg)
        /\ ErrataSays(Values(c), c) /\ ErrataSays(Values(cfg), cfg)
        /\ SessionSays(Values(c), c) /\ SessionSays(Values(cfg), cfg)
    BY ValuesFrequency, ValuesPower, ValuesModem, ValuesErrata, ValuesSession
  <1>. HIDE DEF c
  <1>2. /\ Values(c).mode = Values(cfg).mode
    BY <1>1, ValuesMode
  <1>3. /\ Values(c).frMsb = Values(cfg).frMsb
        /\ Values(c).frMid = Values(cfg).frMid
        /\ Values(c).frLsb = Values(cfg).frLsb
    BY <1>0, <1>1 DEF FrequencySays
  <1>4. /\ Values(c).pa = Values(cfg).pa
        /\ Values(c).out = Values(cfg).out
        /\ Values(c).dacHigh = Values(cfg).dacHigh
        /\ Values(c).ocpTrim = Values(cfg).ocpTrim
    BY <1>0, <1>1 DEF PowerSays
  <1>5. /\ Values(c).cr = Values(cfg).cr
        /\ Values(c).implicit = Values(cfg).implicit
        /\ Values(c).sf = Values(cfg).sf
        /\ Values(c).crc = Values(cfg).crc
        /\ Values(c).symbMsb = Values(cfg).symbMsb
        /\ Values(c).symbLsb = Values(cfg).symbLsb
        /\ Values(c).detect = Values(cfg).detect
        /\ Values(c).threshold = Values(cfg).threshold
    BY <1>0, <1>1 DEF ModemSays
  <1>6. /\ Values(c).sync = Values(cfg).sync
        /\ Values(c).preMsb = Values(cfg).preMsb
        /\ Values(c).preLsb = Values(cfg).preLsb
        /\ Values(c).boost = Values(cfg).boost
        /\ Values(c).iq = Values(cfg).iq
        /\ Values(c).iq2 = Values(cfg).iq2
        /\ Values(c).txBase = Values(cfg).txBase
        /\ Values(c).rxBase = Values(cfg).rxBase
        /\ Values(c).tcxo = Values(cfg).tcxo
    BY <1>0, <1>1 DEF SessionSays
  <1>. QED
    BY <1>2, <1>3, <1>4, <1>5, <1>6 DEF SameBut, Known, c, ModemAgreed, ErrataFields

LEMMA OcpTrimsHold == \A c : Values(c).ocpTrim \subseteq OcpTrims(c.ocp)
  BY ValuesPower DEF OcpTrims, PowerSays

(* A call that is no setter of X's group *)
LEMMA OcpKept ==
  ASSUME NEW c, reg.ocpTrim \in OcpTrims(cfg.ocp), Leaves(reg, reg', c),
         c.ocp = cfg.ocp, cfg'.ocp = cfg.ocp
  PROVE  reg'.ocpTrim \in OcpTrims(cfg'.ocp)
  <1>1. "ocpTrim" \in Known
    BY DEF Known
  <1>. QED
    BY <1>1, OcpTrimsHold DEF Leaves

---------------------------------------------------------------------------
(* Setters                                                                   *)

(* What running a program comes to *)
LEMMA RunsLeave ==
  ASSUME NEW c, NEW p, NEW F \in SUBSET Known, Fits(p, c, F), NEW G, TypeInv, Runs(p, G)
  PROVE  /\ Leaves(reg, reg', c) /\ faults' \in 0 .. MaxFaults
         /\ \/ dirty' = dirty \ G /\ \A x \in F : reg'[x] \in Values(c)[x]
            \/ dirty' = dirty \cup G
  <1>1. Len(p) \in Nat /\ RegTypes(reg) /\ faults \in 0 .. MaxFaults
    BY LenFits DEF TypeInv
  <1>2. \A n \in 0 .. Len(p) :
          /\ Leaves(reg, Written(reg, p, n), c)
          /\ \A x \in F \cap Known : Written(reg, p, Len(p))[x] \in Values(c)[x]
    BY <1>1, WrittenLeaves
  <1>3. CASE Done(p, G)
    <2>1. Len(p) \in 0 .. Len(p)
      BY <1>1
    <2>. QED
      BY <1>1, <1>2, <1>3, <2>1 DEF Done
  <1>4. ASSUME NEW n \in 0 .. Len(p), FailsAt(n, p, G)
        PROVE  /\ Leaves(reg, reg', c) /\ faults' \in 0 .. MaxFaults
               /\ dirty' = dirty \cup G
    BY <1>1, <1>2, <1>4 DEF FailsAt, Fault
  <1>. QED
    BY <1>3, <1>4 DEF Runs

(* A setter asks for c, which differs from cfg_ in the fields Y.  Executed     *)
(* whole it has made cfg_ c and its groups, G, clean; in part, it has left    *)
(* them dirty.                                                               *)
LEMMA SetterStep ==
  ASSUME Inv, initialized' = initialized, NEW c, Typed(c), c.ocp = cfg.ocp,
         NEW G \in SUBSET Groups, NEW F, NEW Y, SameBut(c, cfg, Y), SameBand(c, cfg),
         Leaves(reg, reg', c), faults' \in 0 .. MaxFaults,
         \/ dirty' = dirty \ G /\ cfg' = c /\ \A x \in F : reg'[x] \in Values(c)[x]
         \/ dirty' = dirty \cup G /\ cfg' \in {c, cfg},
         SessionFields \cap Y = {},
         IF "frequency" \in G THEN FrequencyFields \subseteq F
                              ELSE FrequencyFields \cap Y = {},
         IF "power" \in G
         THEN /\ {"pa", "out", "dacHigh"} \subseteq F
              /\ "ocpTrim" \in F \/ reg.ocpTrim \in Values(c).ocpTrim
         ELSE PowerFields \cap Y = {},
         IF "modem" \in G THEN ModemAgreed \subseteq F ELSE ModemAgreed \cap Y = {},
         IF "errata" \in G THEN ErrataFields \subseteq F ELSE ErrataFields \cap Y = {}
  PROVE  Inv'
  <1>1. TypeInv'
    <2>1. RegTypes(reg') /\ Typed(cfg')
      BY TypesLeft DEF Inv, TypeInv
    <2>. QED
      BY <2>1 DEF Inv, TypeInv
  <1>2. cfg' \in {c, cfg} /\ SameBut(c, cfg', Y)
    BY SameSame
  <1>3. ASSUME NEW X \in SUBSET Known, X \cap Y = {}, Agree(X)
        PROVE  Agree(X)'
    BY <1>2, <1>3, AgreeKept
  <1>4. ASSUME NEW g \in Groups, Clean(g)'
        PROVE  /\ initialized
               /\ g \notin G => Clean(g)
               /\ g \in G => cfg' = c /\ \A x \in F : reg'[x] \in Values(c)[x]
    BY <1>4 DEF Clean
  <1>5. ASSUME NEW g \in Groups, Clean(g)', g \in G, NEW X, X \subseteq F
        PROVE  Agree(X)'
    BY <1>4, <1>5 DEF Agree
  <1>6. Clean("frequency")' => Agree(FrequencyFields)'
    <2>1. CASE "frequency" \in G
      BY <1>5, <2>1 DEF Groups
    <2>2. CASE "frequency" \notin G
      BY <1>3, <1>4, <2>2, FieldsKnown DEF Inv, ProgInv, Groups
    <2>. QED
      BY <2>1, <2>2
  <1>7. Clean("modem")' => Agree(ModemAgreed)'
    <2>1. CASE "modem" \in G
      BY <1>5, <2>1 DEF Groups
    <2>2. CASE "modem" \notin G
      BY <1>3, <1>4, <2>2, FieldsKnown DEF Inv, ProgInv, Groups
    <2>. QED
      BY <2>1, <2>2
  <1>8. Clean("errata")' => Agree(ErrataFields)'
    <2>1. CASE "errata" \in G
      BY <1>5, <2>1 DEF Groups
    <2>2. CASE "errata" \notin G
      BY <1>3, <1>4, <2>2, FieldsKnown DEF Inv, ProgInv, Groups
    <2>. QED
      BY <2>1, <2>2
  <1>9. Clean("power")' => Agree(PowerFields)'
    <2>1. CASE "power" \in G
      <3>. SUFFICES ASSUME Clean("power")' PROVE Agree(PowerFields)'
        OBVIOUS
      <3>1. initialized /\ cfg' = c /\ \A x \in F : reg'[x] \in Values(c)[x]
        BY <1>4, <2>1 DEF Groups
      <3>2. reg'["ocpTrim"] \in Values(c)["ocpTrim"]
        <4>1. "ocpTrim" \in Known
          BY DEF Known
        <4>2. CASE "ocpTrim" \in F
          BY <3>1, <4>2
        <4>3. CASE reg["ocpTrim"] \in Values(c)["ocpTrim"]
          BY <4>1, <4>3 DEF Leaves
        <4>. QED
          BY <2>1, <3>1, <4>2, <4>3
      <3>3. \A x \in {"pa", "out", "dacHigh"} : reg'[x] \in Values(c)[x]
        BY <2>1, <3>1
      <3>. QED
        BY <3>1, <3>2, <3>3 DEF Agree, PowerFields
    <2>2. CASE "power" \notin G
      BY <1>3, <1>4, <2>2, FieldsKnown DEF Inv, ProgInv, Groups
    <2>. QED
      BY <2>1, <2>2
  <1>10. initialized' => Agree(SessionFields)'
    BY <1>3, FieldsKnown DEF Inv, ProgInv
  <1>11. initialized' => reg'.ocpTrim \in OcpTrims(cfg'.ocp)
    <2>1. cfg'.ocp = cfg.ocp
      BY <1>2
    <2>. QED
      BY <2>1, OcpKept DEF Inv, ProgInv
  <1>12. initialized' => InBand'
    <2>1. initialized' => InBand
      BY DEF Inv, ProgInv
    <2>. QED
      BY <1>2, <2>1 DEF InBand, SameBand
  <1>. QED
    BY <1>1, <1>6, <1>7, <1>8, <1>9, <1>10, <1>11, <1>12 DEF Inv, ProgInv

(* A call that changes nothing that depends on cfg_ *)
LEMMA NoSetterStep ==
  ASSUME Inv, initialized' = initialized, cfg' = cfg, dirty' = dirty,
         Leaves(reg, reg', cfg), faults' \in 0 .. MaxFaults
  PROVE  Inv'
  <1>. DEFINE N == {}
  <1>1. Typed(cfg) /\ SameBut(cfg, cfg, N) /\ SameBand(cfg, cfg)
    BY SameSame DEF Inv, TypeInv, SameBand
  <1>2. /\ SessionFields \cap N = {} /\ FrequencyFields \cap N = {}
        /\ PowerFields \cap N = {} /\ ModemAgreed \cap N = {}
        /\ ErrataFields \cap N = {} /\ N \subseteq Groups
        /\ dirty' = dirty \cup N
    OBVIOUS
  <1>3. "frequency" \notin N /\ "power" \notin N /\ "modem" \notin N /\ "errata" \notin N
    OBVIOUS
  <1>. HIDE DEF N
  <1>. QED
    BY <1>1, <1>2, <1>3, SetterStep

LEMMA PlainStep == ASSUME Inv, NEW p, Fits(p, cfg, {}), Plain(p) PROVE Inv'
  <1>1. /\ Leaves(reg, reg', cfg) /\ faults' \in 0 .. MaxFaults
        /\ dirty' = dirty \/ dirty' = dirty \cup {}
        /\ cfg' = cfg /\ initialized' = initialized
    <2>1. Runs(p, {}) /\ TypeInv /\ {} \subseteq Known
      BY DEF Plain, Inv
    <2>2. /\ Leaves(reg, reg', cfg) /\ faults' \in 0 .. MaxFaults
          /\ dirty' = dirty \ {} \/ dirty' = dirty \cup {}
      BY <2>1, RunsLeave
    <2>. QED
      BY <2>2 DEF Plain
  <1>. QED
    BY <1>1, NoSetterStep

LEMMA LnaStep == ASSUME Inv, NEW gain, SetLnaGain(gain) PROVE Inv'
  <1>. DEFINE u == [agc |-> TRUE]
              v == [agc |-> FALSE]
              w == [lna |-> gain, boost |-> cfg.lnaBoost]
  <1>1. Obeys(u, cfg) /\ Obeys(v, cfg)
    BY DEF Obeys, Known
  <1>2. Obeys(w, cfg)
    <2>1. SessionSays(Values(cfg), cfg)
      BY ValuesSession
    <2>. QED
      BY <2>1 DEF Obeys, Known, SessionSays
  <1>3. SetLnaGain(gain) <=> Plain(IF gain = 0 THEN <<u>> ELSE <<v, w>>)
    BY DEF SetLnaGain
  <1>. HIDE DEF u, v, w
  <1>4. Fits(<<u>>, cfg, DOMAIN u) /\ Fits(<<v, w>>, cfg, DOMAIN v \cup DOMAIN w)
    BY <1>1, <1>2, FitsOne, FitsTwo
  <1>5. Fits(<<u>>, cfg, {}) /\ Fits(<<v, w>>, cfg, {})
    BY <1>4, FitsFewer
  <1>. QED
    BY <1>3, <1>5, PlainStep

LEMMA OcpEnabledStep == ASSUME Inv, NEW enabled, SetOcpEnabled(enabled) PROVE Inv'
  <1>. DEFINE w == [ocpOn |-> enabled]
  <1>1. Obeys(w, cfg)
    BY DEF Obeys, Known
  <1>2. Plain(<<w>>)
    BY DEF SetOcpEnabled
  <1>. HIDE DEF w
  <1>3. Fits(<<w>>, cfg, {})
    BY <1>1, FitsOne, FitsFewer
  <1>. QED
    BY <1>2, <1>3, PlainStep

LEMMA FitsModes ==
  ASSUME NEW c, NEW m \in Modes
  PROVE  Fits(Mode(m), c, {})
  BY FitsMode, FitsFewer

LEMMA ModeStep ==
  ASSUME Inv, StartContinuousWave \/ SetStandby \/ SetSleep \/ StartTransmit
  PROVE  Inv'
  <1>1. /\ Fits(Mode("Tx"), cfg, {}) /\ Fits(Mode("Standby"), cfg, {})
        /\ Fits(Mode("Sleep"), cfg, {})
    BY FitsModes DEF Modes
  <1>2. CASE SetStandby
    BY <1>1, <1>2, PlainStep DEF SetStandby
  <1>3. CASE SetSleep
    BY <1>1, <1>3, PlainStep DEF SetSleep
  <1>4. CASE StartTransmit
    <2>1. Fits(Mode("Standby") \o Mode("Tx"), cfg, {} \cup {})
      BY <1>1, FitsJoined
    <2>2. Fits(Mode("Standby") \o Mode("Tx"), cfg, {})
      BY <2>1, FitsFewer
    <2>. QED
      BY <1>4, <2>2, PlainStep DEF StartTransmit
  <1>5. CASE StartContinuousWave
    <2>. DEFINE w == [txCont |-> TRUE]
    <2>1. Obeys(w, cfg)
      BY DEF Obeys, Known
    <2>2. Plain(<<w>> \o Mode("Tx"))
      BY <1>5 DEF StartContinuousWave
    <2>. HIDE DEF w
    <2>3. Fits(<<w>>, cfg, {})
      BY <2>1, FitsOne, FitsFewer
    <2>4. Fits(<<w>> \o Mode("Tx"), cfg, {} \cup {})
      BY <1>1, <2>3, FitsJoined
    <2>5. Fits(<<w>> \o Mode("Tx"), cfg, {})
      BY <2>4, FitsFewer
    <2>. QED
      BY <2>2, <2>5, PlainStep
  <1>. QED
    BY <1>2, <1>3, <1>4, <1>5

LEMMA ChipStep == ASSUME Inv, ChipTxDone PROVE Inv'
  <1>1. /\ reg' = [reg EXCEPT !.mode = "Standby"]
        /\ UNCHANGED <<cfg, initialized, faults, dirty>>
    BY DEF ChipTxDone
  <1>2. "mode" \in DOMAIN reg /\ Known \subseteq DOMAIN reg
    BY KnownInReg DEF Inv, TypeInv, RegTypes, Known
  <1>3. Leaves(reg, reg', cfg)
    <2>1. DOMAIN reg' = DOMAIN reg
      BY <1>1
    <2>2. ASSUME NEW x \in Known PROVE reg'[x] = reg[x] \/ reg'[x] \in Values(cfg)[x]
      <3>1. CASE x = "mode"
        BY <1>1, <1>2, <3>1, ValuesMode DEF Modes
      <3>2. CASE x # "mode"
        BY <1>1, <1>2, <3>2
      <3>. QED
        BY <3>1, <3>2
    <2>. QED
      BY <2>1, <2>2 DEF Leaves
  <1>4. faults' \in 0 .. MaxFaults
    BY <1>1 DEF Inv, TypeInv
  <1>. QED
    BY <1>1, <1>3, <1>4, NoSetterStep

LEMMA SfStep ==
  ASSUME Inv, NEW sf \in SpreadingFactors, SetSpreadingFactor(sf)
  PROVE  Inv'
  <1>. DEFINE c == [cfg EXCEPT !.sf = sf]
  <1>1. Typed(cfg) /\ TypeInv /\ sf \in 6 .. 12 /\ sf \in Byte
    BY DEF Inv, TypeInv, SetSpreadingFactor
  <1>2. c \in LoRaConfigs
    BY <1>1 DEF Typed, LoRaConfigs
  <1>3. c.sf = sf /\ c.ocp = cfg.ocp /\ c.frequency = cfg.frequency
    BY <1>1 DEF Typed, LoRaConfigs
  <1>4. Typed(c)
    BY <1>1, <1>2, <1>3 DEF Typed
  <1>5. SameBut(c, cfg, ModemAgreed)
    BY SameButSf
  <1>6. cfg' = c /\ initialized' = initialized /\ Runs(ApplyModem(c), {"modem"})
    BY DEF SetSpreadingFactor
  <1>. HIDE DEF c
  <1>7. Fits(ApplyModem(c), c, ModemFields) /\ ModemFields \subseteq Known
    BY FitsModem DEF ModemFields, Known
  <1>8. /\ Leaves(reg, reg', c) /\ faults' \in 0 .. MaxFaults
        /\ \/ dirty' = dirty \ {"modem"} /\ \A x \in ModemFields : reg'[x] \in Values(c)[x]
           \/ dirty' = dirty \cup {"modem"}
    BY <1>1, <1>6, <1>7, RunsLeave
  <1>9. /\ SessionFields \cap ModemAgreed = {} /\ FrequencyFields \cap ModemAgreed = {}
        /\ PowerFields \cap ModemAgreed = {} /\ ErrataFields \cap ModemAgreed = {}
        /\ ModemAgreed \subseteq ModemFields
    BY DEF SessionFields, FrequencyFields, PowerFields, ErrataFields, ModemAgreed,
           ModemFields
  <1>10. {"modem"} \subseteq Groups
    BY DEF Groups
  <1>11. SameBand(c, cfg)
    BY <1>3 DEF SameBand
  <1>. QED
    BY <1>3, <1>4, <1>5, <1>6, <1>8, <1>9, <1>10, <1>11, SetterStep

LEMMA BwStep ==
  ASSUME Inv, NEW bw \in Bandwidths, SetBandwidth(bw)
  PROVE  Inv'
  <1>. DEFINE c == [cfg EXCEPT !.bw = bw]
              G == {"modem", "errata"}
              W == ModemFields \cup ErrataWritten(c)
              F == ModemFields \cup ErrataFields
              Y == ModemAgreed \cup ErrataFields
              p == ApplyModem(c) \o ApplyErrata(c.bw, c.frequency)
  <1>1. Typed(cfg) /\ TypeInv /\ bw \in Nat
    BY DEF Inv, TypeInv
  <1>2. c \in LoRaConfigs
    BY <1>1 DEF Typed, LoRaConfigs
  <1>3. c.bw = bw /\ c.sf = cfg.sf /\ c.ocp = cfg.ocp /\ c.frequency = cfg.frequency
    BY <1>1 DEF Typed, LoRaConfigs
  <1>4. Typed(c)
    BY <1>1, <1>2, <1>3 DEF Typed
  <1>5. SameBut(c, cfg, Y)
    BY SameButBw
  <1>6. cfg' = c /\ initialized' = initialized /\ Runs(p, G)
    BY <1>3 DEF SetBandwidth
  <1>. HIDE DEF c
  <1>7. Fits(p, c, W) /\ W \subseteq Known
    BY FitsModem, FitsErrata, FitsJoined DEF ModemFields, ErrataWritten, Known
  <1>. HIDE DEF p
  <1>8. /\ Leaves(reg, reg', c) /\ faults' \in 0 .. MaxFaults
        /\ \/ dirty' = dirty \ G /\ \A x \in F : reg'[x] \in Values(c)[x]
           \/ dirty' = dirty \cup G
    <2>. HIDE DEF W, G
    <2>1. /\ Leaves(reg, reg', c) /\ faults' \in 0 .. MaxFaults
          /\ \/ dirty' = dirty \ G /\ \A x \in W : reg'[x] \in Values(c)[x]
             \/ dirty' = dirty \cup G
      BY <1>1, <1>6, <1>7, RunsLeave
    <2>2. (\A x \in W : reg'[x] \in Values(c)[x])
            => \A x \in ErrataFields : reg'[x] \in Values(c)[x]
      BY <1>1, <2>1, ErrataAll DEF W, TypeInv
    <2>3. (\A x \in W : reg'[x] \in Values(c)[x])
            => \A x \in F : reg'[x] \in Values(c)[x]
      BY <2>2 DEF W
    <2>. QED
      BY <2>1, <2>3
  <1>9. /\ SessionFields \cap Y = {} /\ FrequencyFields \cap Y = {}
        /\ PowerFields \cap Y = {} /\ ErrataFields \subseteq F
        /\ ModemAgreed \subseteq F
    BY DEF SessionFields, FrequencyFields, PowerFields, ErrataFields, ModemAgreed,
           ModemFields
  <1>10. /\ G \subseteq Groups /\ "modem" \in G /\ "errata" \in G
         /\ "frequency" \notin G /\ "power" \notin G
    BY DEF Groups
  <1>11. SameBand(c, cfg)
    BY <1>3 DEF SameBand
  <1>. HIDE DEF G, F, Y
  <1>. QED
    BY <1>3, <1>4, <1>5, <1>6, <1>8, <1>9, <1>10, <1>11, SetterStep

LEMMA PowerStep ==
  ASSUME Inv, NEW dbm \in Powers, NEW pa \in PaOutputs, SetTxPower(dbm, pa)
  PROVE  Inv'
  <1>. DEFINE c == [cfg EXCEPT !.power = dbm, !.pa = pa]
              Y == {"pa", "out", "dacHigh", "ocpTrim"}
              A == {"pa", "out", "dacHigh"}
              G == {"power"}
              p == ApplyTxPower(c.power, c.pa)
              q == IF ~HighPower(dbm, pa) THEN ApplyOcp(cfg.ocp)
                   ELSE IF cfg.ocp < 130 THEN ApplyOcp(130) ELSE <<>>
              F == IF ~HighPower(dbm, pa) \/ cfg.ocp < 130 THEN {"ocpTrim"} ELSE {}
  <1>1. Typed(cfg) /\ TypeInv /\ dbm \in -128 .. 127 /\ pa \in PaOutputs
    BY DEF Inv, TypeInv
  <1>2. c \in LoRaConfigs
    <2>. DEFINE d == [cfg EXCEPT !.power = dbm]
    <2>1. d \in LoRaConfigs
      BY <1>1 DEF Typed, LoRaConfigs
    <2>2. c = [d EXCEPT !.pa = pa]
      BY <1>1 DEF Typed, LoRaConfigs
    <2>. HIDE DEF d
    <2>3. [d EXCEPT !.pa = pa] \in LoRaConfigs
      BY <1>1, <2>1 DEF LoRaConfigs
    <2>. QED
      BY <2>2, <2>3
  <1>3. /\ c.power = dbm /\ c.pa = pa /\ c.sf = cfg.sf /\ c.ocp = cfg.ocp
        /\ c.frequency = cfg.frequency
    <2>0. cfg \in LoRaConfigs
      BY <1>1 DEF Typed
    <2>1. /\ "power" \in DOMAIN cfg /\ "pa" \in DOMAIN cfg
          /\ "sf" \in DOMAIN cfg /\ "ocp" \in DOMAIN cfg /\ "frequency" \in DOMAIN cfg
      BY <2>0 DEF LoRaConfigs
    <2>. QED
      BY <2>1
  <1>4. Typed(c)
    BY <1>1, <1>2, <1>3 DEF Typed
  <1>5. SameBut(c, cfg, Y)
    BY SameButPower
  <1>6. /\ initialized /\ cfg' = c /\ initialized' = initialized
        /\ Runs(p \o q, G)
    BY <1>3 DEF SetTxPower, TxPowerProgram
  <1>. HIDE DEF c
  <1>7. /\ OcpTrim(cfg.ocp) \in Values(c).ocpTrim
        /\ HighPower(dbm, pa) /\ cfg.ocp < 130 => OcpTrim(130) \in Values(c).ocpTrim
    <2>1. PowerSays(Values(c), c)
      BY ValuesPower
    <2>. QED
      BY <1>3, <2>1 DEF PowerSays
  <1>8. Fits(q, c, F)
    BY <1>7, FitsOcp, FitsNothing
  <1>9. Fits(p, c, A)
    BY FitsTxPower
  <1>. HIDE DEF p, q
  <1>10. Fits(p \o q, c, A \cup F)
    BY <1>8, <1>9, FitsJoined
  <1>11. A \cup F \in SUBSET Known
    BY DEF Known
  <1>12. "ocpTrim" \in A \cup F \/ reg.ocpTrim \in Values(c).ocpTrim
    <2>1. CASE ~HighPower(dbm, pa) \/ cfg.ocp < 130
      BY <2>1
    <2>2. CASE ~(~HighPower(dbm, pa) \/ cfg.ocp < 130)
      <3>1. reg.ocpTrim \in OcpTrims(cfg.ocp)
        BY <1>6 DEF Inv, ProgInv
      <3>. QED
        BY <1>7, <2>2, <3>1 DEF OcpTrims
    <2>. QED
      BY <2>1, <2>2
  <1>13. {"pa", "out", "dacHigh"} \subseteq A \cup F
    OBVIOUS
  <1>14. /\ SessionFields \cap Y = {} /\ FrequencyFields \cap Y = {}
         /\ ModemAgreed \cap Y = {} /\ ErrataFields \cap Y = {}
    BY DEF SessionFields, FrequencyFields, ErrataFields, ModemAgreed
  <1>15. /\ G \subseteq Groups /\ "power" \in G /\ "frequency" \notin G
         /\ "modem" \notin G /\ "errata" \notin G
    BY DEF Groups
  <1>. HIDE DEF A, F, Y, G
  <1>. DEFINE B == A \cup F
  <1>16. /\ Leaves(reg, reg', c) /\ faults' \in 0 .. MaxFaults
         /\ \/ dirty' = dirty \ G /\ \A x \in B : reg'[x] \in Values(c)[x]
            \/ dirty' = dirty \cup G
    BY <1>1, <1>6, <1>10, <1>11, RunsLeave
  <1>17. /\ {"pa", "out", "dacHigh"} \subseteq B
         /\ "ocpTrim" \in B \/ reg.ocpTrim \in Values(c).ocpTrim
    BY <1>12, <1>13
  <1>18. SameBand(c, cfg)
    BY <1>3 DEF SameBand
  <1>. HIDE DEF B
  <1>. QED
    BY <1>3, <1>4, <1>5, <1>6, <1>14, <1>15, <1>16, <1>17, <1>18, SetterStep

LEMMA FrequencyStep ==
  ASSUME Inv, NEW f \in Frequencies, SetFrequency(f)
  PROVE  Inv'
  <1>. DEFINE c == [cfg EXCEPT !.frequency = f]
              G == {"frequency"}
              p == ApplyFrequency(c.frequency)
              k == Calibrate(Frf(f) % 2 ^ 24)
              m1 == Mode("Standby") \o Mode("FskSleep")
              m2 == m1 \o k \o Mode("Sleep") \o Mode("Standby")
              q == IF LargeJump(f) /\ ~cfg.skipCal THEN m2 ELSE <<>>
  <1>1. Typed(cfg) /\ TypeInv /\ f \in Nat
    BY DEF Inv, TypeInv
  <1>2. c \in LoRaConfigs
    BY <1>1 DEF Typed, LoRaConfigs
  <1>3. c.frequency = f /\ c.sf = cfg.sf /\ c.ocp = cfg.ocp
    BY <1>1 DEF Typed, LoRaConfigs
  <1>4. Typed(c)
    BY <1>1, <1>2, <1>3 DEF Typed
  <1>5. SameBand(c, cfg) /\ SameBut(c, cfg, FrequencyFields)
    <2>1. SameBand(c, cfg)
      BY <1>3 DEF Inv, ProgInv, InBand, SameBand, SetFrequency
    <2>. QED
      BY <2>1, SameButFrequency
  <1>6. FrequencyProgram(f) = p \o q
    BY <1>3 DEF FrequencyProgram
  <1>7. /\ initialized' = initialized
        /\ \/ Done(p \o q, G) /\ cfg' = c
           \/ \E n \in 0 .. 3 : FailsAt(n, p \o q, G) /\ cfg' = cfg
           \/ \E n \in 3 .. Len(p \o q) : FailsAt(n, p \o q, G) /\ cfg' = c
    BY <1>6 DEF SetFrequency
  <1>. HIDE DEF c
  <1>8. /\ Fits(Mode("Standby"), c, {}) /\ Fits(Mode("FskSleep"), c, {})
        /\ Fits(Mode("Sleep"), c, {}) /\ Fits(k, c, {})
    BY FitsModes, FitsCalibrate DEF Modes
  <1>. HIDE DEF k
  <1>9. Fits(m2, c, {} \cup {} \cup {} \cup {} \cup {})
    BY <1>8, FitsJoined
  <1>10. Fits(q, c, {})
    BY <1>9, FitsNothing, FitsFewer
  <1>11. Fits(p, c, FrequencyFields)
    BY FitsFrequency DEF FrequencyFields
  <1>. HIDE DEF q
  <1>12. 3 <= Len(p \o q)
    <2>1. p \in Seq({p[1], p[2], p[3]}) /\ Len(p) = 3
      BY DEF ApplyFrequency
    <2>. HIDE DEF p
    <2>2. PICK S : q \in Seq(S)
      BY <1>10 DEF Fits
    <2>3. /\ p \in Seq({p[1], p[2], p[3]} \cup S) /\ q \in Seq({p[1], p[2], p[3]} \cup S)
          /\ Len(q) \in Nat
      BY <2>1, <2>2
    <2>4. Len(p \o q) = Len(p) + Len(q)
      BY <2>3
    <2>. QED
      BY <2>1, <2>3, <2>4
  <1>. HIDE DEF p
  <1>. DEFINE r == p \o q
  <1>13. Fits(r, c, FrequencyFields)
    <2>1. Fits(r, c, FrequencyFields \cup {})
      BY <1>10, <1>11, FitsJoined
    <2>. QED
      BY <2>1, FitsFewer
  <1>14. \/ Done(r, G) /\ cfg' = c
         \/ \E n \in 0 .. Len(r) : FailsAt(n, r, G) /\ cfg' \in {c, cfg}
    <2>1. Len(r) \in Nat
      BY <1>13, LenFits
    <2>. QED
      BY <1>7, <1>12, <2>1
  <1>. HIDE DEF r, G
  <1>15. Runs(r, G) /\ cfg' \in {c, cfg}
    BY <1>14 DEF Runs
  <1>16. /\ FrequencyFields \subseteq Known /\ G \subseteq Groups /\ "frequency" \in G
         /\ "power" \notin G /\ "modem" \notin G /\ "errata" \notin G
    BY FieldsKnown DEF G, Groups
  <1>17. /\ Leaves(reg, reg', c) /\ faults' \in 0 .. MaxFaults
         /\ \/ dirty' = dirty \ G /\ \A x \in FrequencyFields : reg'[x] \in Values(c)[x]
            \/ dirty' = dirty \cup G
    BY <1>1, <1>13, <1>15, <1>16, RunsLeave
  <1>18. /\ SessionFields \cap FrequencyFields = {} /\ PowerFields \cap FrequencyFields = {}
         /\ ModemAgreed \cap FrequencyFields = {} /\ ErrataFields \cap FrequencyFields = {}
    BY DEF SessionFields, FrequencyFields, PowerFields, ErrataFields, ModemAgreed
  <1>19. \/ dirty' = dirty \ G /\ cfg' = c /\ \A x \in FrequencyFields : reg'[x] \in Values(c)[x]
         \/ dirty' = dirty \cup G /\ cfg' \in {c, cfg}
    <2>1. CASE Done(r, G) /\ cfg' = c
      <3>1. dirty' = dirty \ G
        BY <2>1 DEF Done
      <3>2. dirty' # dirty \cup G
        BY <1>16, <3>1
      <3>. QED
        BY <1>17, <2>1, <3>1, <3>2
    <2>2. CASE \E n \in 0 .. Len(r) : FailsAt(n, r, G) /\ cfg' \in {c, cfg}
      BY <2>2 DEF FailsAt
    <2>. QED
      BY <1>14, <2>1, <2>2
  <1>20. /\ G \in SUBSET Groups /\ initialized' = initialized
         /\ IF "frequency" \in G THEN FrequencyFields \subseteq FrequencyFields
                                 ELSE FrequencyFields \cap FrequencyFields = {}
         /\ IF "power" \in G
            THEN /\ {"pa", "out", "dacHigh"} \subseteq FrequencyFields
                 /\ "ocpTrim" \in FrequencyFields \/ reg.ocpTrim \in Values(c).ocpTrim
            ELSE PowerFields \cap FrequencyFields = {}
         /\ IF "modem" \in G THEN ModemAgreed \subseteq FrequencyFields
                             ELSE ModemAgreed \cap FrequencyFields = {}
         /\ IF "errata" \in G THEN ErrataFields \subseteq FrequencyFields
                              ELSE ErrataFields \cap FrequencyFields = {}
    BY <1>7, <1>16, <1>18
  <1>21. /\ Leaves(reg, reg', c) /\ faults' \in 0 .. MaxFaults
         /\ SessionFields \cap FrequencyFields = {}
    BY <1>17, <1>18
  <1>. HIDE DEF m1, m2
  <1>. QED
    BY <1>3, <1>4, <1>5, <1>19, <1>20, <1>21, SetterStep, Zenon

---------------------------------------------------------------------------
(* Sessions                                                                  *)

LEMMA BeginStep == ASSUME Inv, NEW c \in Configs, Begin(c) PROVE Inv'
  <1>. DEFINE before == IF c.autoReset THEN PowerOn ELSE reg
              p == InitSequence(c, FrfOf(before))
              F == FrequencyFields \cup PowerFields \cup ModemFields
                     \cup ErrataWritten(c) \cup SessionFields
  <1>1. /\ TypeInv /\ Typed(cfg) /\ RegTypes(reg) /\ ~initialized /\ dirty' = dirty
        /\ faults \in 0 .. MaxFaults
    BY DEF Inv, TypeInv, Begin
  <1>2. Typed(c)
    BY ValidTyped DEF Begin
  <1>3. RegTypes(before)
    BY <1>1, PowerOnTyped
  <1>4. \/ /\ reg' = Written(before, p, Len(p))
           /\ cfg' = c /\ initialized' = TRUE /\ faults' = faults
        \/ Fault /\ reg' = before /\ cfg' = cfg /\ initialized' = initialized
        \/ /\ Fault /\ \E n \in 0 .. Len(p) : reg' = Written(before, p, n)
           /\ cfg' = c /\ initialized' = initialized
    BY DEF Begin
  <1>. HIDE DEF before
  <1>5. Fits(p, c, F)
    BY FitsInitSequence
  <1>. HIDE DEF p
  <1>6. F \subseteq Known
    BY DEF Known, FrequencyFields, PowerFields, ModemFields, ErrataWritten, SessionFields
  <1>7. Len(p) \in Nat
    BY <1>5, LenFits
  <1>8. \A n \in 0 .. Len(p) :
          /\ Leaves(before, Written(before, p, n), c)
          /\ \A x \in F \cap Known : Written(before, p, Len(p))[x] \in Values(c)[x]
    BY <1>3, <1>5, WrittenLeaves
  <1>9. /\ Len(p) \in 0 .. Len(p)
        /\ \A n \in 0 .. Len(p) : RegTypes(Written(before, p, n))
    BY <1>2, <1>3, <1>7, <1>8, TypesLeft
  <1>10. TypeInv'
    <2>1. RegTypes(reg')
      BY <1>3, <1>4, <1>9
    <2>3. Typed(cfg')
      BY <1>1, <1>2, <1>4
    <2>4. initialized' \in BOOLEAN
      BY <1>4 DEF Begin, Inv, TypeInv
    <2>2. faults' \in 0 .. MaxFaults
      BY <1>1, <1>4 DEF Fault
    <2>. QED
      BY <1>1, <2>1, <2>2, <2>3, <2>4 DEF TypeInv
  <1>11. ProgInv'
    <2>1. CASE ~initialized'
      BY <2>1 DEF ProgInv, Clean
    <2>2. CASE initialized'
      <3>1. cfg' = c /\ \A x \in F : reg'[x] \in Values(cfg')[x]
        BY <1>1, <1>4, <1>6, <1>8, <1>9, <2>2
      <3>2. /\ Agree(FrequencyFields)' /\ Agree(PowerFields)'
            /\ Agree(SessionFields)'
        BY <3>1 DEF Agree
      <3>5. Agree(ErrataFields)'
        <4>1. Leaves(before, reg', c)
          BY <1>1, <1>4, <1>8, <1>9, <2>2
        <4>2. \A x \in ErrataWritten(c) : reg'[x] \in Values(c)[x]
          BY <3>1
        <4>3. \A x \in ErrataFields : reg'[x] \in Values(c)[x]
          BY <1>3, <4>1, <4>2, ErrataAll
        <4>. QED
          BY <3>1, <4>3 DEF Agree
      <3>6. InBand'
        BY <3>1 DEF InBand, StaysInBand, Begin
      <3>3. Agree(ModemAgreed)'
        BY <3>1, FieldsKnown DEF Agree
      <3>4. reg'.ocpTrim \in OcpTrims(cfg'.ocp)
        <4>1. "ocpTrim" \in F
          BY DEF PowerFields
        <4>2. reg'["ocpTrim"] \in Values(cfg')["ocpTrim"]
          BY <3>1, <4>1
        <4>. QED
          BY <4>2, OcpTrimsHold
      <3>. QED
        BY <3>2, <3>3, <3>4, <3>5, <3>6 DEF ProgInv
    <2>. QED
      BY <2>1, <2>2
  <1>. QED
    BY <1>10, <1>11 DEF Inv

LEMMA EndStep == ASSUME Inv, End \/ Restart PROVE Inv'
  <1>1. TypeInv /\ RegTypes(reg) /\ Typed(cfg) /\ faults \in 0 .. MaxFaults
    BY DEF Inv, TypeInv
  <1>2. ~initialized' /\ initialized' \in BOOLEAN /\ cfg' = DefaultConfig /\ dirty' = {}
    BY DEF End, Restart
  <1>3. RegTypes(Written(reg, Mode("Sleep"), 1))
    <2>1. Fits(Mode("Sleep"), cfg, {})
      BY FitsModes DEF Modes
    <2>2. Len(Mode("Sleep")) = 1
      BY DEF Mode
    <2>3. 1 \in 0 .. Len(Mode("Sleep"))
      BY <2>2
    <2>4. Leaves(reg, Written(reg, Mode("Sleep"), 1), cfg)
      BY <1>1, <2>1, <2>3, WrittenLeaves
    <2>. QED
      BY <1>1, <2>4, TypesLeft
  <1>4. RegTypes(reg')
    BY <1>1, <1>3 DEF End, Restart
  <1>5. faults' \in 0 .. MaxFaults
    BY <1>1 DEF End, Restart, Fault
  <1>6. TypeInv'
    BY <1>2, <1>4, <1>5, DefaultTyped DEF TypeInv
  <1>. QED
    BY <1>2, <1>6 DEF Inv, ProgInv, Clean

LEMMA InvInit == Init => Inv
  <1>. SUFFICES ASSUME Init PROVE Inv
    OBVIOUS
  <1>1. TypeInv
    <2>1. Typed(cfg) /\ RegTypes(reg)
      BY DefaultTyped, PowerOnTyped DEF Init
    <2>2. initialized \in BOOLEAN /\ dirty \subseteq Groups
      BY DEF Init
    <2>3. faults \in 0 .. MaxFaults
      <3>1. faults = MaxFaults
        BY DEF Init
      <3>. QED
        BY <3>1
    <2>. QED
      BY <2>1, <2>2, <2>3 DEF TypeInv
  <1>. QED
    BY <1>1 DEF Init, Inv, ProgInv, Clean

LEMMA InvStep == Inv /\ [Next]_vars => Inv'
  <1>. SUFFICES ASSUME Inv, [Next]_vars PROVE Inv'
    OBVIOUS
  <1>1. CASE UNCHANGED vars
    BY <1>1 DEF vars, Inv, TypeInv, ProgInv, Clean, Agree, InBand
  <1>2. ASSUME NEW c \in Configs, Begin(c) PROVE Inv'
    BY <1>2, BeginStep
  <1>3. CASE End \/ Restart
    BY <1>3, EndStep
  <1>4. CASE Setters
    BY <1>4, FrequencyStep, PowerStep, SfStep, BwStep, LnaStep, OcpEnabledStep DEF Setters
  <1>5. CASE StartContinuousWave \/ SetStandby \/ SetSleep \/ StartTransmit
    BY <1>5, ModeStep
  <1>6. CASE ChipTxDone
    BY <1>6, ChipStep
  <1>. QED
    BY <1>1, <1>2, <1>3, <1>4, <1>5, <1>6 DEF Next

(* cfg_ and the registers stay in their ranges for every configuration that  *)
(* validate() lets through and every argument the setters take.              *)
THEOREM TypeCorrect == Spec => []TypeOK
  <1>1. Inv => TypeOK
    BY DEF Inv, TypeInv, Typed, RegTypes, TypeOK
  <1>. QED
    BY <1>1, InvInit, InvStep, PTL DEF Spec

(* The raised over-current limit ends with the high power, whichever setters  *)
(* come in between and fail, and never lowers the user's own.                *)
THEOREM OcpFollowsPower == Spec => []OcpBumpEnds
  <1>1. ASSUME Inv PROVE OcpBumpEnds
    <2>. SUFFICES ASSUME Clean("power")
                  PROVE  /\ ~reg.dacHigh => reg.ocpTrim = OcpTrim(cfg.ocp)
                         /\ OcpLimit(reg.ocpTrim) >= OcpLimit(OcpTrim(cfg.ocp))
      BY DEF OcpBumpEnds
    <2>1. Agree(PowerFields) /\ cfg.ocp \in 45 .. 240
      BY <1>1 DEF Inv, ProgInv, TypeInv, Typed
    <2>2. PowerSays(Values(cfg), cfg)
      BY ValuesPower
    <2>3. /\ reg.dacHigh \in Values(cfg).dacHigh
          /\ reg.ocpTrim \in Values(cfg).ocpTrim
      BY <2>1 DEF Agree, PowerFields
    <2>4. /\ reg.dacHigh = HighPower(cfg.power, cfg.pa)
          /\ \/ reg.ocpTrim = OcpTrim(cfg.ocp)
             \/ reg.ocpTrim = OcpTrim(130) /\ HighPower(cfg.power, cfg.pa) /\ cfg.ocp < 130
      BY <2>2, <2>3 DEF PowerSays
    <2>5. \A ma \in 45 .. 240 :
            /\ OcpLimit(OcpTrim(ma)) \in Int
            /\ ma < 130 => OcpLimit(OcpTrim(130)) >= OcpLimit(OcpTrim(ma))
      BY DEF OcpLimit, OcpTrim
    <2>. QED
      BY <2>1, <2>4, <2>5
  <1>. QED
    BY <1>1, InvInit, InvStep, PTL DEF Spec

LEMMA WordIsNat == \A w \in Word : w \in Nat
  BY DEF Word

LEMMA ThreeBytes ==
  ASSUME NEW n \in Nat, n < 65536 * 256
  PROVE  (((n \div 65536) % 256) * 256 + ((n \div 256) % 256)) * 256 + (n % 256) = n
  <1>. DEFINE a == n \div 256
              b == n \div 65536
  <1>1. a \in Nat /\ n = 256 * a + (n % 256) /\ n % 256 \in 0 .. 255
    OBVIOUS
  <1>2. b \in Nat /\ n = 65536 * b + (n % 65536)
    OBVIOUS
  <1>3. b < 256
    OBVIOUS
  <1>4. n % 65536 \in Nat /\ n % 65536 < 65536
    OBVIOUS
  <1>5. b % 256 = b
    <2>. HIDE DEF b
    <2>. QED BY <1>2, <1>3
  <1>6. PICK p \in 0 .. 255 : n = 256 * a + p /\ n % 256 = p
    <2>. HIDE DEF a
    <2>. QED BY <1>1
  <1>7. PICK q \in Nat : n = 65536 * b + q /\ q < 65536
    <2>. HIDE DEF b
    <2>. QED BY <1>2, <1>4
  <1>8. a = 256 * b + (a % 256) 
    <2>. HIDE DEF a, b
    <2>1. a - 256 * b \in 0 .. 255
      BY <1>1, <1>2, <1>6, <1>7
    <2>2. PICK d \in 0 .. 255 : a = 256 * b + d 
      BY <2>1, <1>1, <1>2
    <2>3. d = a % 256
      BY <2>2, <1>2
    <2>. QED
      BY <2>2, <2>3
  <1>9. (b * 256 + (a % 256)) * 256 + (n % 256) = n
    <2>. HIDE DEF a, b
    <2>. QED BY <1>1, <1>2, <1>6, <1>8
  <1>. QED
    BY <1>5, <1>9

(* cfg_ tells the truth about the chip, the power it sends with included,     *)
(* for every order of setters, failing transfers, sessions and restarts of    *)
(* the microcontroller; the exceptions are ConfigIsProgrammed's.             *)
THEOREM ConfigTellsTheTruth == Spec => []ConfigIsProgrammed
  <1>1. ASSUME Inv PROVE ConfigIsProgrammed
    <2>1. Typed(cfg) /\ cfg \in LoRaConfigs
      BY <1>1 DEF Inv, TypeInv, Typed
    <2>2. Clean("frequency") /\ cfg.frequency < 1024000 => FrfOf(reg) = Frf(cfg.frequency)
      <3>. SUFFICES ASSUME Clean("frequency"), cfg.frequency < 1024000
                    PROVE  FrfOf(reg) = Frf(cfg.frequency)
        OBVIOUS
      <3>1. FrequencySays(Values(cfg), cfg) /\ Agree(FrequencyFields)
        BY <1>1, ValuesFrequency DEF Inv, ProgInv
      <3>2. /\ reg.frMsb \in Values(cfg).frMsb /\ reg.frMid \in Values(cfg).frMid
            /\ reg.frLsb \in Values(cfg).frLsb
        BY <3>1 DEF Agree, FrequencyFields
      <3>. DEFINE n == Frf(cfg.frequency)
      <3>3. /\ reg.frMsb = (n \div 65536) % 256 /\ reg.frMid = (n \div 256) % 256
            /\ reg.frLsb = n % 256
        BY <3>1, <3>2 DEF FrequencySays
      <3>4. cfg.frequency \in Nat
        BY <2>1 DEF LoRaConfigs
      <3>5. n \in Nat /\ n < 65536 * 256
        BY <3>4, SMT DEF Frf
      <3>. HIDE DEF n
      <3>6. FrfOf(reg) = n
        BY <3>3, <3>5, ThreeBytes DEF FrfOf
      <3>. QED
        BY <3>6 DEF n
    <2>3. Clean("power") => /\ reg.pa = cfg.pa
                            /\ reg.dacHigh = HighPower(cfg.power, cfg.pa)
                            /\ cfg.power \in Sendable(cfg.pa) => SentPower(reg) = cfg.power
      <3>. SUFFICES ASSUME Clean("power")
                    PROVE  /\ reg.pa = cfg.pa
                           /\ reg.dacHigh = HighPower(cfg.power, cfg.pa)
                           /\ cfg.power \in Sendable(cfg.pa) => SentPower(reg) = cfg.power
        OBVIOUS
      <3>1. PowerSays(Values(cfg), cfg) /\ Agree(PowerFields)
        BY <1>1, ValuesPower DEF Inv, ProgInv
      <3>2. /\ reg.pa \in Values(cfg).pa /\ reg.out \in Values(cfg).out
            /\ reg.dacHigh \in Values(cfg).dacHigh
        BY <3>1 DEF Agree, PowerFields
      <3>3. /\ reg.pa = cfg.pa /\ reg.out = OutputPower(cfg.power, cfg.pa)
            /\ reg.dacHigh = HighPower(cfg.power, cfg.pa)
        BY <3>1, <3>2 DEF PowerSays
      <3>4. cfg.pa \in PaOutputs
        BY <2>1 DEF LoRaConfigs
      <3>5. ASSUME cfg.power \in Sendable(cfg.pa) PROVE SentPower(reg) = cfg.power
        <4>1. CASE cfg.pa = "Rfo"
          BY <3>3, <3>5, <4>1 DEF Sendable, SentPower, OutputPower
        <4>2. CASE cfg.pa = "PaBoost"
          <5>1. cfg.power \in 2 .. 20 /\ "PaBoost" # "Rfo"
            BY <3>5, <4>2 DEF Sendable
          <5>2. /\ reg.pa = "PaBoost"
                /\ reg.out = cfg.power - (IF cfg.power > 17 THEN 5 ELSE 2)
            BY <3>3, <4>2, <5>1 DEF OutputPower, Clamped
          <5>3. reg.dacHigh = (cfg.power > 17)
            BY <3>3, <4>2 DEF HighPower
          <5>4. CASE cfg.power > 17
            <6>1. reg.dacHigh /\ reg.out = cfg.power - 5
              BY <5>2, <5>3, <5>4
            <6>2. SentPower(reg) = reg.out + 5
              BY <5>1, <5>2, <6>1 DEF SentPower
            <6>. QED
              BY <5>1, <6>1, <6>2
          <5>5. CASE ~(cfg.power > 17)
            <6>1. ~reg.dacHigh /\ reg.out = cfg.power - 2
              BY <5>2, <5>3, <5>5
            <6>2. SentPower(reg) = reg.out + 2
              BY <5>1, <5>2, <6>1 DEF SentPower
            <6>. QED
              BY <5>1, <6>1, <6>2
          <5>. QED
            BY <5>4, <5>5
        <4>. QED
          BY <3>4, <4>1, <4>2 DEF PaOutputs
      <3>. QED
        BY <3>3, <3>5
    <2>4. Clean("modem") => /\ reg.sf = cfg.sf /\ reg.bw = BwCode(cfg.bw)
                            /\ reg.detect = 5 <=> reg.sf = 6
                            /\ reg.threshold = 12 <=> reg.sf = 6
                            /\ reg.ldro = LdroBit(cfg)
      <3>. SUFFICES ASSUME Clean("modem")
                    PROVE  /\ reg.sf = cfg.sf /\ reg.bw = BwCode(cfg.bw)
                           /\ reg.detect = 5 <=> reg.sf = 6
                           /\ reg.threshold = 12 <=> reg.sf = 6
                           /\ reg.ldro = LdroBit(cfg)
        OBVIOUS
      <3>1. ModemSays(Values(cfg), cfg) /\ Agree(ModemAgreed)
        BY <1>1, ValuesModem DEF Inv, ProgInv
      <3>2. /\ reg.sf \in Values(cfg).sf /\ reg.bw \in Values(cfg).bw
            /\ reg.detect \in Values(cfg).detect /\ reg.ldro \in Values(cfg).ldro
            /\ reg.threshold \in Values(cfg).threshold
        BY <3>1 DEF Agree, ModemAgreed
      <3>. QED
        BY <3>1, <3>2 DEF ModemSays
    <2>5. Clean("modem") /\ cfg.bw \in Allowed =>
            reg.ldro = (cfg.ldroAuto /\ LdroRequired(reg.sf, reg.bw))
      BY <2>4 DEF BwCode, LdroBit
    <2>6. initialized => SessionIsProgrammed
      <3>. SUFFICES ASSUME initialized PROVE SessionIsProgrammed
        OBVIOUS
      <3>1. SessionSays(Values(cfg), cfg) /\ ModemSays(Values(cfg), cfg)
            /\ Agree(SessionFields)
        BY <1>1, ValuesSession, ValuesModem DEF Inv, ProgInv
      <3>2. /\ reg.preMsb \in Values(cfg).preMsb /\ reg.preLsb \in Values(cfg).preLsb
            /\ reg.sync \in Values(cfg).sync /\ reg.iq \in Values(cfg).iq
            /\ reg.iq2 \in Values(cfg).iq2 /\ reg.boost \in Values(cfg).boost
            /\ reg.tcxo \in Values(cfg).tcxo /\ reg.txBase \in Values(cfg).txBase
            /\ reg.rxBase \in Values(cfg).rxBase
        BY <3>1 DEF Agree, SessionFields
      <3>3. /\ reg.cr \in Values(cfg).cr /\ reg.implicit \in Values(cfg).implicit
            /\ reg.crc \in Values(cfg).crc /\ reg.symbMsb \in Values(cfg).symbMsb
            /\ reg.symbLsb \in Values(cfg).symbLsb
        BY <3>1 DEF Agree, SessionFields
      <3>4. cfg.preamble \in Nat /\ Symbols(cfg.symbols) \in Nat
        <4>1. cfg.preamble \in Word
          BY <2>1 DEF LoRaConfigs
        <4>2. cfg.symbols \in Word
          BY <2>1 DEF LoRaConfigs
        <4>3. cfg.preamble \in Nat /\ cfg.symbols \in Nat
          BY <4>1, <4>2, WordIsNat
        <4>. QED
          BY <4>3 DEF Symbols
      <3>5. /\ reg.preMsb = cfg.preamble \div 256 /\ reg.preLsb = cfg.preamble % 256
            /\ reg.sync = cfg.sync % 256 /\ reg.iq = cfg.iq /\ reg.iq2 = cfg.iq
            /\ reg.boost = cfg.lnaBoost /\ reg.tcxo = cfg.tcxo
            /\ reg.txBase = 0 /\ reg.rxBase = 128
        BY <3>1, <3>2 DEF SessionSays
      <3>6. /\ reg.cr = cfg.cr - 4 /\ reg.implicit = cfg.implicit /\ reg.crc = cfg.crc
            /\ reg.symbMsb = Symbols(cfg.symbols) \div 256
            /\ reg.symbLsb = Symbols(cfg.symbols) % 256
        BY <3>1, <3>3 DEF ModemSays
      <3>7. reg.preMsb * 256 + reg.preLsb = cfg.preamble
        BY <3>4, <3>5
      <3>8. reg.symbMsb * 256 + reg.symbLsb = Symbols(cfg.symbols)
        BY <3>4, <3>6
      <3>. QED
        BY <3>5, <3>6, <3>7, <3>8 DEF SessionIsProgrammed
    <2>7. SpuriousErratum
      <3>. SUFFICES ASSUME Clean("errata")
                    PROVE  reg.ifFreq = IfFreq(cfg.bw) /\ (reg.detect7 => ErrataBit(cfg))
        BY DEF SpuriousErratum, ErrataBit
      <3>1. ErrataSays(Values(cfg), cfg) /\ Agree(ErrataFields)
        BY <1>1, ValuesErrata DEF Inv, ProgInv
      <3>2. reg.ifFreq \in Values(cfg).ifFreq /\ reg.detect7 \in Values(cfg).detect7
        BY <3>1 DEF Agree, ErrataFields
      <3>3. reg.detect7 = FALSE \/ reg.detect7 = ErrataBit(cfg)
        BY <3>1, <3>2, Zenon DEF ErrataSays
      <3>4. reg.ifFreq = IfFreq(cfg.bw)
        BY <3>1, <3>2 DEF ErrataSays
      <3>. QED
        BY <3>3, <3>4
    <2>8. StaysInBand => HighBandwidthErratum
      <3>. SUFFICES ASSUME StaysInBand, Clean("errata")
                    PROVE  IF Optimised(cfg) THEN reg.highBw1 = 2 /\ reg.highBw2 = 100
                                             ELSE reg.highBw1 = 3
        BY DEF HighBandwidthErratum, Optimised
      <3>1. ErrataSays(Values(cfg), cfg) /\ Agree(ErrataFields)
        BY <1>1, ValuesErrata DEF Inv, ProgInv
      <3>2. reg.highBw1 \in Values(cfg).highBw1 /\ reg.highBw2 \in Values(cfg).highBw2
        BY <3>1 DEF Agree, ErrataFields
      <3>3. reg.highBw1 \in HighBw1(cfg) /\ reg.highBw2 \in HighBw2(cfg)
        BY <3>1, <3>2 DEF ErrataSays
      <3>. QED
        BY <3>3 DEF HighBw1, HighBw2
    <2>. QED
      BY <2>2, <2>3, <2>4, <2>5, <2>6, <2>7, <2>8 DEF ConfigIsProgrammed
  <1>. QED
    BY <1>1, InvInit, InvStep, PTL DEF Spec
=============================================================================
