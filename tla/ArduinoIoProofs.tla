---------------------------- MODULE ArduinoIoProofs -----------------------------
(***************************************************************************)
(* arduino_io for any number of pins and analog inputs: the generated      *)
(* tables, the types of the answers, the counting of edges.                *)
(***************************************************************************)
EXTENDS ArduinoIo, SequenceTheorems, TLAPS

-----------------------------------------------------------------------------
(* The tables.                                                              *)

Entries == (PinFamilies \cup {"version", "raw", "value"}) \X Int

PinCount == LastPin - PinOffset + 1

LEMMA PinCountIsNat == PinCount \in Nat \ {0}
BY IoAssumption DEF PinCount

LEMMA PinEntries ==
  ASSUME NEW family \in PinFamilies
  PROVE  /\ OfPins(family) \in Seq(Entries) /\ Len(OfPins(family)) = PinCount
         /\ \A i \in 1 .. PinCount : OfPins(family)[i] = <<family, PinOffset + i - 1>>
<1>1. OfPins(family) = [i \in 1 .. PinCount |-> <<family, PinOffset + i - 1>>]
  BY DEF OfPins, PinCount
<1>2. \A i \in 1 .. PinCount : <<family, PinOffset + i - 1>> \in Entries
  BY IoAssumption, PinCountIsNat DEF Entries
<1>3. OfPins(family) \in [1 .. PinCount -> Entries]
  BY <1>1, <1>2
<1>4. \A i \in 1 .. PinCount : OfPins(family)[i] = <<family, PinOffset + i - 1>>
  BY <1>1
<1>5. OfPins(family) \in Seq(Entries) /\ Len(OfPins(family)) = PinCount
  BY <1>3, PinCountIsNat, LenProperties, SeqDef
<1> QED
  BY <1>4, <1>5

LEMMA AnalogEntries ==
  ASSUME NEW family \in {"raw", "value"}
  PROVE  /\ OfAnalog(family) \in Seq(Entries) /\ Len(OfAnalog(family)) = LastAnalog + 1
         /\ \A i \in 1 .. LastAnalog + 1 : OfAnalog(family)[i] = <<family, i - 1>>
<1>1. \A i \in 1 .. LastAnalog + 1 : <<family, i - 1>> \in Entries
  BY IoAssumption DEF Entries
<1> QED
  BY <1>1, IoAssumption DEF OfAnalog

\* What is appended comes after what is there.
LEMMA Appended ==
  ASSUME NEW s \in Seq(Entries), NEW t \in Seq(Entries)
  PROVE  /\ s \o t \in Seq(Entries) /\ Len(s \o t) = Len(s) + Len(t)
         /\ \A i \in 1 .. Len(s) : (s \o t)[i] = s[i]
         /\ \A i \in 1 .. Len(t) : (s \o t)[Len(s) + i] = t[i]
OBVIOUS

\* The lists that the list of properties is made of, one family more each time.
Upto0 == <<<<"version", 0>>>>
Upto1 == Upto0 \o OfPins("direction")
Upto2 == Upto1 \o OfPins("pin")
Upto3 == Upto2 \o OfPins("counter")
Upto4 == Upto3 \o OfPins("counter_enabled")
Upto5 == Upto4 \o OfPins("high2low")
Upto6 == Upto5 \o OfPins("low2high")
Upto7 == Upto6 \o OfAnalog("raw")
Upto8 == Upto7 \o OfAnalog("value")

LEMMA UptoLengths ==
  /\ PropertyList = Upto8
  /\ Upto0 \in Seq(Entries) /\ Len(Upto0) = 1
  /\ Upto1 \in Seq(Entries) /\ Len(Upto1) = 1 + 1 * PinCount
  /\ Upto2 \in Seq(Entries) /\ Len(Upto2) = 1 + 2 * PinCount
  /\ Upto3 \in Seq(Entries) /\ Len(Upto3) = 1 + 3 * PinCount
  /\ Upto4 \in Seq(Entries) /\ Len(Upto4) = 1 + 4 * PinCount
  /\ Upto5 \in Seq(Entries) /\ Len(Upto5) = 1 + 5 * PinCount
  /\ Upto6 \in Seq(Entries) /\ Len(Upto6) = 1 + 6 * PinCount
  /\ Upto7 \in Seq(Entries) /\ Len(Upto7) = 1 + 6 * PinCount + 1 * (LastAnalog + 1)
  /\ Upto8 \in Seq(Entries) /\ Len(Upto8) = 1 + 6 * PinCount + 2 * (LastAnalog + 1)
<1>n. PinCount \in Nat /\ LastAnalog + 1 \in Nat
  BY PinCountIsNat, IoAssumption
<1>0. Upto0 \in Seq(Entries) /\ Len(Upto0) = 1
  BY DEF Upto0, Entries
<1>1. Upto1 \in Seq(Entries) /\ Len(Upto1) = 1 + 1 * PinCount
  <2>1. OfPins("direction") \in Seq(Entries) /\ Len(OfPins("direction")) = PinCount
    BY PinEntries DEF PinFamilies
  <2>2. Upto1 \in Seq(Entries) /\ Len(Upto1) = Len(Upto0) + Len(OfPins("direction"))
    BY <2>1, <1>0, Appended, Zenon DEF Upto1
  <2> QED
    BY <2>1, <2>2, <1>0, <1>n, SMTT(30)
<1>2. Upto2 \in Seq(Entries) /\ Len(Upto2) = 1 + 2 * PinCount
  <2>1. OfPins("pin") \in Seq(Entries) /\ Len(OfPins("pin")) = PinCount
    BY PinEntries DEF PinFamilies
  <2>2. Upto2 \in Seq(Entries) /\ Len(Upto2) = Len(Upto1) + Len(OfPins("pin"))
    BY <2>1, <1>1, Appended, Zenon DEF Upto2
  <2> QED
    BY <2>1, <2>2, <1>1, <1>n, SMTT(30)
<1>3. Upto3 \in Seq(Entries) /\ Len(Upto3) = 1 + 3 * PinCount
  <2>1. OfPins("counter") \in Seq(Entries) /\ Len(OfPins("counter")) = PinCount
    BY PinEntries DEF PinFamilies
  <2>2. Upto3 \in Seq(Entries) /\ Len(Upto3) = Len(Upto2) + Len(OfPins("counter"))
    BY <2>1, <1>2, Appended, Zenon DEF Upto3
  <2> QED
    BY <2>1, <2>2, <1>2, <1>n, SMTT(30)
<1>4. Upto4 \in Seq(Entries) /\ Len(Upto4) = 1 + 4 * PinCount
  <2>1. OfPins("counter_enabled") \in Seq(Entries) /\ Len(OfPins("counter_enabled")) = PinCount
    BY PinEntries DEF PinFamilies
  <2>2. Upto4 \in Seq(Entries) /\ Len(Upto4) = Len(Upto3) + Len(OfPins("counter_enabled"))
    BY <2>1, <1>3, Appended, Zenon DEF Upto4
  <2> QED
    BY <2>1, <2>2, <1>3, <1>n, SMTT(30)
<1>5. Upto5 \in Seq(Entries) /\ Len(Upto5) = 1 + 5 * PinCount
  <2>1. OfPins("high2low") \in Seq(Entries) /\ Len(OfPins("high2low")) = PinCount
    BY PinEntries DEF PinFamilies
  <2>2. Upto5 \in Seq(Entries) /\ Len(Upto5) = Len(Upto4) + Len(OfPins("high2low"))
    BY <2>1, <1>4, Appended, Zenon DEF Upto5
  <2> QED
    BY <2>1, <2>2, <1>4, <1>n, SMTT(30)
<1>6. Upto6 \in Seq(Entries) /\ Len(Upto6) = 1 + 6 * PinCount
  <2>1. OfPins("low2high") \in Seq(Entries) /\ Len(OfPins("low2high")) = PinCount
    BY PinEntries DEF PinFamilies
  <2>2. Upto6 \in Seq(Entries) /\ Len(Upto6) = Len(Upto5) + Len(OfPins("low2high"))
    BY <2>1, <1>5, Appended, Zenon DEF Upto6
  <2> QED
    BY <2>1, <2>2, <1>5, <1>n, SMTT(30)
<1>7. Upto7 \in Seq(Entries) /\ Len(Upto7) = 1 + 6 * PinCount + 1 * (LastAnalog + 1)
  <2>1. OfAnalog("raw") \in Seq(Entries) /\ Len(OfAnalog("raw")) = LastAnalog + 1
    BY AnalogEntries DEF PinFamilies
  <2>2. Upto7 \in Seq(Entries) /\ Len(Upto7) = Len(Upto6) + Len(OfAnalog("raw"))
    BY <2>1, <1>6, Appended, Zenon DEF Upto7
  <2> QED
    BY <2>1, <2>2, <1>6, <1>n, SMTT(30)
<1>8. Upto8 \in Seq(Entries) /\ Len(Upto8) = 1 + 6 * PinCount + 2 * (LastAnalog + 1)
  <2>1. OfAnalog("value") \in Seq(Entries) /\ Len(OfAnalog("value")) = LastAnalog + 1
    BY AnalogEntries DEF PinFamilies
  <2>2. Upto8 \in Seq(Entries) /\ Len(Upto8) = Len(Upto7) + Len(OfAnalog("value"))
    BY <2>1, <1>7, Appended, Zenon DEF Upto8
  <2> QED
    BY <2>1, <2>2, <1>7, <1>n, SMTT(30)
<1>9. PropertyList = Upto8
  BY DEF PropertyList, Upto0, Upto1, Upto2, Upto3, Upto4, Upto5, Upto6, Upto7, Upto8
<1> QED
  BY <1>0, <1>1, <1>2, <1>3, <1>4, <1>5, <1>6, <1>7, <1>8, <1>9

\* An entry keeps its place in the list of properties.
LEMMA Kept ==
  /\ \A i \in 1 .. Len(Upto0) : PropertyList[i] = Upto0[i]
  /\ \A i \in 1 .. Len(Upto1) : PropertyList[i] = Upto1[i]
  /\ \A i \in 1 .. Len(Upto2) : PropertyList[i] = Upto2[i]
  /\ \A i \in 1 .. Len(Upto3) : PropertyList[i] = Upto3[i]
  /\ \A i \in 1 .. Len(Upto4) : PropertyList[i] = Upto4[i]
  /\ \A i \in 1 .. Len(Upto5) : PropertyList[i] = Upto5[i]
  /\ \A i \in 1 .. Len(Upto6) : PropertyList[i] = Upto6[i]
  /\ \A i \in 1 .. Len(Upto7) : PropertyList[i] = Upto7[i]
<1>8. PropertyList = Upto8
  BY UptoLengths
<1>7. \A i \in 1 .. Len(Upto7) : PropertyList[i] = Upto7[i]
  <2>1. OfAnalog("value") \in Seq(Entries)
    BY AnalogEntries DEF PinFamilies
  <2>2. \A i \in 1 .. Len(Upto7) : Upto8[i] = Upto7[i]
    BY <2>1, UptoLengths, Appended, ZenonT(40) DEF Upto8
  <2>3. 1 .. Len(Upto7) \subseteq 1 .. Len(Upto8)
    BY UptoLengths, PinCountIsNat, IoAssumption
  <2> QED
    BY <2>2, <2>3, <1>8
<1>6. \A i \in 1 .. Len(Upto6) : PropertyList[i] = Upto6[i]
  <2>1. OfAnalog("raw") \in Seq(Entries)
    BY AnalogEntries DEF PinFamilies
  <2>2. \A i \in 1 .. Len(Upto6) : Upto7[i] = Upto6[i]
    BY <2>1, UptoLengths, Appended, ZenonT(40) DEF Upto7
  <2>3. 1 .. Len(Upto6) \subseteq 1 .. Len(Upto7)
    BY UptoLengths, PinCountIsNat, IoAssumption
  <2> QED
    BY <2>2, <2>3, <1>7
<1>5. \A i \in 1 .. Len(Upto5) : PropertyList[i] = Upto5[i]
  <2>1. OfPins("low2high") \in Seq(Entries)
    BY PinEntries DEF PinFamilies
  <2>2. \A i \in 1 .. Len(Upto5) : Upto6[i] = Upto5[i]
    BY <2>1, UptoLengths, Appended, ZenonT(40) DEF Upto6
  <2>3. 1 .. Len(Upto5) \subseteq 1 .. Len(Upto6)
    BY UptoLengths, PinCountIsNat, IoAssumption
  <2> QED
    BY <2>2, <2>3, <1>6
<1>4. \A i \in 1 .. Len(Upto4) : PropertyList[i] = Upto4[i]
  <2>1. OfPins("high2low") \in Seq(Entries)
    BY PinEntries DEF PinFamilies
  <2>2. \A i \in 1 .. Len(Upto4) : Upto5[i] = Upto4[i]
    BY <2>1, UptoLengths, Appended, ZenonT(40) DEF Upto5
  <2>3. 1 .. Len(Upto4) \subseteq 1 .. Len(Upto5)
    BY UptoLengths, PinCountIsNat, IoAssumption
  <2> QED
    BY <2>2, <2>3, <1>5
<1>3. \A i \in 1 .. Len(Upto3) : PropertyList[i] = Upto3[i]
  <2>1. OfPins("counter_enabled") \in Seq(Entries)
    BY PinEntries DEF PinFamilies
  <2>2. \A i \in 1 .. Len(Upto3) : Upto4[i] = Upto3[i]
    BY <2>1, UptoLengths, Appended, ZenonT(40) DEF Upto4
  <2>3. 1 .. Len(Upto3) \subseteq 1 .. Len(Upto4)
    BY UptoLengths, PinCountIsNat, IoAssumption
  <2> QED
    BY <2>2, <2>3, <1>4
<1>2. \A i \in 1 .. Len(Upto2) : PropertyList[i] = Upto2[i]
  <2>1. OfPins("counter") \in Seq(Entries)
    BY PinEntries DEF PinFamilies
  <2>2. \A i \in 1 .. Len(Upto2) : Upto3[i] = Upto2[i]
    BY <2>1, UptoLengths, Appended, ZenonT(40) DEF Upto3
  <2>3. 1 .. Len(Upto2) \subseteq 1 .. Len(Upto3)
    BY UptoLengths, PinCountIsNat, IoAssumption
  <2> QED
    BY <2>2, <2>3, <1>3
<1>1. \A i \in 1 .. Len(Upto1) : PropertyList[i] = Upto1[i]
  <2>1. OfPins("pin") \in Seq(Entries)
    BY PinEntries DEF PinFamilies
  <2>2. \A i \in 1 .. Len(Upto1) : Upto2[i] = Upto1[i]
    BY <2>1, UptoLengths, Appended, ZenonT(40) DEF Upto2
  <2>3. 1 .. Len(Upto1) \subseteq 1 .. Len(Upto2)
    BY UptoLengths, PinCountIsNat, IoAssumption
  <2> QED
    BY <2>2, <2>3, <1>2
<1>0. \A i \in 1 .. Len(Upto0) : PropertyList[i] = Upto0[i]
  <2>1. OfPins("direction") \in Seq(Entries)
    BY PinEntries DEF PinFamilies
  <2>2. \A i \in 1 .. Len(Upto0) : Upto1[i] = Upto0[i]
    BY <2>1, UptoLengths, Appended, ZenonT(40) DEF Upto1
  <2>3. 1 .. Len(Upto0) \subseteq 1 .. Len(Upto1)
    BY UptoLengths, PinCountIsNat, IoAssumption
  <2> QED
    BY <2>2, <2>3, <1>1
<1> QED
  BY <1>0, <1>1, <1>2, <1>3, <1>4, <1>5, <1>6, <1>7

\* The entries of a family follow those of the families before it.
LEMMA Placed ==
  /\ PropertyList[1] = <<"version", 0>>
  /\ \A i \in 1 .. PinCount : PropertyList[Len(Upto0) + i] = <<"direction", PinOffset + i - 1>>
  /\ \A i \in 1 .. PinCount : PropertyList[Len(Upto1) + i] = <<"pin", PinOffset + i - 1>>
  /\ \A i \in 1 .. PinCount : PropertyList[Len(Upto2) + i] = <<"counter", PinOffset + i - 1>>
  /\ \A i \in 1 .. PinCount : PropertyList[Len(Upto3) + i] = <<"counter_enabled", PinOffset + i - 1>>
  /\ \A i \in 1 .. PinCount : PropertyList[Len(Upto4) + i] = <<"high2low", PinOffset + i - 1>>
  /\ \A i \in 1 .. PinCount : PropertyList[Len(Upto5) + i] = <<"low2high", PinOffset + i - 1>>
  /\ \A i \in 1 .. LastAnalog + 1 : PropertyList[Len(Upto6) + i] = <<"raw", i - 1>>
  /\ \A i \in 1 .. LastAnalog + 1 : PropertyList[Len(Upto7) + i] = <<"value", i - 1>>
<1>0. PropertyList[1] = <<"version", 0>>
  <2>1. Upto0[1] = <<"version", 0>> /\ 1 \in 1 .. Len(Upto0)
    BY DEF Upto0
  <2> QED
    BY <2>1, Kept
<1>1. \A i \in 1 .. PinCount : PropertyList[Len(Upto0) + i] = <<"direction", PinOffset + i - 1>>
  <2>1. /\ OfPins("direction") \in Seq(Entries) /\ Len(OfPins("direction")) = PinCount
        /\ \A i \in 1 .. PinCount : OfPins("direction")[i] = <<"direction", PinOffset + i - 1>>
    BY PinEntries DEF PinFamilies
  <2>2. \A i \in 1 .. PinCount : Upto1[Len(Upto0) + i] = OfPins("direction")[i]
    BY <2>1, UptoLengths, Appended, ZenonT(40) DEF Upto1
  <2>3. \A i \in 1 .. PinCount : Len(Upto0) + i \in 1 .. Len(Upto1)
    BY UptoLengths, PinCountIsNat, IoAssumption
  <2> QED
    BY <2>1, <2>2, <2>3, Kept, SMTT(30)
<1>2. \A i \in 1 .. PinCount : PropertyList[Len(Upto1) + i] = <<"pin", PinOffset + i - 1>>
  <2>1. /\ OfPins("pin") \in Seq(Entries) /\ Len(OfPins("pin")) = PinCount
        /\ \A i \in 1 .. PinCount : OfPins("pin")[i] = <<"pin", PinOffset + i - 1>>
    BY PinEntries DEF PinFamilies
  <2>2. \A i \in 1 .. PinCount : Upto2[Len(Upto1) + i] = OfPins("pin")[i]
    BY <2>1, UptoLengths, Appended, ZenonT(40) DEF Upto2
  <2>3. \A i \in 1 .. PinCount : Len(Upto1) + i \in 1 .. Len(Upto2)
    BY UptoLengths, PinCountIsNat, IoAssumption
  <2> QED
    BY <2>1, <2>2, <2>3, Kept, SMTT(30)
<1>3. \A i \in 1 .. PinCount : PropertyList[Len(Upto2) + i] = <<"counter", PinOffset + i - 1>>
  <2>1. /\ OfPins("counter") \in Seq(Entries) /\ Len(OfPins("counter")) = PinCount
        /\ \A i \in 1 .. PinCount : OfPins("counter")[i] = <<"counter", PinOffset + i - 1>>
    BY PinEntries DEF PinFamilies
  <2>2. \A i \in 1 .. PinCount : Upto3[Len(Upto2) + i] = OfPins("counter")[i]
    BY <2>1, UptoLengths, Appended, ZenonT(40) DEF Upto3
  <2>3. \A i \in 1 .. PinCount : Len(Upto2) + i \in 1 .. Len(Upto3)
    BY UptoLengths, PinCountIsNat, IoAssumption
  <2> QED
    BY <2>1, <2>2, <2>3, Kept, SMTT(30)
<1>4. \A i \in 1 .. PinCount : PropertyList[Len(Upto3) + i] = <<"counter_enabled", PinOffset + i - 1>>
  <2>1. /\ OfPins("counter_enabled") \in Seq(Entries) /\ Len(OfPins("counter_enabled")) = PinCount
        /\ \A i \in 1 .. PinCount : OfPins("counter_enabled")[i] = <<"counter_enabled", PinOffset + i - 1>>
    BY PinEntries DEF PinFamilies
  <2>2. \A i \in 1 .. PinCount : Upto4[Len(Upto3) + i] = OfPins("counter_enabled")[i]
    BY <2>1, UptoLengths, Appended, ZenonT(40) DEF Upto4
  <2>3. \A i \in 1 .. PinCount : Len(Upto3) + i \in 1 .. Len(Upto4)
    BY UptoLengths, PinCountIsNat, IoAssumption
  <2> QED
    BY <2>1, <2>2, <2>3, Kept, SMTT(30)
<1>5. \A i \in 1 .. PinCount : PropertyList[Len(Upto4) + i] = <<"high2low", PinOffset + i - 1>>
  <2>1. /\ OfPins("high2low") \in Seq(Entries) /\ Len(OfPins("high2low")) = PinCount
        /\ \A i \in 1 .. PinCount : OfPins("high2low")[i] = <<"high2low", PinOffset + i - 1>>
    BY PinEntries DEF PinFamilies
  <2>2. \A i \in 1 .. PinCount : Upto5[Len(Upto4) + i] = OfPins("high2low")[i]
    BY <2>1, UptoLengths, Appended, ZenonT(40) DEF Upto5
  <2>3. \A i \in 1 .. PinCount : Len(Upto4) + i \in 1 .. Len(Upto5)
    BY UptoLengths, PinCountIsNat, IoAssumption
  <2> QED
    BY <2>1, <2>2, <2>3, Kept, SMTT(30)
<1>6. \A i \in 1 .. PinCount : PropertyList[Len(Upto5) + i] = <<"low2high", PinOffset + i - 1>>
  <2>1. /\ OfPins("low2high") \in Seq(Entries) /\ Len(OfPins("low2high")) = PinCount
        /\ \A i \in 1 .. PinCount : OfPins("low2high")[i] = <<"low2high", PinOffset + i - 1>>
    BY PinEntries DEF PinFamilies
  <2>2. \A i \in 1 .. PinCount : Upto6[Len(Upto5) + i] = OfPins("low2high")[i]
    BY <2>1, UptoLengths, Appended, ZenonT(40) DEF Upto6
  <2>3. \A i \in 1 .. PinCount : Len(Upto5) + i \in 1 .. Len(Upto6)
    BY UptoLengths, PinCountIsNat, IoAssumption
  <2> QED
    BY <2>1, <2>2, <2>3, Kept, SMTT(30)
<1>7. \A i \in 1 .. LastAnalog + 1 : PropertyList[Len(Upto6) + i] = <<"raw", i - 1>>
  <2>1. /\ OfAnalog("raw") \in Seq(Entries) /\ Len(OfAnalog("raw")) = LastAnalog + 1
        /\ \A i \in 1 .. LastAnalog + 1 : OfAnalog("raw")[i] = <<"raw", i - 1>>
    BY AnalogEntries DEF PinFamilies
  <2>2. \A i \in 1 .. Len(OfAnalog("raw")) : Upto7[Len(Upto6) + i] = OfAnalog("raw")[i]
    BY <2>1, UptoLengths, Appended, ZenonT(40) DEF Upto7
  <2>3. \A i \in 1 .. LastAnalog + 1 : Len(Upto6) + i \in 1 .. Len(Upto7)
    BY UptoLengths, PinCountIsNat, IoAssumption
  <2> QED
    BY <2>1, <2>2, <2>3, Kept, SMTT(30)
<1>8. \A i \in 1 .. LastAnalog + 1 : PropertyList[Len(Upto7) + i] = <<"value", i - 1>>
  <2>1. /\ OfAnalog("value") \in Seq(Entries) /\ Len(OfAnalog("value")) = LastAnalog + 1
        /\ \A i \in 1 .. LastAnalog + 1 : OfAnalog("value")[i] = <<"value", i - 1>>
    BY AnalogEntries DEF PinFamilies
  <2>2. \A i \in 1 .. Len(OfAnalog("value")) : Upto8[Len(Upto7) + i] = OfAnalog("value")[i]
    BY <2>1, UptoLengths, Appended, ZenonT(40) DEF Upto8
  <2> QED
    BY <2>1, <2>2, UptoLengths
<1> QED
  BY <1>0, <1>1, <1>2, <1>3, <1>4, <1>5, <1>6, <1>7, <1>8

\* The index that the list of names has for an object is the place of that
\* object's own property: the generator counts both lists alike.
THEOREM TablesLead ==
  ASSUME NEW object \in Objects
  PROVE  Property(object) = object
<1>n. /\ PinCount \in Nat /\ PinCount = LastPin - PinOffset + 1
      /\ LastAnalog \in Nat /\ PinOffset \in Nat /\ LastPin \in Nat
  BY PinCountIsNat, IoAssumption DEF PinCount
<1>1. CASE object = <<"version", 0>>
  BY <1>1, Placed DEF Property, InfoIndex
<1>2. CASE \E p \in Pins : object = <<"direction", p>>
  <2>1. PICK p \in Pins : object = <<"direction", p>>
    BY <1>2
  <2>2. InfoIndex(object) = 1 + 0 * PinCount + p - PinOffset
    BY <2>1 DEF InfoIndex, FamilyOrder, PinCount
  <2>3. p - PinOffset + 1 \in 1 .. PinCount /\ InfoIndex(object) + 1 = Len(Upto0) + (p - PinOffset + 1)
    BY <1>n, <2>1, <2>2, UptoLengths DEF Pins
  <2>4. PropertyList[Len(Upto0) + (p - PinOffset + 1)] = <<"direction", PinOffset + (p - PinOffset + 1) - 1>>
    BY <2>3, Placed
  <2> QED
    BY <1>n, <2>1, <2>3, <2>4 DEF Property, Pins
<1>3. CASE \E p \in Pins : object = <<"pin", p>>
  <2>1. PICK p \in Pins : object = <<"pin", p>>
    BY <1>3
  <2>2. InfoIndex(object) = 1 + 1 * PinCount + p - PinOffset
    BY <2>1 DEF InfoIndex, FamilyOrder, PinCount
  <2>3. p - PinOffset + 1 \in 1 .. PinCount /\ InfoIndex(object) + 1 = Len(Upto1) + (p - PinOffset + 1)
    BY <1>n, <2>1, <2>2, UptoLengths DEF Pins
  <2>4. PropertyList[Len(Upto1) + (p - PinOffset + 1)] = <<"pin", PinOffset + (p - PinOffset + 1) - 1>>
    BY <2>3, Placed
  <2> QED
    BY <1>n, <2>1, <2>3, <2>4 DEF Property, Pins
<1>4. CASE \E p \in Pins : object = <<"counter", p>>
  <2>1. PICK p \in Pins : object = <<"counter", p>>
    BY <1>4
  <2>2. InfoIndex(object) = 1 + 2 * PinCount + p - PinOffset
    BY <2>1 DEF InfoIndex, FamilyOrder, PinCount
  <2>3. p - PinOffset + 1 \in 1 .. PinCount /\ InfoIndex(object) + 1 = Len(Upto2) + (p - PinOffset + 1)
    BY <1>n, <2>1, <2>2, UptoLengths DEF Pins
  <2>4. PropertyList[Len(Upto2) + (p - PinOffset + 1)] = <<"counter", PinOffset + (p - PinOffset + 1) - 1>>
    BY <2>3, Placed
  <2> QED
    BY <1>n, <2>1, <2>3, <2>4 DEF Property, Pins
<1>5. CASE \E p \in Pins : object = <<"counter_enabled", p>>
  <2>1. PICK p \in Pins : object = <<"counter_enabled", p>>
    BY <1>5
  <2>2. InfoIndex(object) = 1 + 3 * PinCount + p - PinOffset
    BY <2>1 DEF InfoIndex, FamilyOrder, PinCount
  <2>3. p - PinOffset + 1 \in 1 .. PinCount /\ InfoIndex(object) + 1 = Len(Upto3) + (p - PinOffset + 1)
    BY <1>n, <2>1, <2>2, UptoLengths DEF Pins
  <2>4. PropertyList[Len(Upto3) + (p - PinOffset + 1)] = <<"counter_enabled", PinOffset + (p - PinOffset + 1) - 1>>
    BY <2>3, Placed
  <2> QED
    BY <1>n, <2>1, <2>3, <2>4 DEF Property, Pins
<1>6. CASE \E p \in Pins : object = <<"high2low", p>>
  <2>1. PICK p \in Pins : object = <<"high2low", p>>
    BY <1>6
  <2>2. InfoIndex(object) = 1 + 4 * PinCount + p - PinOffset
    BY <2>1 DEF InfoIndex, FamilyOrder, PinCount
  <2>3. p - PinOffset + 1 \in 1 .. PinCount /\ InfoIndex(object) + 1 = Len(Upto4) + (p - PinOffset + 1)
    BY <1>n, <2>1, <2>2, UptoLengths DEF Pins
  <2>4. PropertyList[Len(Upto4) + (p - PinOffset + 1)] = <<"high2low", PinOffset + (p - PinOffset + 1) - 1>>
    BY <2>3, Placed
  <2> QED
    BY <1>n, <2>1, <2>3, <2>4 DEF Property, Pins
<1>7. CASE \E p \in Pins : object = <<"low2high", p>>
  <2>1. PICK p \in Pins : object = <<"low2high", p>>
    BY <1>7
  <2>2. InfoIndex(object) = 1 + 5 * PinCount + p - PinOffset
    BY <2>1 DEF InfoIndex, FamilyOrder, PinCount
  <2>3. p - PinOffset + 1 \in 1 .. PinCount /\ InfoIndex(object) + 1 = Len(Upto5) + (p - PinOffset + 1)
    BY <1>n, <2>1, <2>2, UptoLengths DEF Pins
  <2>4. PropertyList[Len(Upto5) + (p - PinOffset + 1)] = <<"low2high", PinOffset + (p - PinOffset + 1) - 1>>
    BY <2>3, Placed
  <2> QED
    BY <1>n, <2>1, <2>3, <2>4 DEF Property, Pins
<1>8. CASE \E p \in 0 .. LastAnalog : object = <<"raw", p>>
  <2>1. PICK p \in 0 .. LastAnalog : object = <<"raw", p>>
    BY <1>8
  <2>2. InfoIndex(object) = 1 + 6 * PinCount + p
    BY <2>1 DEF InfoIndex, PinCount
  <2>3. p + 1 \in 1 .. LastAnalog + 1 /\ InfoIndex(object) + 1 = Len(Upto6) + (p + 1)
    BY <1>n, <2>1, <2>2, UptoLengths
  <2>4. PropertyList[Len(Upto6) + (p + 1)] = <<"raw", (p + 1) - 1>>
    BY <2>3, Placed
  <2> QED
    BY <1>n, <2>1, <2>3, <2>4 DEF Property
<1>9. CASE \E p \in 0 .. LastAnalog : object = <<"value", p>>
  <2>1. PICK p \in 0 .. LastAnalog : object = <<"value", p>>
    BY <1>9
  <2>2. InfoIndex(object) = 1 + 6 * PinCount + LastAnalog + 1 + p
    BY <2>1 DEF InfoIndex, PinCount
  <2>3. p + 1 \in 1 .. LastAnalog + 1 /\ InfoIndex(object) + 1 = Len(Upto7) + (p + 1)
    BY <1>n, <2>1, <2>2, UptoLengths
  <2>4. PropertyList[Len(Upto7) + (p + 1)] = <<"value", (p + 1) - 1>>
    BY <2>3, Placed
  <2> QED
    BY <1>n, <2>1, <2>3, <2>4 DEF Property
<1> QED
  BY <1>1, <1>2, <1>3, <1>4, <1>5, <1>6, <1>7, <1>8, <1>9 DEF Objects, PinFamilies

-----------------------------------------------------------------------------
(* The inductive invariant.                                                 *)

Counts == -IntMax - 1 .. IntMax

Arrays ==
  /\ direction \in [Scanned -> BOOLEAN] /\ lastRead \in [Scanned -> BOOLEAN]
  /\ lastWritten \in [Scanned -> BOOLEAN] /\ enabled \in [Scanned -> BOOLEAN]
  /\ highToLow \in [Scanned -> BOOLEAN] /\ lowToHigh \in [Scanned -> BOOLEAN]
  /\ port \in [Scanned -> BOOLEAN] /\ line \in [Scanned -> BOOLEAN]
  /\ driven \in [Scanned -> BOOLEAN]
  /\ counter \in [Scanned -> Counts] /\ start \in [Scanned -> Counts]
  /\ changes \in [Scanned -> Nat]
  /\ scan \in {0} \cup Scanned

DrivenAsWritten == \A p \in Scanned : direction[p] /\ driven[p] => lastWritten[p] = port[p]

AnswerFits ==
  \/ answer = <<>>
  \/ /\ answer[3] \in TypeOfFamily(answer[1])
     /\ answer[1] = "value" => 10 * answer[3] - 49 * answer[2] \in -5 .. 5

IInv == Arrays /\ UnreadIsSpare /\ DrivenAsWritten /\ AnswerFits

Unread(p) == IF lastRead[p] # Level(p) THEN 1 ELSE 0

LEMMA CountsAreInt == Counts \subseteq Int /\ 0 \in Counts /\ Settable \subseteq Counts
BY IoAssumption DEF Counts

LEMMA InitHolds == Init => IInv
<1> SUFFICES ASSUME Init PROVE IInv
  OBVIOUS
<1>1. Arrays
  BY CountsAreInt, IoAssumption DEF Init, Arrays
<1>2. UnreadIsSpare
  <2> SUFFICES ASSUME NEW p \in Scanned
               PROVE  counter[p] + Unread(p) <= start[p] + changes[p] + 1
    BY DEF UnreadIsSpare, Unread
  <2>1. counter[p] = 0 /\ start[p] = 0 /\ changes[p] = 0
    BY DEF Init
  <2> QED
    BY <2>1 DEF Unread
<1>3. DrivenAsWritten
  BY DEF Init, DrivenAsWritten
<1> QED
  BY <1>1, <1>2, <1>3 DEF IInv, AnswerFits, Init

LEMMA IncrementFits ==
  ASSUME NEW count \in Counts
  PROVE  Increment(count) \in Counts /\ Increment(count) <= count + 1
BY IoAssumption DEF Counts, Increment

LEMMA NextPinFits == ASSUME NEW p \in Scanned PROVE NextPin(p) \in {0} \cup Scanned
BY DEF NextPin

\* A step that may change the level of one pin and counts the change.
LevelStep(p) ==
  /\ UNCHANGED <<lastRead, counter, start>>
  /\ \A q \in Scanned \ {p} : Level(q)' = Level(q)
  /\ NoteChange(p)

LEMMA LevelStepSpares ==
  ASSUME Arrays, UnreadIsSpare, NEW p \in Scanned, LevelStep(p)
  PROVE  changes' \in [Scanned -> Nat] /\ UnreadIsSpare'
<1>1. changes' \in [Scanned -> Nat]
  BY DEF Arrays, LevelStep, NoteChange
<1>2. ASSUME NEW q \in Scanned
      PROVE  counter'[q] + Unread(q)' <= start'[q] + changes'[q] + 1
  <2>1. /\ counter[q] \in Int /\ start[q] \in Int /\ changes[q] \in Nat
        /\ counter'[q] = counter[q] /\ start'[q] = start[q] /\ lastRead'[q] = lastRead[q]
    BY CountsAreInt DEF Arrays, LevelStep
  <2>2. counter[q] + Unread(q) <= start[q] + changes[q] + 1
    BY DEF UnreadIsSpare, Unread
  <2>3. CASE Level(q)' = Level(q)
    <3>1. Unread(q)' = Unread(q)
      BY <2>1, <2>3 DEF Unread
    <3>2. changes'[q] = changes[q]
      <4>1. CASE q = p
        BY <2>1, <2>3, <4>1 DEF LevelStep, NoteChange, Arrays
      <4>2. CASE q # p
        BY <4>2 DEF LevelStep, NoteChange, Arrays
      <4> QED
        BY <4>1, <4>2
    <3> QED
      BY <2>1, <2>2, <3>1, <3>2
  <2>4. CASE Level(q)' # Level(q)
    <3>1. q = p
      BY <2>4 DEF LevelStep
    <3>2. changes'[q] = changes[q] + 1
      BY <2>4, <3>1 DEF LevelStep, NoteChange, Arrays
    <3>3. Unread(q) \in {0, 1} /\ Unread(q)' \in {0, 1}
      BY DEF Unread
    <3> QED
      BY <2>1, <2>2, <3>2, <3>3
  <2> QED
    BY <2>3, <2>4
<1> QED
  BY <1>1, <1>2 DEF UnreadIsSpare, Unread

LEMMA SetDirectionKeeps ==
  ASSUME IInv, NEW p \in Scanned, NEW text \in {"Input", "Output", "other"}, SetDirection(p, text)
  PROVE  IInv'
<1> USE DEF IInv
<1>1. /\ direction' \in [Scanned -> BOOLEAN] /\ port' \in [Scanned -> BOOLEAN]
      /\ driven' \in [Scanned -> BOOLEAN]
      /\ \A q \in Scanned \ {p} : /\ direction'[q] = direction[q] /\ port'[q] = port[q]
                                  /\ driven'[q] = driven[q]
  BY DEF SetDirection, DigitalDirectionSet, Arrays
<1>2. LevelStep(p)
  BY <1>1 DEF SetDirection, DigitalDirectionSet, LevelStep, Level, counterVars
<1>3. changes' \in [Scanned -> Nat] /\ UnreadIsSpare'
  BY <1>2, LevelStepSpares
<1>4. Arrays'
  BY <1>1, <1>3 DEF SetDirection, DigitalDirectionSet, Arrays, Done, counterVars
<1>5. DrivenAsWritten'
  <2> SUFFICES ASSUME NEW q \in Scanned, direction'[q], driven'[q]
               PROVE  lastWritten'[q] = port'[q]
    BY DEF DrivenAsWritten
  <2>1. lastWritten' = lastWritten
    BY DEF SetDirection, DigitalDirectionSet
  <2>2. CASE text = "other"
    BY <2>1, <2>2 DEF SetDirection, DigitalDirectionSet, DrivenAsWritten
  <2>3. CASE text # "other"
    <3>1. driven' = [driven EXCEPT ![p] = FALSE]
      BY <2>3 DEF SetDirection, DigitalDirectionSet
    <3>2. q # p
      BY <3>1 DEF Arrays
    <3> QED
      BY <1>1, <2>1, <3>2 DEF DrivenAsWritten
  <2> QED
    BY <2>2, <2>3
<1> QED
  BY <1>3, <1>4, <1>5 DEF SetDirection, Done, AnswerFits

LEMMA SetPinKeeps ==
  ASSUME IInv, NEW p \in Scanned, NEW value \in BOOLEAN, SetPin(p, value)
  PROVE  IInv'
<1> USE DEF IInv
<1>1. /\ direction' = direction /\ port' = [port EXCEPT ![p] = value]
      /\ lastWritten' = [lastWritten EXCEPT ![p] = value]
      /\ driven' = [driven EXCEPT ![p] = direction[p]]
  BY DEF SetPin, DigitalPinSet
<1>2. LevelStep(p)
  BY <1>1 DEF SetPin, DigitalPinSet, LevelStep, Level, counterVars, Arrays
<1>3. changes' \in [Scanned -> Nat] /\ UnreadIsSpare'
  BY <1>2, LevelStepSpares
<1>4. Arrays'
  BY <1>1, <1>3 DEF SetPin, DigitalPinSet, Arrays, Done, counterVars
<1>5. DrivenAsWritten'
  BY <1>1 DEF DrivenAsWritten, Arrays
<1> QED
  BY <1>3, <1>4, <1>5 DEF SetPin, Done, AnswerFits

LEMMA LineChangesKeeps ==
  ASSUME IInv, NEW p \in Scanned, LineChanges(p)
  PROVE  IInv'
<1> USE DEF IInv
<1>1. line' \in [Scanned -> BOOLEAN] /\ \A q \in Scanned \ {p} : line'[q] = line[q]
  BY DEF LineChanges, Arrays
<1>2. LevelStep(p)
  BY <1>1 DEF LineChanges, LevelStep, Level, counterVars
<1>3. changes' \in [Scanned -> Nat] /\ UnreadIsSpare'
  BY <1>2, LevelStepSpares
<1>4. Arrays'
  BY <1>1, <1>3 DEF LineChanges, Arrays, counterVars
<1>5. DrivenAsWritten'
  BY DEF LineChanges, DrivenAsWritten
<1> QED
  BY <1>3, <1>4, <1>5 DEF LineChanges, AnswerFits

LEMMA SetCounterKeeps ==
  ASSUME IInv, NEW p \in Scanned, NEW count \in Settable, SetCounter(p, count)
  PROVE  IInv'
<1> USE DEF IInv
<1>0. /\ counter' = [counter EXCEPT ![p] = count] /\ start' = [start EXCEPT ![p] = count]
      /\ changes' = [changes EXCEPT ![p] = 0] /\ count \in Counts
      /\ UNCHANGED <<direction, lastRead, lastWritten, port, line, enabled, highToLow,
                     lowToHigh, driven, scan>>
  BY CountsAreInt DEF SetCounter, DigitalCounterSet, Done, pinVars
<1>1. Arrays'
  BY <1>0 DEF Arrays
<1>2. ASSUME NEW q \in Scanned
      PROVE  counter'[q] + Unread(q)' <= start'[q] + changes'[q] + 1
  <2>1. Unread(q)' = Unread(q) /\ Unread(q) \in {0, 1}
    BY <1>0 DEF Unread, Level
  <2>2. CASE q = p
    <3>1. counter'[q] = count /\ start'[q] = count /\ changes'[q] = 0 /\ count \in Int
      BY <1>0, <2>2, CountsAreInt DEF Arrays
    <3> QED
      BY <2>1, <3>1
  <2>3. CASE q # p
    <3>1. counter'[q] = counter[q] /\ start'[q] = start[q] /\ changes'[q] = changes[q]
      BY <1>0, <2>3 DEF Arrays
    <3> QED
      BY <2>1, <3>1 DEF UnreadIsSpare, Unread
  <2> QED
    BY <2>2, <2>3
<1>3. UnreadIsSpare'
  BY <1>2 DEF UnreadIsSpare, Unread
<1> QED
  BY <1>0, <1>1, <1>3 DEF DrivenAsWritten, SetCounter, Done, AnswerFits

LEMMA ScanPinKeeps ==
  ASSUME IInv, NEW p \in Scanned, ScanPin(p)
  PROVE  IInv'
<1> USE DEF IInv
<1> DEFINE counts == /\ ~direction[p] /\ line[p] # lastRead[p] /\ enabled[p]
                     /\ IF line[p] THEN lowToHigh[p] ELSE highToLow[p]
<1>0. /\ scan' = NextPin(p)
      /\ lastRead' = IF direction[p] THEN lastRead ELSE [lastRead EXCEPT ![p] = line[p]]
      /\ counter' = IF counts THEN [counter EXCEPT ![p] = Increment(@)] ELSE counter
      /\ UNCHANGED <<direction, lastWritten, port, line, enabled, highToLow, lowToHigh,
                     answer, driven, start, changes>>
  BY DEF ScanPin, historyVars
<1>1. counts => ~direction[p] /\ line[p] # lastRead[p]
  OBVIOUS
<1> HIDE DEF counts
<1>2. counter' \in [Scanned -> Counts]
  BY <1>0, IncrementFits DEF Arrays
<1>3. lastRead' \in [Scanned -> BOOLEAN]
  BY <1>0 DEF Arrays
<1>4. Arrays'
  BY <1>0, <1>2, <1>3, NextPinFits DEF Arrays
<1>5. ASSUME NEW q \in Scanned
      PROVE  counter'[q] + Unread(q)' <= start'[q] + changes'[q] + 1
  <2>1. /\ counter[q] \in Int /\ start[q] \in Int /\ changes[q] \in Nat
        /\ Level(q)' = Level(q) /\ start'[q] = start[q] /\ changes'[q] = changes[q]
        /\ counter[q] + Unread(q) <= start[q] + changes[q] + 1
        /\ Unread(q) \in {0, 1}
    BY <1>0, CountsAreInt DEF Arrays, Level, UnreadIsSpare, Unread
  <2>2. CASE q # p \/ direction[p]
    <3>1. ~counts \/ q # p
      BY <1>1, <2>2
    <3>2. counter'[q] = counter[q] /\ lastRead'[q] = lastRead[q]
      BY <1>0, <2>2, <3>1 DEF Arrays
    <3>3. Unread(q)' = Unread(q)
      BY <2>1, <3>2 DEF Unread
    <3> QED
      BY <2>1, <3>2, <3>3
  <2>3. CASE q = p /\ ~direction[p]
    <3>1. lastRead'[q] = line[q] /\ Level(q) = line[q]
      BY <1>0, <2>3 DEF Arrays, Level
    <3>2. Unread(q)' = 0
      BY <2>1, <3>1 DEF Unread
    <3>3. CASE counts
      <4>1. Unread(q) = 1
        BY <1>1, <2>3, <3>1, <3>3 DEF Unread
      <4>2. counter'[q] = Increment(counter[q]) /\ counter[q] \in Counts
        BY <1>0, <2>3, <3>3 DEF Arrays
      <4>3. counter'[q] <= counter[q] + 1 /\ counter'[q] \in Int
        BY <4>2, IncrementFits, CountsAreInt
      <4> QED
        BY <2>1, <3>2, <4>1, <4>3
    <3>4. CASE ~counts
      BY <1>0, <2>1, <3>2, <3>4
    <3> QED
      BY <3>3, <3>4
  <2> QED
    BY <2>2, <2>3
<1>6. UnreadIsSpare'
  BY <1>5 DEF UnreadIsSpare, Unread
<1> QED
  BY <1>0, <1>4, <1>6 DEF DrivenAsWritten, AnswerFits

\* What is answered to a host has the type that the tables declare, and an
\* analog value is rounded down to tenths of the product, never wrapped.
LEMMA AnalogValueFits ==
  ASSUME NEW raw \in Readings
  PROVE  /\ AnalogValue(raw) \in Int /\ 0 <= AnalogValue(raw) /\ AnalogValue(raw) <= 5013
         /\ -5 <= 10 * AnalogValue(raw) - 49 * raw /\ 10 * AnalogValue(raw) - 49 * raw <= 5
<1> DEFINE product == raw * 49 + 5
<1>1. raw \in Int /\ 0 <= raw /\ raw <= 1023
  BY IoAssumption
<1>2. product \in Int /\ 0 <= product /\ product <= 50132
  BY <1>1
<1>3. product % 65536 = product
  <2> HIDE DEF product
  <2> QED
    BY <1>2
<1>4. AnalogValue(raw) = product \div 10
  BY <1>3 DEF AnalogValue
<1>5. /\ product \div 10 \in Int /\ 10 * (product \div 10) <= product
      /\ product < 10 * (product \div 10) + 10
  <2> HIDE DEF product
  <2> QED
    BY <1>2
<1> QED
  BY <1>1, <1>2, <1>4, <1>5

LEMMA GetOfPinFits ==
  ASSUME Arrays, NEW family \in PinFamilies, NEW p \in Pins,
         NEW value \in GetOfPin(family, p)
  PROVE  value \in TypeOfFamily(family)
<1>1. CASE family = "direction"
  BY <1>1 DEF GetOfPin, DirectionGet, TypeOfFamily
<1>2. CASE family = "pin"
  <2>1. value \in PinGet(p)
    BY <1>2 DEF GetOfPin
  <2>2. value \in BOOLEAN
    BY <2>1, Zenon DEF PinGet, DigitalPinGet, Arrays
  <2> QED
    BY <1>2, <2>2 DEF TypeOfFamily
<1>3. CASE family = "counter"
  <2>1. value \in CounterGet(p)
    BY <1>3 DEF GetOfPin
  <2>2. value \in Counts
    BY <2>1 DEF CounterGet, Arrays, Counts
  <2> QED
    BY <1>3, <2>2 DEF TypeOfFamily, Counts
<1>4. CASE family = "counter_enabled"
  <2>1. value \in EnabledGet(p)
    BY <1>4 DEF GetOfPin
  <2>2. value \in BOOLEAN
    BY <2>1, Zenon DEF EnabledGet, Arrays
  <2> QED
    BY <1>4, <2>2 DEF TypeOfFamily
<1>5. CASE family = "high2low"
  <2>1. value \in HighToLowGet(p)
    BY <1>5 DEF GetOfPin
  <2>2. value \in BOOLEAN
    BY <2>1, Zenon DEF HighToLowGet, Arrays
  <2> QED
    BY <1>5, <2>2 DEF TypeOfFamily
<1>6. CASE family = "low2high"
  <2>1. value \in LowToHighGet(p)
    BY <1>6 DEF GetOfPin
  <2>2. value \in BOOLEAN
    BY <2>1, Zenon DEF LowToHighGet, Arrays
  <2> QED
    BY <1>6, <2>2 DEF TypeOfFamily
<1> QED
  BY <1>1, <1>2, <1>3, <1>4, <1>5, <1>6 DEF PinFamilies

LEMMA PropertyGetKeeps ==
  ASSUME IInv, NEW object \in Objects, PropertyGet(object)
  PROVE  IInv'
<1> USE DEF IInv
<1>1. UNCHANGED <<pinVars, counterVars, scan, historyVars>>
  BY DEF PropertyGet
<1>2. Arrays' /\ UnreadIsSpare' /\ DrivenAsWritten'
  BY <1>1 DEF Arrays, UnreadIsSpare, DrivenAsWritten, Level, pinVars, counterVars, historyVars
<1>3. Property(object) = object
  BY TablesLead
<1>4. CASE object[1] = "version" /\ Answer(object, "text")
  <2>1. answer' = <<"version", object[2], "text">>
    BY <1>4 DEF Answer
  <2>2. answer'[1] = "version" /\ answer'[3] = "text" /\ "text" \in TypeOfFamily("version")
    BY <2>1 DEF TypeOfFamily
  <2> QED
    BY <1>2, <2>2 DEF AnswerFits
<1>5. CASE /\ object[1] \in PinFamilies
           /\ \E value \in GetOfPin(object[1], object[2]) : Answer(object, value)
  <2>1. PICK value \in GetOfPin(object[1], object[2]) : Answer(object, value)
    BY <1>5
  <2>2. object[2] \in Pins
    BY <1>5 DEF Objects, PinFamilies
  <2>3. value \in TypeOfFamily(object[1])
    BY <1>5, <2>2, GetOfPinFits
  <2>4. answer'[1] = object[1] /\ answer'[3] = value /\ object[1] # "value"
    BY <1>5, <2>1 DEF Answer, PinFamilies
  <2>5. answer'[3] \in TypeOfFamily(answer'[1])
    BY <2>3, <2>4, Zenon
  <2>6. AnswerFits'
    BY <2>4, <2>5 DEF AnswerFits
  <2> QED
    BY <1>2, <2>6
<1>6. CASE object[1] = "raw" /\ RawGet(object)
  <2>1. PICK raw \in Readings : answer' = <<object[1], raw, raw>>
    BY <1>6 DEF RawGet
  <2>2. raw \in 0 .. 5013
    BY IoAssumption
  <2> QED
    BY <1>2, <1>6, <2>1, <2>2 DEF AnswerFits, TypeOfFamily
<1>7. CASE object[1] = "value" /\ ValueGet(object)
  <2>1. PICK raw \in Readings : answer' = <<object[1], raw, AnalogValue(raw)>>
    BY <1>7 DEF ValueGet
  <2>2. /\ AnalogValue(raw) \in 0 .. 5013
        /\ 10 * AnalogValue(raw) - 49 * raw \in -5 .. 5
    <3> DEFINE v == AnalogValue(raw)
    <3>1. raw \in Int
      BY IoAssumption
    <3>2. v \in Int /\ 0 <= v /\ v <= 5013 /\ -5 <= 10 * v - 49 * raw /\ 10 * v - 49 * raw <= 5
      BY AnalogValueFits
    <3> HIDE DEF v
    <3> DEFINE d == 10 * v - 49 * raw
    <3>3. d \in Int /\ -5 <= d /\ d <= 5
      BY <3>1, <3>2
    <3> HIDE DEF d
    <3>4. d \in -5 .. 5
      BY <3>3
    <3>5. v \in 0 .. 5013
      BY <3>2
    <3> QED
      BY <3>4, <3>5 DEF d, v
  <2>3. answer'[1] = "value" /\ answer'[2] = raw /\ answer'[3] = AnalogValue(raw)
    BY <1>7, <2>1
  <2>4. TypeOfFamily("value") = 0 .. 5013
    BY DEF TypeOfFamily
  <2>5. 10 * answer'[3] - 49 * answer'[2] \in -5 .. 5
    BY <2>2, <2>3
  <2>6. answer'[3] \in TypeOfFamily("value")
    BY <2>2, <2>3, <2>4
  <2>7. AnswerFits'
    BY <2>3, <2>5, <2>6, Zenon DEF AnswerFits
  <2> QED
    BY <1>2, <2>7
<1> QED
  BY <1>2, <1>3, <1>4, <1>5, <1>6, <1>7 DEF PropertyGet

LEMMA OthersKeep ==
  ASSUME IInv,
         \/ \E p \in Scanned, value \in BOOLEAN :
              SetEnabled(p, value) \/ SetHighToLow(p, value) \/ SetLowToHigh(p, value)
         \/ SetBeyond \/ RefuseOrCall \/ PollEnds
         \/ UNCHANGED vars
  PROVE  IInv'
<1> USE DEF IInv
<1>1. /\ UNCHANGED <<direction, lastRead, lastWritten, port, line, counter, driven, start, changes>>
      /\ enabled' \in [Scanned -> BOOLEAN] /\ highToLow' \in [Scanned -> BOOLEAN]
      /\ lowToHigh' \in [Scanned -> BOOLEAN]
  BY DEF SetEnabled, SetHighToLow, SetLowToHigh, SetBeyond, RefuseOrCall, PollEnds, vars,
         pinVars, counterVars, historyVars, Arrays
<1>2. scan' \in {0} \cup Scanned
  BY IoAssumption DEF SetEnabled, SetHighToLow, SetLowToHigh, SetBeyond, RefuseOrCall, PollEnds,
         vars, Done, Arrays, Scanned
<1>3. answer' \in {<<>>, answer}
  BY DEF SetEnabled, SetHighToLow, SetLowToHigh, SetBeyond, RefuseOrCall, PollEnds, vars, Done
<1> QED
  BY <1>1, <1>2, <1>3 DEF Arrays, UnreadIsSpare, Level, DrivenAsWritten, AnswerFits

LEMMA StepHolds == IInv /\ [Next]_vars => IInv'
<1> SUFFICES ASSUME IInv, [Next]_vars PROVE IInv'
  OBVIOUS
<1>1. CASE Request
  <2>1. CASE \E object \in Objects : PropertyGet(object)
    BY <2>1, PropertyGetKeeps
  <2>2. CASE \E p \in Scanned : Set(p)
    <3>1. PICK p \in Scanned : Set(p)
      BY <2>2
    <3>2. CASE \E text \in {"Input", "Output", "other"} : SetDirection(p, text)
      BY <3>2, SetDirectionKeeps
    <3>3. CASE \E count \in Settable : SetCounter(p, count)
      BY <3>3, SetCounterKeeps
    <3>4. CASE \E value \in BOOLEAN : SetPin(p, value)
      BY <3>4, SetPinKeeps
    <3>5. CASE \E value \in BOOLEAN : \/ SetEnabled(p, value) \/ SetHighToLow(p, value)
                                      \/ SetLowToHigh(p, value)
      BY <3>5, OthersKeep
    <3> QED
      BY <3>1, <3>2, <3>3, <3>4, <3>5 DEF Set
  <2>3. CASE SetBeyond \/ RefuseOrCall
    BY <2>3, OthersKeep
  <2> QED
    BY <1>1, <2>1, <2>2, <2>3 DEF Request
<1>2. CASE Loop
  BY <1>2, OthersKeep, ScanPinKeeps DEF Loop
<1>3. CASE \E p \in Scanned : LineChanges(p)
  BY <1>3, LineChangesKeeps
<1>4. CASE UNCHANGED vars
  BY <1>4, OthersKeep
<1> QED
  BY <1>1, <1>2, <1>3, <1>4 DEF Next

LEMMA Always == Spec => []IInv
BY InitHolds, StepHolds, PTL DEF Spec

-----------------------------------------------------------------------------
(* The theorems.                                                            *)

LEMMA IInvImplies == IInv => TypeOK /\ CountsAreReal /\ AnswersAreTrue
<1> SUFFICES ASSUME IInv PROVE TypeOK /\ CountsAreReal /\ AnswersAreTrue
  OBVIOUS
<1> USE DEF IInv
<1>1. TypeOK
  <2>1. \A f \in {direction, lastRead, lastWritten, enabled, highToLow, lowToHigh,
                  port, line, driven} : f \in [Scanned -> BOOLEAN]
    BY Zenon DEF Arrays
  <2>2. /\ counter \in [Scanned -> -IntMax - 1 .. IntMax]
        /\ start \in [Scanned -> -IntMax - 1 .. IntMax]
        /\ changes \in [Scanned -> Nat] /\ scan \in {0} \cup Scanned
    BY DEF Arrays, Counts
  <2>3. answer = <<>> \/ answer[3] \in TypeOfFamily(answer[1])
    BY DEF AnswerFits
  <2> QED
    BY <2>1, <2>2, <2>3 DEF TypeOK
<1>2. CountsAreReal
  <2> SUFFICES ASSUME NEW p \in Scanned PROVE counter[p] <= start[p] + changes[p] + 1
    BY DEF CountsAreReal
  <2>1. Unread(p) \in {0, 1} /\ counter[p] + Unread(p) <= start[p] + changes[p] + 1
    BY DEF UnreadIsSpare, Unread
  <2>2. counter[p] \in Int /\ start[p] \in Int /\ changes[p] \in Nat
    BY CountsAreInt DEF Arrays
  <2> QED
    BY <2>1, <2>2
<1>3. AnswersAreTrue
  <2>1. \A p \in Scanned : direction[p] /\ driven[p] => DigitalPinGet(p) = port[p]
    BY DEF DrivenAsWritten, DigitalPinGet
  <2>2. answer # <<>> /\ answer[1] = "value" => 10 * answer[3] - 49 * answer[2] \in -5 .. 5
    BY DEF AnswerFits
  <2> QED
    BY <2>1, <2>2 DEF AnswersAreTrue
<1> QED
  BY <1>1, <1>2, <1>3

\* Every variable keeps its type, and an answer has the type that the object
\* table declares for the object it was asked of.
THEOREM AlwaysTyped == Spec => []TypeOK
BY Always, IInvImplies, PTL

\* A counter never runs ahead of the level by more than the one edge that the
\* first scan sees (arduino_io.ino:225-254).
THEOREM CountsAlwaysReal == Spec => []CountsAreReal
BY Always, IInvImplies, PTL

\* A written output reports what it drives and an analog value the reading
\* (arduino_io.ino:64-74, 122-137, 180-187).
THEOREM AnswersAlwaysTrue == Spec => []AnswersAreTrue
BY Always, IInvImplies, PTL

=============================================================================
