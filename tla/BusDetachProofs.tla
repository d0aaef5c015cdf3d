--------------------------- MODULE BusDetachProofs ---------------------------
(***************************************************************************)
(* The bus can be detached and attached, pointer by pointer and with core1 *)
(* at work, for every number of cartridge banks, extended banks, stores    *)
(* and requests: the program finds the memory it selected, and while the   *)
(* bus is detached no memory is driven.                                    *)
(***************************************************************************)
EXTENDS BusDetach, SequenceTheorems, TLAPS

(* The slots. *)

RangeOf(s) == {s[i] : i \in DOMAIN s}

SlotSet == ({"l1"} \X (0 .. 3)) \cup ({"basicEn"} \X (0 .. 1)) \cup ({"osEn"} \X (0 .. 3))
           \cup ({"cart"} \X (0 .. CartBanks - 1)) \cup ({"ext"} \X (0 .. ExtBanks - 1))

LEMMA RangeConcat ==
    ASSUME NEW S, NEW a \in Seq(S), NEW b \in Seq(S)
    PROVE  a \o b \in Seq(S) /\ RangeOf(a \o b) = RangeOf(a) \cup RangeOf(b)
<1>1. /\ a \o b \in Seq(S) /\ Len(a \o b) = Len(a) + Len(b)
      /\ \A i \in 1 .. Len(a) + Len(b) : (a \o b)[i] = IF i <= Len(a) THEN a[i] ELSE b[i - Len(a)]
  BY ConcatProperties
<1>2. /\ Len(a) \in Nat /\ Len(b) \in Nat
      /\ DOMAIN (a \o b) = 1 .. Len(a) + Len(b)
      /\ DOMAIN a = 1 .. Len(a) /\ DOMAIN b = 1 .. Len(b)
  BY <1>1
<1> DEFINE c == a \o b
<1> HIDE DEF c
<1>3. /\ \A i \in 1 .. Len(a) + Len(b) : c[i] = IF i <= Len(a) THEN a[i] ELSE b[i - Len(a)]
      /\ DOMAIN c = 1 .. Len(a) + Len(b)
  BY <1>1, <1>2 DEF c
<1>4. ASSUME NEW i \in 1 .. Len(a) + Len(b)
      PROVE  c[i] \in RangeOf(a) \cup RangeOf(b)
  <2>1. CASE i <= Len(a)
    BY <1>2, <1>3, <2>1 DEF RangeOf
  <2>2. CASE i > Len(a)
    <3>1. i - Len(a) \in 1 .. Len(b) /\ c[i] = b[i - Len(a)]
      BY <1>2, <1>3, <2>2
    <3> QED BY <1>2, <3>1 DEF RangeOf
  <2> QED BY <1>2, <2>1, <2>2
<1>5. ASSUME NEW i \in 1 .. Len(a) PROVE a[i] \in RangeOf(c)
  <2>1. i \in 1 .. Len(a) + Len(b) /\ c[i] = a[i]
    BY <1>2, <1>3
  <2> QED BY <1>3, <2>1 DEF RangeOf
<1>6. ASSUME NEW i \in 1 .. Len(b) PROVE b[i] \in RangeOf(c)
  <2>1. Len(a) + i \in 1 .. Len(a) + Len(b) /\ c[Len(a) + i] = b[i]
    BY <1>2, <1>3
  <2> QED BY <1>3, <2>1 DEF RangeOf
<1>7. RangeOf(c) = RangeOf(a) \cup RangeOf(b)
  BY <1>2, <1>3, <1>4, <1>5, <1>6 DEF RangeOf
<1> QED BY <1>1, <1>7 DEF c

LEMMA RangeIndices ==
    ASSUME NEW kind, NEW n \in Nat, NEW T, \A k \in 0 .. n - 1 : <<kind, k>> \in T
    PROVE  /\ Indices(kind, n) \in Seq(T)
           /\ RangeOf(Indices(kind, n)) = {kind} \X (0 .. n - 1)
<1>1. Indices(kind, n) = [i \in 1 .. n |-> <<kind, i - 1>>]
  BY DEF Indices
<1>2. \A i \in 1 .. n : <<kind, i - 1>> \in T
  <2>1. \A i \in 1 .. n : i - 1 \in 0 .. n - 1
    OBVIOUS
  <2> QED BY <2>1
<1>3. Indices(kind, n) \in [1 .. n -> T]
  BY <1>1, <1>2
<1>4. Indices(kind, n) \in Seq(T)
  BY <1>3
<1>5. RangeOf(Indices(kind, n)) = {<<kind, i - 1>> : i \in 1 .. n}
  BY <1>1 DEF RangeOf
<1>6. ASSUME NEW s \in {kind} \X (0 .. n - 1) PROVE s \in {<<kind, i - 1>> : i \in 1 .. n}
  <2>1. PICK k \in 0 .. n - 1 : s = <<kind, k>>
    OBVIOUS
  <2>2. k + 1 \in 1 .. n /\ (k + 1) - 1 = k
    OBVIOUS
  <2> QED BY <2>1, <2>2
<1>7. ASSUME NEW i \in 1 .. n PROVE <<kind, i - 1>> \in {kind} \X (0 .. n - 1)
  OBVIOUS
<1>8. \A s \in RangeOf(Indices(kind, n)) : s \in {kind} \X (0 .. n - 1)
  BY <1>5, <1>7
<1> HIDE DEF Indices
<1>9. \A s \in {kind} \X (0 .. n - 1) : s \in RangeOf(Indices(kind, n))
  BY <1>5, <1>6
<1> QED BY <1>4, <1>8, <1>9

(* The copies go over the slots of all kinds. *)
LEMMA SlotsAre ==
    /\ Slots = SlotSet
    /\ DOMAIN SlotOrder = 1 .. Len(SlotOrder) /\ Len(SlotOrder) \in Nat \ {0}
    /\ \A s \in Slots : \E i \in 1 .. Len(SlotOrder) : s = SlotOrder[i]
    /\ \A i \in 1 .. Len(SlotOrder) : SlotOrder[i] \in Slots
<1> DEFINE a1 == Indices("l1", 4)
           a2 == Indices("basicEn", 2)
           a3 == Indices("osEn", 4)
           a4 == Indices("cart", CartBanks)
           a5 == Indices("ext", ExtBanks)
           b2 == a1 \o a2
           b3 == b2 \o a3
           b4 == b3 \o a4
           b5 == b4 \o a5
<1>0. CartBanks \in Nat /\ ExtBanks \in Nat
  BY BusAssumption
<1>1. a1 \in Seq(SlotSet) /\ RangeOf(a1) = {"l1"} \X (0 .. 3)
  <2>1. \A k \in 0 .. 4 - 1 : <<"l1", k>> \in SlotSet
    BY DEF SlotSet
  <2>2. ASSUME NEW n \in Nat, n = 4
        PROVE  /\ Indices("l1", n) \in Seq(SlotSet)
               /\ RangeOf(Indices("l1", n)) = {"l1"} \X (0 .. n - 1)
    <3>1. \A k \in 0 .. n - 1 : <<"l1", k>> \in SlotSet
      BY <2>1, <2>2
    <3> QED BY <3>1, RangeIndices
  <2> QED BY <2>2
<1>2. a2 \in Seq(SlotSet) /\ RangeOf(a2) = {"basicEn"} \X (0 .. 1)
  <2>1. \A k \in 0 .. 1 : <<"basicEn", k>> \in SlotSet
    BY DEF SlotSet
  <2>2. a2 \in Seq(SlotSet) /\ RangeOf(a2) = {"basicEn"} \X (0 .. 2 - 1)
    BY <2>1, RangeIndices
  <2> QED BY <2>2
<1>3. a3 \in Seq(SlotSet) /\ RangeOf(a3) = {"osEn"} \X (0 .. 3)
  <2>1. \A k \in 0 .. 4 - 1 : <<"osEn", k>> \in SlotSet
    BY DEF SlotSet
  <2>2. ASSUME NEW n \in Nat, n = 4
        PROVE  /\ Indices("osEn", n) \in Seq(SlotSet)
               /\ RangeOf(Indices("osEn", n)) = {"osEn"} \X (0 .. n - 1)
    <3>1. \A k \in 0 .. n - 1 : <<"osEn", k>> \in SlotSet
      BY <2>1, <2>2
    <3> QED BY <3>1, RangeIndices
  <2> QED BY <2>2
<1>4. a4 \in Seq(SlotSet) /\ RangeOf(a4) = {"cart"} \X (0 .. CartBanks - 1)
  <2>1. \A k \in 0 .. CartBanks - 1 : <<"cart", k>> \in SlotSet
    BY DEF SlotSet
  <2> QED BY <1>0, <2>1, RangeIndices
<1>5. a5 \in Seq(SlotSet) /\ RangeOf(a5) = {"ext"} \X (0 .. ExtBanks - 1)
  <2>1. \A k \in 0 .. ExtBanks - 1 : <<"ext", k>> \in SlotSet
    BY DEF SlotSet
  <2> QED BY <1>0, <2>1, RangeIndices
<1>6. SlotOrder = b5
  BY DEF SlotOrder
<1> HIDE DEF a1, a2, a3, a4, a5
<1> HIDE DEF b3, b4, b5
<1>7. b2 \in Seq(SlotSet) /\ RangeOf(b2) = RangeOf(a1) \cup RangeOf(a2)
  BY <1>1, <1>2, RangeConcat
<1> HIDE DEF b2
<1>8. b3 \in Seq(SlotSet) /\ RangeOf(b3) = RangeOf(b2) \cup RangeOf(a3)
  BY <1>3, <1>7, RangeConcat DEF b3
<1>81. b4 \in Seq(SlotSet) /\ RangeOf(b4) = RangeOf(b3) \cup RangeOf(a4)
  BY <1>4, <1>8, RangeConcat DEF b4
<1>82. b5 \in Seq(SlotSet) /\ RangeOf(b5) = RangeOf(b4) \cup RangeOf(a5)
  BY <1>5, <1>81, RangeConcat DEF b5
<1>83. SlotOrder \in Seq(SlotSet) /\ RangeOf(SlotOrder) = SlotSet
  BY <1>1, <1>2, <1>3, <1>4, <1>5, <1>6, <1>7, <1>8, <1>81, <1>82 DEF SlotSet
<1>9. Slots = RangeOf(SlotOrder)
  BY DEF Slots, RangeOf
<1>10. DOMAIN SlotOrder = 1 .. Len(SlotOrder) /\ Len(SlotOrder) \in Nat
  BY <1>83
<1>11. \A s \in Slots : \E i \in 1 .. Len(SlotOrder) : s = SlotOrder[i]
  BY <1>9, <1>10 DEF RangeOf
<1>12. Len(SlotOrder) # 0
  <2>1. <<"l1", 0>> \in Slots
    BY <1>9, <1>83 DEF SlotSet
  <2>2. \E i \in 1 .. Len(SlotOrder) : TRUE
    BY <1>11, <2>1
  <2> QED BY <1>10, <2>2
<1>13. \A i \in 1 .. Len(SlotOrder) : SlotOrder[i] \in Slots
  BY <1>9, <1>10 DEF RangeOf
<1> QED BY <1>9, <1>10, <1>11, <1>12, <1>13, <1>83

LEMMA SlotNames ==
    /\ \A n \in 0 .. 3 : <<"l1", n>> \in Slots /\ <<"osEn", n>> \in Slots
    /\ <<"basicEn", 0>> \in Slots /\ <<"basicEn", 1>> \in Slots
    /\ \A b \in 0 .. CartBanks - 1 : <<"cart", b>> \in Slots
    /\ \A e \in 0 .. ExtBanks - 1 : <<"ext", e>> \in Slots
BY SlotsAre DEF SlotSet

-----------------------------------------------------------------------------
(* Tables. *)

LEMMA TableNames ==
    /\ Dummy \in Tables /\ Table("basic", 0) \in Tables /\ Table("ext", 0) \in Tables
    /\ \A n \in 0 .. 3 : Base(n) \in Tables
    /\ \A n \in 0 .. 2 : Table("os", n) \in Tables
    /\ \A n \in 1 .. MaxRequests + 1 : Table("cart", n) \in Tables
BY DEF Tables

LEMMA CartTableType ==
    ASSUME NEW b, NEW img \in 0 .. MaxRequests + 1
    PROVE  CartTable(b, img) \in Tables
<1>1. img # 0 => img \in 1 .. MaxRequests + 1
  BY BusAssumption
<1> QED BY <1>1, TableNames DEF CartTable

LEMMA MappedType == \A s \in Slots : Mapped(s) \in Tables
<1> SUFFICES ASSUME NEW s \in Slots PROVE Mapped(s) \in Tables
  OBVIOUS
<1>0. 1 \in 0 .. MaxRequests + 1
  BY BusAssumption
<1>1. CASE s \in {"l1"} \X (0 .. 3)
  <2>1. PICK n \in 0 .. 3 : s = <<"l1", n>>
    BY <1>1
  <2> QED BY <1>0, <2>1, TableNames, CartTableType DEF Mapped
<1>2. CASE s \in {"basicEn"} \X (0 .. 1)
  <2>1. PICK n \in 0 .. 1 : s = <<"basicEn", n>>
    BY <1>2
  <2> QED BY <1>0, <2>1, TableNames, CartTableType DEF Mapped
<1>3. CASE s \in {"osEn"} \X (0 .. 3)
  <2>1. PICK n \in 0 .. 3 : s = <<"osEn", n>>
    BY <1>3
  <2>2. (IF n = 3 THEN 2 ELSE n) \in 0 .. 2
    BY <2>1
  <2> QED BY <2>1, <2>2, TableNames DEF Mapped
<1>4. CASE s \in {"cart"} \X (0 .. CartBanks - 1)
  <2>1. PICK n \in 0 .. CartBanks - 1 : s = <<"cart", n>>
    BY <1>4
  <2> QED BY <1>0, <2>1, CartTableType DEF Mapped
<1>5. CASE s \in {"ext"} \X (0 .. ExtBanks - 1)
  <2>1. PICK n \in 0 .. ExtBanks - 1 : s = <<"ext", n>>
    BY <1>5
  <2> QED BY <2>1, TableNames DEF Mapped
<1> QED BY <1>1, <1>2, <1>3, <1>4, <1>5, SlotsAre DEF SlotSet

(* Cycles of core1. *)
LEMMA ReadTables ==
    ASSUME BusTypeOK, mmu' = AfterRead(mmu)
    PROVE  /\ mmu' \in [Slots -> Tables]
           /\ mmu'[<<"l1", 2>>] = mmu[<<"basicEn", portb.basic>>]
           /\ mmu'[<<"l1", 3>>] = mmu[<<"osEn", portb.os + 2 * newport>>]
           /\ mmu'[<<"l1", 1>>] = mmu[<<"ext", portb.ext>>]
           /\ \A s \in Slots \ {<<"l1", 1>>, <<"l1", 2>>, <<"l1", 3>>} : mmu'[s] = mmu[s]
<1> DEFINE a1 == <<"l1", 1>>
           a2 == <<"l1", 2>>
           a3 == <<"l1", 3>>
           x == mmu[<<"basicEn", portb.basic>>]
           y == mmu[<<"osEn", portb.os + 2 * newport>>]
           z == mmu[<<"ext", portb.ext>>]
<1>1. /\ a1 \in Slots /\ a2 \in Slots /\ a3 \in Slots
      /\ a1 # a2 /\ a1 # a3 /\ a2 # a3
  BY SlotNames
<1>2. x \in Tables /\ y \in Tables /\ z \in Tables /\ mmu \in [Slots -> Tables]
  <2>1. portb.basic \in 0 .. 1 /\ portb.os + 2 * newport \in 0 .. 3 /\ portb.ext \in 0 .. ExtBanks - 1
    BY DEF BusTypeOK
  <2>2. /\ <<"basicEn", portb.basic>> \in Slots /\ <<"osEn", portb.os + 2 * newport>> \in Slots
        /\ <<"ext", portb.ext>> \in Slots
    BY <2>1, SlotNames
  <2> QED BY <2>2 DEF BusTypeOK
<1>3. mmu' = [mmu EXCEPT ![a2] = x, ![a3] = y, ![a1] = z]
  BY DEF AfterRead
<1> HIDE DEF a1, a2, a3, x, y, z
<1>4. /\ mmu' \in [Slots -> Tables]
      /\ mmu'[a2] = x /\ mmu'[a3] = y /\ mmu'[a1] = z
      /\ \A s \in Slots \ {a1, a2, a3} : mmu'[s] = mmu[s]
  BY <1>1, <1>2, <1>3
<1> QED BY <1>4 DEF a1, a2, a3, x, y, z

LEMMA WriteTables ==
    ASSUME BusTypeOK, NEW d5 \in 0 .. CartBanks - 1, mmu' = AfterWrite(mmu, d5)
    PROVE  /\ mmu' \in [Slots -> Tables]
           /\ mmu'[<<"basicEn", 1>>] = mmu[<<"cart", d5>>]
           /\ mmu'[<<"l1", 2>>] = mmu[<<"cart", d5>>] \/ mmu'[<<"l1", 2>>] = mmu[<<"basicEn", 0>>]
           /\ \A s \in Slots \ {<<"l1", 2>>, <<"basicEn", 1>>} : mmu'[s] = mmu[s]
<1> DEFINE a == <<"basicEn", 1>>
           b == <<"l1", 2>>
           c == mmu[<<"cart", d5>>]
           d == mmu[<<"basicEn", 0>>]
           e == IF portb.basic = 1 THEN c ELSE d
<1>1. a \in Slots /\ b \in Slots /\ a # b
  BY SlotNames
<1>2. c \in Tables /\ d \in Tables /\ mmu \in [Slots -> Tables]
  BY SlotNames DEF BusTypeOK
<1>3. mmu' = [mmu EXCEPT ![a] = c, ![b] = e]
  BY DEF AfterWrite
<1>4. e = c \/ e = d
  OBVIOUS
<1> HIDE DEF a, b, c, d, e
<1>5. /\ mmu' \in [Slots -> Tables]
      /\ mmu'[a] = c /\ (mmu'[b] = c \/ mmu'[b] = d)
      /\ \A s \in Slots \ {a, b} : mmu'[s] = mmu[s]
  BY <1>1, <1>2, <1>3, <1>4
<1> QED BY <1>5 DEF a, b, c, d

(* initMmuBlocks *)
LEMMA InitTables ==
    ASSUME BusTypeOK, mmu' = InitMmuBlocks(mmu)
    PROVE  mmu' \in [Slots -> Tables]
<1>1. mmu \in [Slots -> Tables] /\ image \in 0 .. MaxRequests + 1
  BY DEF BusTypeOK
<1>2. \A s : CartTable(s[2], image) \in Tables /\ CartTable(0, image) \in Tables
  BY <1>1, CartTableType
<1> QED BY <1>1, <1>2 DEF InitMmuBlocks

LEMMA InitTypes == BusInit => BusTypeOK
<1> SUFFICES ASSUME BusInit PROVE BusTypeOK
  OBVIOUS
<1>1. {mmu, saved} \subseteq [Slots -> Tables]
  BY MappedType DEF BusInit
<1>2. portb \in [os : 0 .. 1, basic : 0 .. 1, ext : 0 .. ExtBanks - 1]
  BY BusAssumption DEF BusInit
<1>3. /\ newport \in 0 .. 1 /\ {lastD5, savedD5, chosen} \subseteq 0 .. CartBanks - 1
      /\ image \in 0 .. MaxRequests + 1
      /\ stores \in 0 .. MaxStores /\ requests \in 0 .. MaxRequests
  BY BusAssumption DEF BusInit
<1>4. slot \in DOMAIN SlotOrder
  BY SlotsAre DEF BusInit
<1>5. /\ pc \in {"run", "stack"} /\ cmd \in Commands \cup {"none"}
      /\ core0 \in {"poll", "save", "disable", "offset", "quiet", "detached", "handled", "enable",
                    "attached", "wait"}
      /\ seen \subseteq {"read", "write"}
      /\ {screenMemMapped, fresh} \subseteq BOOLEAN
  BY DEF BusInit
<1> QED BY <1>1, <1>2, <1>3, <1>4, <1>5 DEF BusTypeOK

(* Every step keeps the types. *)
LEMMA StepTypes == BusTypeOK /\ [BusNext]_busVars => BusTypeOK'
<1> SUFFICES ASSUME BusTypeOK, [BusNext]_busVars PROVE BusTypeOK'
  OBVIOUS
<1>0. /\ mmu \in [Slots -> Tables] /\ saved \in [Slots -> Tables]
      /\ lastD5 \in 0 .. CartBanks - 1
  BY DEF BusTypeOK
<1>1. CASE ReadCycle
  <2>1. mmu' \in [Slots -> Tables]
    BY <1>1, ReadTables DEF ReadCycle
  <2> QED BY <1>1, <2>1 DEF ReadCycle, BusTypeOK, request
<1>2. ASSUME NEW d5 \in 0 .. CartBanks - 1, Store(d5)
      PROVE  /\ mmu' \in [Slots -> Tables] /\ stores' \in 0 .. MaxStores
             /\ lastD5' = d5 /\ fresh' \in BOOLEAN
             /\ UNCHANGED <<saved, savedD5, image, core0, slot, screenMemMapped, seen, cmd, requests,
                           pc>>
  <2>1. mmu' \in [Slots -> Tables]
    BY <1>2, WriteTables DEF Store
  <2>2. stores' \in 0 .. MaxStores
    BY <1>2, BusAssumption DEF Store, BusTypeOK
  <2> QED BY <1>2, <2>1, <2>2 DEF Store, request
<1>3. ASSUME NEW os \in 0 .. 1, NEW basic \in 0 .. 1, NEW ext \in 0 .. ExtBanks - 1,
             WritePORTB(os, basic, ext)
      PROVE  BusTypeOK'
  BY <1>0, <1>2, <1>3 DEF WritePORTB, BusTypeOK
<1>4. ASSUME NEW n \in 0 .. 1, SelectPBI(n) PROVE BusTypeOK'
  BY <1>0, <1>2, <1>4 DEF SelectPBI, BusTypeOK
<1>5. ASSUME NEW b \in 0 .. CartBanks - 1, WriteD5(b) PROVE BusTypeOK'
  BY <1>2, <1>5 DEF WriteD5, BusTypeOK
<1>6. ASSUME NEW c \in Commands, Issue(c) PROVE BusTypeOK'
  <2>1. mmu' \in [Slots -> Tables]
    BY <1>0, <1>6, WriteTables DEF Issue
  <2>2. requests' \in 0 .. MaxRequests
    BY <1>6, BusAssumption DEF Issue, BusTypeOK
  <2> QED BY <1>6, <2>1, <2>2 DEF Issue, BusTypeOK
<1>7. CASE DummyWrite
  <2>1. mmu' \in [Slots -> Tables]
    BY <1>0, <1>7, WriteTables DEF DummyWrite
  <2> QED BY <1>7, <2>1 DEF DummyWrite, BusTypeOK, request, sixty502
<1>8. CASE LeaveStack
  <2>1. mmu' \in [Slots -> Tables]
    BY <1>8, ReadTables DEF LeaveStack
  <2> QED BY <1>8, <2>1 DEF LeaveStack, BusTypeOK, request
<1>9. ASSUME NEW b \in 0 .. CartBanks - 1, Mistimed(b) PROVE BusTypeOK'
  <2>1. mmu' \in [Slots -> Tables]
    BY <1>9, WriteTables DEF Mistimed
  <2> QED BY <1>9, <2>1 DEF Mistimed, BusTypeOK, request, sixty502
<1>10. ASSUME NEW here, NEW there, Copying(here, there)
       PROVE  slot' \in DOMAIN SlotOrder /\ SlotOrder[slot] \in Slots /\ core0' \in {here, there}
  BY <1>10, SlotsAre DEF Copying, BusTypeOK
<1>11. CASE SaveTables
  <2>1. saved' = [saved EXCEPT ![SlotOrder[slot]] = mmu[SlotOrder[slot]]]
    BY <1>11 DEF SaveTables
  <2>2. SlotOrder[slot] \in Slots /\ slot' \in DOMAIN SlotOrder /\ core0' \in {"save", "disable"}
    BY <1>10, <1>11 DEF SaveTables
  <2>3. saved' \in [Slots -> Tables]
    BY <1>0, <2>1, <2>2
  <2> QED BY <1>11, <2>2, <2>3 DEF SaveTables, BusTypeOK, request, sixty502
<1>12. CASE DisableTables
  <2>1. mmu' = [mmu EXCEPT ![SlotOrder[slot]] = Dummy]
    BY <1>12 DEF DisableTables
  <2>2. SlotOrder[slot] \in Slots /\ slot' \in DOMAIN SlotOrder /\ core0' \in {"disable", "offset"}
    BY <1>10, <1>12 DEF DisableTables
  <2>3. mmu' \in [Slots -> Tables]
    BY <1>0, <2>1, <2>2, TableNames
  <2> QED BY <1>12, <2>2, <2>3 DEF DisableTables, BusTypeOK, request, sixty502
<1>13. CASE EnableTables
  <2>1. mmu' = [mmu EXCEPT ![SlotOrder[slot]] = saved[SlotOrder[slot]]]
    BY <1>13 DEF EnableTables
  <2>2. SlotOrder[slot] \in Slots /\ slot' \in DOMAIN SlotOrder /\ core0' \in {"enable", "attached"}
    BY <1>10, <1>13 DEF EnableTables
  <2>3. mmu' \in [Slots -> Tables]
    BY <1>0, <2>1, <2>2
  <2> QED BY <1>13, <2>2, <2>3 DEF EnableTables, BusTypeOK, request, sixty502
<1>14. CASE StartRequest
  BY <1>14 DEF StartRequest, Goto, BusTypeOK, request, sixty502
<1>15. CASE SaveD5
  BY <1>15 DEF SaveD5, Goto, BusTypeOK, request, sixty502
<1>16. CASE EnableInterrupts
  BY <1>16 DEF EnableInterrupts, Goto, BusTypeOK, request, sixty502
<1>17. CASE HandleDisk
  BY <1>17 DEF HandleDisk, Goto, BusTypeOK, request, sixty502
<1>18. CASE HandleScreen
  <2>1. mmu' \in [Slots -> Tables]
    BY <1>0, <1>18, InitTables DEF HandleScreen
  <2> QED BY <1>18, <2>1 DEF HandleScreen, Goto, BusTypeOK, request, sixty502
<1>19. CASE HandleOpen
  <2>1. image' \in 0 .. MaxRequests + 1
    BY <1>19, BusAssumption DEF HandleOpen, BusTypeOK
  <2> QED BY <1>19, <2>1 DEF HandleOpen, Goto, BusTypeOK, request, sixty502
<1>20. CASE RestoreD5
  BY <1>20 DEF RestoreD5, Goto, BusTypeOK, request, sixty502
<1>21. CASE WaitForDummyWrite
  BY <1>21 DEF WaitForDummyWrite, Goto, BusTypeOK, request, sixty502
<1>22. CASE GiveBack
  BY <1>22 DEF GiveBack, Goto, BusTypeOK, sixty502
<1>23. CASE UNCHANGED busVars
  BY <1>23 DEF busVars, BusTypeOK, request, sixty502
<1> QED BY <1>1, <1>3, <1>4, <1>5, <1>6, <1>7, <1>8, <1>9, <1>11, <1>12, <1>13, <1>14, <1>15,
           <1>16, <1>17, <1>18, <1>19, <1>20, <1>21, <1>22, <1>23 DEF BusNext, Core1, Core0

-----------------------------------------------------------------------------
(* The pointers that core1 does not write. *)
Taken == {<<"l1", 1>>, <<"l1", 2>>, <<"l1", 3>>, <<"basicEn", 1>>}
Fixed == Slots \ Taken

(* Where the request is. *)
Order ==
    /\ pc = "run" => cmd = "none"
    /\ cmd = "none" => core0 = "poll"
    /\ core0 \notin {"save", "disable", "enable"} => slot = 1

(* The offset of page D5 is the program's, or saved. *)
Offsets ==
    /\ core0 \notin {"detached", "handled"} => lastD5 = chosen
    /\ core0 \in {"quiet", "detached", "handled"} => savedD5 = chosen

(* What mmuInit laid out is in mmuState or in the copy, or being copied.   *)
Layout ==
    /\ core0 \in {"poll", "save", "attached", "wait"} => \A s \in Fixed : mmu[s] = Mapped(s)
    /\ core0 = "save" =>
        \A i \in 1 .. slot - 1 :
            SlotOrder[i] \in Fixed => saved[SlotOrder[i]] = Mapped(SlotOrder[i])
    /\ core0 \in {"disable", "offset", "quiet", "detached", "handled", "enable"} =>
        \A s \in Fixed : saved[s] = Mapped(s)
    /\ core0 = "enable" =>
        \A i \in 1 .. slot - 1 :
            SlotOrder[i] \in Fixed => mmu[SlotOrder[i]] = Mapped(SlotOrder[i])

(* The cartridge's multiplexer follows with the next write. *)
CartFollows ==
    core0 = "poll" \/ (core0 = "wait" /\ "write" \in seen) =>
        mmu[<<"basicEn", 1>>] = Mapped(<<"cart", chosen>>)

(* The pointers go dead one by one, and those that core1 takes with the    *)
(* first write and read.                                                   *)
Dead ==
    /\ core0 = "disable" =>
        \A i \in 1 .. slot - 1 : SlotOrder[i] \in Fixed => mmu[SlotOrder[i]] = Dummy
    /\ core0 \in {"offset", "quiet", "detached"} \/ (core0 = "handled" /\ cmd # "screen") =>
        \A s \in Fixed : mmu[s] = Dummy
    /\ core0 \in {"quiet", "detached"} \/ (core0 = "handled" /\ cmd # "screen") =>
        /\ "read" \in seen => mmu[<<"l1", 1>>] = Dummy /\ mmu[<<"l1", 3>>] = Dummy
        /\ "write" \in seen => mmu[<<"l1", 2>>] = Dummy /\ mmu[<<"basicEn", 1>>] = Dummy

DetachInv == Order /\ Offsets /\ Layout /\ CartFollows /\ Dead /\ WindowsFollow

LEMMA SlotFacts ==
    /\ <<"l1", 0>> \in Fixed /\ <<"basicEn", 0>> \in Fixed
    /\ \A n \in 0 .. 3 : <<"osEn", n>> \in Fixed
    /\ \A b \in 0 .. CartBanks - 1 : <<"cart", b>> \in Fixed
    /\ \A e \in 0 .. ExtBanks - 1 : <<"ext", e>> \in Fixed
    /\ Fixed \subseteq Slots
BY SlotNames DEF Fixed, Taken

LEMMA InitDetach == BusInit => DetachInv
<1> SUFFICES ASSUME BusInit PROVE DetachInv
  OBVIOUS
<1>1. \A s \in Slots : mmu[s] = Mapped(s)
  BY DEF BusInit
<1>2. <<"basicEn", 1>> \in Slots
  BY SlotNames
<1>3. CartFollows
  BY <1>1, <1>2 DEF BusInit, CartFollows, Mapped
<1> QED BY <1>1, <1>3, SlotFacts
        DEF BusInit, DetachInv, Order, Offsets, Layout, Dead, WindowsFollow

(* Cycles. *)
Reads ==
    /\ mmu' = AfterRead(mmu)
    /\ seen' \in {seen, seen \cup {"read"}}
    /\ pc' = pc \/ (pc' = "run" /\ cmd = "none")
    /\ UNCHANGED <<lastD5, chosen, cmd, portb, newport>>

Stores ==
    /\ core0 = "poll" /\ pc = "run"
    /\ lastD5' \in 0 .. CartBanks - 1 /\ mmu' = AfterWrite(mmu, lastD5')
    /\ lastD5 = chosen => lastD5' = chosen'
    /\ \/ pc' = "run" /\ cmd' = cmd
       \/ pc' = "stack" /\ cmd' \in Commands
    /\ fresh' = FALSE /\ seen' = seen

OtherWrites ==
    /\ lastD5' \in 0 .. CartBanks - 1 /\ mmu' = AfterWrite(mmu, lastD5')
    /\ \/ pc = "stack" /\ lastD5' = lastD5
       \/ core0 \in {"detached", "handled"}
    /\ seen' = seen \cup {"write"}
    /\ UNCHANGED <<sixty502, cmd>>

LEMMA Core1Step ==
    ASSUME BusTypeOK, Core1
    PROVE  /\ Reads \/ Stores \/ OtherWrites
           /\ UNCHANGED <<saved, savedD5, core0, slot>>
<1>0. lastD5 \in 0 .. CartBanks - 1
  BY DEF BusTypeOK
<1>1. CASE ReadCycle
  BY <1>1 DEF ReadCycle, request, Reads
<1>2. ASSUME NEW d5 \in 0 .. CartBanks - 1, Store(d5)
      PROVE  /\ core0 = "poll" /\ pc = "run" /\ fresh' = FALSE /\ lastD5' = d5
             /\ mmu' = AfterWrite(mmu, lastD5')
             /\ UNCHANGED <<saved, savedD5, core0, slot, seen, cmd, pc>>
  BY <1>2 DEF Store, request
<1>3. ASSUME NEW os \in 0 .. 1, NEW basic \in 0 .. 1, NEW ext \in 0 .. ExtBanks - 1,
             WritePORTB(os, basic, ext)
      PROVE  Stores /\ UNCHANGED <<saved, savedD5, core0, slot>>
  BY <1>0, <1>2, <1>3 DEF WritePORTB, Stores
<1>4. ASSUME NEW n \in 0 .. 1, SelectPBI(n)
      PROVE  Stores /\ UNCHANGED <<saved, savedD5, core0, slot>>
  BY <1>0, <1>2, <1>4 DEF SelectPBI, Stores
<1>5. ASSUME NEW b \in 0 .. CartBanks - 1, WriteD5(b)
      PROVE  Stores /\ UNCHANGED <<saved, savedD5, core0, slot>>
  BY <1>2, <1>5 DEF WriteD5, Stores
<1>6. ASSUME NEW c \in Commands, Issue(c)
      PROVE  Stores /\ UNCHANGED <<saved, savedD5, core0, slot>>
  BY <1>0, <1>6 DEF Issue, Stores
<1>7. CASE DummyWrite
  BY <1>0, <1>7 DEF DummyWrite, request, OtherWrites
<1>8. CASE LeaveStack
  BY <1>8 DEF LeaveStack, request, Reads
<1>9. ASSUME NEW b \in 0 .. CartBanks - 1, Mistimed(b)
      PROVE  OtherWrites /\ UNCHANGED <<saved, savedD5, core0, slot>>
  BY <1>9 DEF Mistimed, request, OtherWrites
<1> QED BY <1>1, <1>3, <1>4, <1>5, <1>6, <1>7, <1>8, <1>9 DEF Core1

(* Core1 leaves the fixed pointers alone. *)
LEMMA Core1Fixed ==
    ASSUME BusTypeOK, Core1
    PROVE  \A s \in Fixed : mmu'[s] = mmu[s]
<1>1. CASE mmu' = AfterRead(mmu)
  BY <1>1, ReadTables DEF Fixed, Taken
<1>2. CASE mmu' = AfterWrite(mmu, lastD5') /\ lastD5' \in 0 .. CartBanks - 1
  BY <1>2, WriteTables DEF Fixed, Taken
<1> QED BY <1>1, <1>2, Core1Step DEF Reads, Stores, OtherWrites

(* Core0 works for a program on the stack. *)
LEMMA Core0Step ==
    ASSUME Order, Core0
    PROVE  /\ UNCHANGED sixty502 /\ cmd # "none" /\ pc # "run"
           /\ cmd' = cmd \/ (cmd' = "none" /\ core0' = "poll")
<1>1. UNCHANGED sixty502 /\ (core0 = "poll" => cmd # "none")
  BY DEF Core0, StartRequest, SaveTables, DisableTables, SaveD5, EnableInterrupts, HandleDisk,
         HandleScreen, HandleOpen, RestoreD5, EnableTables, WaitForDummyWrite, GiveBack, Goto,
         Copying
<1>2. cmd' = cmd \/ (cmd' = "none" /\ core0' = "poll")
  BY DEF Core0, StartRequest, SaveTables, DisableTables, SaveD5, EnableInterrupts, HandleDisk,
         HandleScreen, HandleOpen, RestoreD5, EnableTables, WaitForDummyWrite, GiveBack, Goto,
         Copying, request
<1> QED BY <1>1, <1>2 DEF Order

LEMMA StepOrder ==
    ASSUME BusTypeOK, Order, BusNext
    PROVE  Order'
<1>1. CASE Core1
  <2>1. "none" \notin Commands
    BY BusAssumption
  <2> QED BY <1>1, <2>1, Core1Step DEF Order, Reads, Stores, OtherWrites, sixty502
<1>2. CASE Core0
  <2>1. pc' # "run"
    BY <1>2, Core0Step DEF sixty502
  <2>2. cmd' = "none" => core0' = "poll"
    BY <1>2, Core0Step
  <2>3. core0' \notin {"save", "disable", "enable"} => slot' = 1
    BY <1>2 DEF Order, Core0, StartRequest, SaveTables, DisableTables, SaveD5, EnableInterrupts,
         HandleDisk, HandleScreen, HandleOpen, RestoreD5, EnableTables, WaitForDummyWrite,
         GiveBack, Goto, Copying
  <2> QED BY <2>1, <2>2, <2>3 DEF Order
<1> QED BY <1>1, <1>2 DEF BusNext

LEMMA StepOffsets ==
    ASSUME BusTypeOK, Order, Offsets, BusNext
    PROVE  Offsets'
<1>1. CASE Core1
  BY <1>1, Core1Step DEF Offsets, Reads, Stores, OtherWrites, sixty502
<1>2. CASE Core0
  BY <1>2 DEF Offsets, Core0, StartRequest, SaveTables, DisableTables, SaveD5, EnableInterrupts,
         HandleDisk, HandleScreen, HandleOpen, RestoreD5, EnableTables, WaitForDummyWrite,
         GiveBack, Goto, Copying, sixty502
<1> QED BY <1>1, <1>2 DEF BusNext

(* A pointer that is copied: the next one, and then all of them. *)
LEMMA CopyStep ==
    ASSUME BusTypeOK, NEW here, NEW there, here # there, Copying(here, there)
    PROVE  /\ SlotOrder[slot] \in Slots
           /\ slot \in 1 .. Len(SlotOrder)
           /\ core0 = here
           /\ \/ core0' = here /\ slot' = slot + 1
              \/ /\ core0' = there /\ slot' = 1
                 /\ \A s \in Slots : \E i \in 1 .. slot : s = SlotOrder[i]
<1>1. slot \in 1 .. Len(SlotOrder)
  BY SlotsAre DEF BusTypeOK
<1> QED BY <1>1, SlotsAre DEF Copying

LEMMA StepLayout ==
    ASSUME BusTypeOK, Order, Layout, BusNext
    PROVE  Layout'
<1>0. /\ \A i \in 1 .. Len(SlotOrder) : SlotOrder[i] \in Slots
      /\ mmu \in [Slots -> Tables] /\ saved \in [Slots -> Tables]
      /\ Fixed \subseteq Slots
      /\ slot \in 1 .. Len(SlotOrder) /\ Len(SlotOrder) \in Nat
  BY SlotsAre, SlotFacts DEF BusTypeOK
<1>1. CASE Core1
  <2>1. /\ \A s \in Fixed : mmu'[s] = mmu[s]
        /\ UNCHANGED <<saved, core0, slot>>
    BY <1>1, Core1Step, Core1Fixed
  <2> QED BY <2>1 DEF Layout
<1>2. CASE StartRequest
  BY <1>0, <1>2 DEF StartRequest, Goto, Layout, Order
<1>3. CASE SaveTables
  <2> DEFINE p == SlotOrder[slot]
  <2>1. /\ p \in Slots /\ core0 = "save"
        /\ \/ core0' = "save" /\ slot' = slot + 1
           \/ /\ core0' = "disable" /\ slot' = 1
              /\ \A s \in Slots : \E i \in 1 .. slot : s = SlotOrder[i]
    BY <1>3, CopyStep DEF SaveTables
  <2>2. saved' = [saved EXCEPT ![p] = mmu[p]] /\ mmu' = mmu
    BY <1>3 DEF SaveTables
  <2>3. /\ saved'[p] = mmu[p]
        /\ \A s \in Slots \ {p} : saved'[s] = saved[s]
    BY <1>0, <2>1, <2>2
  <2>4. \A i \in 1 .. slot : SlotOrder[i] \in Fixed => saved'[SlotOrder[i]] = Mapped(SlotOrder[i])
    <3> SUFFICES ASSUME NEW i \in 1 .. slot, SlotOrder[i] \in Fixed
                 PROVE  saved'[SlotOrder[i]] = Mapped(SlotOrder[i])
      OBVIOUS
    <3>1. CASE SlotOrder[i] = p
      BY <2>1, <2>3, <3>1 DEF Layout
    <3>2. CASE SlotOrder[i] # p
      <4>1. i \in 1 .. slot - 1
        BY <1>0, <3>2
      <4> QED BY <1>0, <2>1, <2>3, <3>2, <4>1 DEF Layout
    <3> QED BY <3>1, <3>2
  <2>5. core0' = "save" => \A i \in 1 .. slot' - 1 :
            SlotOrder[i] \in Fixed => saved'[SlotOrder[i]] = Mapped(SlotOrder[i])
    BY <1>0, <2>1, <2>4
  <2>6. core0' = "disable" => \A s \in Fixed : saved'[s] = Mapped(s)
    BY <1>0, <2>1, <2>4
  <2>7. core0' = "save" => \A s \in Fixed : mmu'[s] = Mapped(s)
    BY <2>1, <2>2 DEF Layout
  <2> QED BY <2>1, <2>5, <2>6, <2>7 DEF Layout
<1>4. CASE DisableTables
  <2>1. core0 = "disable" /\ core0' \in {"disable", "offset"} /\ saved' = saved
    BY <1>4, CopyStep DEF DisableTables
  <2> QED BY <2>1 DEF Layout
<1>5. CASE SaveD5 \/ EnableInterrupts \/ HandleDisk \/ HandleOpen \/ WaitForDummyWrite \/ GiveBack
  BY <1>5 DEF SaveD5, EnableInterrupts, HandleDisk, HandleOpen, WaitForDummyWrite, GiveBack, Goto,
              Layout
<1>6. CASE HandleScreen
  BY <1>6 DEF HandleScreen, Goto, Layout
<1>7. CASE RestoreD5
  <2>1. slot' = 1 /\ saved' = saved /\ core0 = "handled" /\ core0' = "enable"
    BY <1>7 DEF RestoreD5, Goto, Order
  <2> QED BY <2>1 DEF Layout
<1>8. CASE EnableTables
  <2> DEFINE p == SlotOrder[slot]
  <2>1. /\ p \in Slots /\ core0 = "enable"
        /\ \/ core0' = "enable" /\ slot' = slot + 1
           \/ /\ core0' = "attached" /\ slot' = 1
              /\ \A s \in Slots : \E i \in 1 .. slot : s = SlotOrder[i]
    BY <1>8, CopyStep DEF EnableTables
  <2>2. mmu' = [mmu EXCEPT ![p] = saved[p]] /\ saved' = saved
    BY <1>8 DEF EnableTables
  <2>3. /\ mmu'[p] = saved[p]
        /\ \A s \in Slots \ {p} : mmu'[s] = mmu[s]
    BY <1>0, <2>1, <2>2
  <2>4. \A i \in 1 .. slot : SlotOrder[i] \in Fixed => mmu'[SlotOrder[i]] = Mapped(SlotOrder[i])
    <3> SUFFICES ASSUME NEW i \in 1 .. slot, SlotOrder[i] \in Fixed
                 PROVE  mmu'[SlotOrder[i]] = Mapped(SlotOrder[i])
      OBVIOUS
    <3>1. CASE SlotOrder[i] = p
      BY <2>1, <2>3, <3>1 DEF Layout
    <3>2. CASE SlotOrder[i] # p
      <4>1. i \in 1 .. slot - 1
        BY <1>0, <3>2
      <4> QED BY <1>0, <2>1, <2>3, <3>2, <4>1 DEF Layout
    <3> QED BY <3>1, <3>2
  <2>5. core0' = "enable" => \A i \in 1 .. slot' - 1 :
            SlotOrder[i] \in Fixed => mmu'[SlotOrder[i]] = Mapped(SlotOrder[i])
    BY <1>0, <2>1, <2>4
  <2>6. core0' = "attached" => \A s \in Fixed : mmu'[s] = Mapped(s)
    BY <1>0, <2>1, <2>4
  <2>7. core0' = "enable" => \A s \in Fixed : saved'[s] = Mapped(s)
    BY <2>1, <2>2 DEF Layout
  <2> QED BY <2>1, <2>5, <2>6, <2>7 DEF Layout
<1> QED BY <1>1, <1>2, <1>3, <1>4, <1>5, <1>6, <1>7, <1>8 DEF BusNext, Core0

LEMMA StepCart ==
    ASSUME BusTypeOK, Order, Offsets, Layout, CartFollows, BusNext, Offsets'
    PROVE  CartFollows'
<1> DEFINE m1 == <<"basicEn", 1>>
<1>0. \A b \in 0 .. CartBanks - 1 : <<"cart", b>> \in Fixed
  BY SlotFacts
<1>1. CASE Core1 /\ Reads
  <2>1. mmu'[m1] = mmu[m1]
    BY <1>1, ReadTables, SlotNames DEF Reads
  <2>2. chosen' = chosen /\ core0' = core0 /\ ("write" \in seen' => "write" \in seen)
    BY <1>1, Core1Step DEF Reads
  <2> QED BY <2>1, <2>2 DEF CartFollows
<1>2. CASE Core1 /\ (Stores \/ OtherWrites)
  <2>1. lastD5' \in 0 .. CartBanks - 1 /\ mmu' = AfterWrite(mmu, lastD5') /\ core0' = core0
    BY <1>2, Core1Step DEF Stores, OtherWrites
  <2>2. mmu'[m1] = mmu[<<"cart", lastD5'>>]
    BY <2>1, WriteTables
  <2>3. core0 \in {"poll", "wait"} => mmu'[m1] = Mapped(<<"cart", lastD5'>>)
    BY <1>0, <2>1, <2>2 DEF Layout
  <2>4. core0 \in {"poll", "wait"} => lastD5' = chosen'
    BY <2>1 DEF Offsets
  <2> QED BY <2>1, <2>3, <2>4 DEF CartFollows
<1>3. CASE Core0
  <2>1. CASE GiveBack
    BY <2>1 DEF GiveBack, Goto, sixty502, CartFollows
  <2>2. CASE WaitForDummyWrite
    BY <2>2 DEF WaitForDummyWrite, Goto, CartFollows
  <2>3. CASE ~GiveBack /\ ~WaitForDummyWrite
    <3>1. core0' \notin {"poll", "wait"}
      BY <1>3, <2>3 DEF Core0, StartRequest, SaveTables, DisableTables, SaveD5, EnableInterrupts,
         HandleDisk, HandleScreen, HandleOpen, RestoreD5, EnableTables, Goto, Copying
    <3> QED BY <3>1 DEF CartFollows
  <2> QED BY <2>1, <2>2, <2>3
<1> QED BY <1>1, <1>2, <1>3, Core1Step DEF BusNext

(* The register and the cartridge's multiplexer choose what a program sees. *)
LEMMA StepWindows ==
    ASSUME BusTypeOK, Order, Layout, CartFollows, WindowsFollow, BusNext
    PROVE  WindowsFollow'
<1>1. CASE Core1 /\ Reads
  <2> SUFFICES ASSUME pc' = "run" PROVE WindowsFollow'
    BY DEF WindowsFollow
  <2>1. core0 = "poll"
    BY <1>1 DEF Reads, Order
  <2>2. /\ portb.basic \in 0 .. 1 /\ portb.os + 2 * newport \in 0 .. 3
        /\ portb.ext \in 0 .. ExtBanks - 1
    BY DEF BusTypeOK
  <2>3. /\ mmu[<<"l1", 0>>] = Mapped(<<"l1", 0>>)
        /\ mmu[<<"ext", portb.ext>>] = Mapped(<<"ext", portb.ext>>)
        /\ mmu[<<"osEn", portb.os + 2 * newport>>] = Mapped(<<"osEn", portb.os + 2 * newport>>)
        /\ mmu[<<"basicEn", 0>>] = Mapped(<<"basicEn", 0>>)
        /\ mmu[<<"basicEn", 1>>] = Mapped(<<"cart", chosen>>)
    BY <2>1, <2>2, SlotFacts DEF Layout, CartFollows
  <2>4. /\ mmu'[<<"l1", 2>>] = mmu[<<"basicEn", portb.basic>>]
        /\ mmu'[<<"l1", 3>>] = mmu[<<"osEn", portb.os + 2 * newport>>]
        /\ mmu'[<<"l1", 1>>] = mmu[<<"ext", portb.ext>>]
        /\ mmu'[<<"l1", 0>>] = mmu[<<"l1", 0>>]
    BY <1>1, ReadTables, SlotNames DEF Reads
  <2>5. UNCHANGED <<portb, newport, chosen>>
    BY <1>1 DEF Reads
  <2>6. Mapped(<<"l1", 0>>) = Base(0) /\ Mapped(<<"basicEn", 0>>) = Table("basic", 0)
    BY DEF Mapped
  <2> HIDE DEF Mapped, Base, Table
  <2>7. mmu'[<<"l1", 2>>] = IF portb.basic = 0 THEN Table("basic", 0) ELSE Mapped(<<"cart", chosen>>)
    <3>1. CASE portb.basic = 0
      BY <2>3, <2>4, <2>6, <3>1
    <3>2. CASE portb.basic = 1
      BY <2>3, <2>4, <3>2
    <3> QED BY <2>2, <3>1, <3>2
  <2> QED BY <2>3, <2>4, <2>5, <2>6, <2>7 DEF WindowsFollow
<1>2. CASE Core1 /\ (Stores \/ OtherWrites)
  <2>1. fresh' = FALSE \/ pc' # "run"
    <3>1. CASE Stores
      BY <3>1 DEF Stores
    <3>2. CASE OtherWrites
      BY <3>2 DEF OtherWrites, Order, sixty502
    <3> QED BY <1>2, <3>1, <3>2
  <2> QED BY <2>1 DEF WindowsFollow
<1>3. CASE Core0
  BY <1>3, Core0Step DEF sixty502, WindowsFollow
<1> QED BY <1>1, <1>2, <1>3, Core1Step DEF BusNext

LEMMA StepDead ==
    ASSUME BusTypeOK, Dead, BusNext
    PROVE  Dead'
<1>0. /\ \A i \in 1 .. Len(SlotOrder) : SlotOrder[i] \in Slots
      /\ mmu \in [Slots -> Tables]
      /\ Fixed \subseteq Slots
      /\ slot \in 1 .. Len(SlotOrder) /\ Len(SlotOrder) \in Nat
      /\ portb.basic \in 0 .. 1 /\ portb.os + 2 * newport \in 0 .. 3
      /\ portb.ext \in 0 .. ExtBanks - 1
  <2>1. /\ mmu \in [Slots -> Tables] /\ slot \in DOMAIN SlotOrder /\ newport \in 0 .. 1
        /\ portb \in [os : 0 .. 1, basic : 0 .. 1, ext : 0 .. ExtBanks - 1]
    BY DEF BusTypeOK
  <2>2. portb.basic \in 0 .. 1 /\ portb.os + 2 * newport \in 0 .. 3 /\ portb.ext \in 0 .. ExtBanks - 1
    BY ONLY <2>1
  <2>3. /\ \A i \in 1 .. Len(SlotOrder) : SlotOrder[i] \in Slots
        /\ DOMAIN SlotOrder = 1 .. Len(SlotOrder) /\ Len(SlotOrder) \in Nat /\ Fixed \subseteq Slots
    BY ONLY SlotsAre, SlotFacts
  <2> QED BY ONLY <2>1, <2>2, <2>3
<1>1. CASE Core1 /\ Stores
  <2>1. core0' = "poll"
    BY <1>1, Core1Step DEF Stores
  <2> QED BY <2>1 DEF Dead
<1>2. CASE Core1 /\ Reads
  <2>1. /\ \A s \in Fixed : mmu'[s] = mmu[s]
        /\ core0' = core0 /\ slot' = slot /\ cmd' = cmd
        /\ "write" \in seen' => "write" \in seen
    BY <1>2, Core1Fixed, Core1Step DEF Reads
  <2>2. /\ mmu'[<<"l1", 2>>] = mmu[<<"basicEn", portb.basic>>]
        /\ mmu'[<<"l1", 3>>] = mmu[<<"osEn", portb.os + 2 * newport>>]
        /\ mmu'[<<"l1", 1>>] = mmu[<<"ext", portb.ext>>]
        /\ mmu'[<<"basicEn", 1>>] = mmu[<<"basicEn", 1>>]
    BY <1>2, ReadTables, SlotNames DEF Reads
  <2>3. ASSUME \A s \in Fixed : mmu[s] = Dummy
        PROVE  /\ mmu'[<<"l1", 1>>] = Dummy /\ mmu'[<<"l1", 3>>] = Dummy
               /\ mmu[<<"basicEn", 1>>] = Dummy => mmu'[<<"l1", 2>>] = Dummy
    <3>1. mmu[<<"basicEn", 0>>] = Dummy
      BY <2>3, SlotFacts
    <3>2. mmu[<<"basicEn", 1>>] = Dummy => mmu'[<<"l1", 2>>] = Dummy
      <4>1. CASE portb.basic = 0
        BY <2>2, <3>1, <4>1
      <4>2. CASE portb.basic = 1
        BY <2>2, <4>2
      <4> QED BY <1>0, <4>1, <4>2
    <3> QED BY <1>0, <2>2, <2>3, <3>2, SlotFacts
  <2> HIDE DEF Dummy
  <2> QED BY <2>1, <2>2, <2>3 DEF Dead
<1>3. CASE Core1 /\ OtherWrites
  <2>1. /\ \A s \in Fixed : mmu'[s] = mmu[s]
        /\ core0' = core0 /\ slot' = slot /\ cmd' = cmd
        /\ seen' = seen \cup {"write"}
        /\ lastD5' \in 0 .. CartBanks - 1 /\ mmu' = AfterWrite(mmu, lastD5')
    BY <1>3, Core1Fixed, Core1Step DEF OtherWrites
  <2>2. /\ mmu'[<<"basicEn", 1>>] = mmu[<<"cart", lastD5'>>]
        /\ \/ mmu'[<<"l1", 2>>] = mmu[<<"cart", lastD5'>>]
           \/ mmu'[<<"l1", 2>>] = mmu[<<"basicEn", 0>>]
        /\ mmu'[<<"l1", 1>>] = mmu[<<"l1", 1>>] /\ mmu'[<<"l1", 3>>] = mmu[<<"l1", 3>>]
    BY <2>1, WriteTables, SlotNames
  <2>3. ASSUME \A s \in Fixed : mmu[s] = Dummy
        PROVE  mmu'[<<"basicEn", 1>>] = Dummy /\ mmu'[<<"l1", 2>>] = Dummy
    BY <2>1, <2>2, <2>3, SlotFacts
  <2> HIDE DEF Dummy
  <2> QED BY <2>1, <2>2, <2>3 DEF Dead
<1>4. CASE DisableTables
  <2> DEFINE p == SlotOrder[slot]
  <2>1. /\ p \in Slots /\ core0 = "disable"
        /\ \/ core0' = "disable" /\ slot' = slot + 1
           \/ /\ core0' = "offset" /\ slot' = 1
              /\ \A s \in Slots : \E i \in 1 .. slot : s = SlotOrder[i]
    BY <1>4, CopyStep DEF DisableTables
  <2>2. mmu' = [mmu EXCEPT ![p] = Dummy]
    BY <1>4 DEF DisableTables
  <2> HIDE DEF Dummy
  <2>3. mmu'[p] = Dummy /\ \A s \in Slots \ {p} : mmu'[s] = mmu[s]
    BY <1>0, <2>1, <2>2
  <2>4. \A i \in 1 .. slot : SlotOrder[i] \in Fixed => mmu'[SlotOrder[i]] = Dummy
    <3> SUFFICES ASSUME NEW i \in 1 .. slot, SlotOrder[i] \in Fixed, SlotOrder[i] # p
                 PROVE  mmu'[SlotOrder[i]] = Dummy
      BY <2>3
    <3>1. i \in 1 .. slot - 1
      BY <1>0
    <3> QED BY <1>0, <2>1, <2>3, <3>1 DEF Dead
  <2>5. core0' = "disable" => \A i \in 1 .. slot' - 1 :
            SlotOrder[i] \in Fixed => mmu'[SlotOrder[i]] = Dummy
    BY <1>0, <2>1, <2>4
  <2>6. core0' = "offset" => \A s \in Fixed : mmu'[s] = Dummy
    BY <1>0, <2>1, <2>4
  <2> QED BY <2>1, <2>5, <2>6 DEF Dead
<1>5. CASE SaveTables
  <2>1. core0' \in {"save", "disable"} /\ (core0' = "disable" => slot' = 1)
    BY <1>5, CopyStep DEF SaveTables
  <2> QED BY <2>1 DEF Dead
<1>6. CASE SaveD5
  BY <1>6 DEF SaveD5, Goto, Dead
<1>7. CASE EnableInterrupts \/ HandleDisk \/ HandleOpen
  BY <1>7 DEF EnableInterrupts, HandleDisk, HandleOpen, Goto, Dead, request
<1>8. CASE HandleScreen
  BY <1>8 DEF HandleScreen, Goto, Dead, request
<1>9. CASE StartRequest \/ RestoreD5 \/ EnableTables \/ WaitForDummyWrite \/ GiveBack
  <2>1. core0' \in {"poll", "save", "enable", "attached", "wait"}
    BY <1>9 DEF StartRequest, RestoreD5, EnableTables, WaitForDummyWrite, GiveBack, Goto, Copying
  <2> QED BY <2>1 DEF Dead
<1> QED BY <1>1, <1>2, <1>3, <1>4, <1>5, <1>6, <1>7, <1>8, <1>9, Core1Step DEF BusNext, Core0

LEMMA StepDetach == BusTypeOK /\ DetachInv /\ [BusNext]_busVars => DetachInv'
<1> SUFFICES ASSUME BusTypeOK, DetachInv, [BusNext]_busVars PROVE DetachInv'
  OBVIOUS
<1>1. CASE BusNext
  BY <1>1, StepOrder, StepOffsets, StepLayout, StepCart, StepDead, StepWindows DEF DetachInv
<1>2. CASE UNCHANGED busVars
  BY <1>2 DEF busVars, sixty502, request, DetachInv, Order, Offsets, Layout, CartFollows, Dead,
              WindowsFollow
<1> QED BY <1>1, <1>2

LEMMA DeadDrivesNothing == BusTypeOK /\ DetachInv => DetachedDrivesNothing
<1> SUFFICES ASSUME BusTypeOK, DetachInv,
                    core0 \in {"detached", "handled"}, seen = {"read", "write"}, cmd # "screen"
             PROVE  \A n \in 0 .. 3 : mmu[<<"l1", n>>] = Dummy
  BY DEF DetachedDrivesNothing
<1> HIDE DEF Dummy
<1>1. mmu[<<"l1", 0>>] = Dummy
  BY SlotFacts DEF DetachInv, Dead
<1>2. mmu[<<"l1", 1>>] = Dummy /\ mmu[<<"l1", 2>>] = Dummy /\ mmu[<<"l1", 3>>] = Dummy
  BY DEF DetachInv, Dead
<1>3. \A n \in 0 .. 3 : n = 0 \/ n = 1 \/ n = 2 \/ n = 3
  OBVIOUS
<1> QED BY <1>1, <1>2, <1>3

-----------------------------------------------------------------------------
(* BusSpec: type correctness. *)
THEOREM BusTypesAlways == BusSpec => []BusTypeOK
<1> QED BY InitTypes, StepTypes, PTL DEF BusSpec

(* The inductive invariant. *)
LEMMA DetachAlways == BusSpec => []DetachInv
<1> QED BY InitDetach, StepDetach, BusTypesAlways, PTL DEF BusSpec

(* Detaching and attaching the bus never shows: a program that runs finds  *)
(* the memory it selected (main.cpp:210-215, core1.cpp:92-123).            *)
THEOREM WindowsFollowAlways == BusSpec => []WindowsFollow
<1>1. DetachInv => WindowsFollow
  BY DEF DetachInv
<1> QED BY <1>1, DetachAlways, PTL

(* From the first write and read cycle after disableBus on, nothing drives *)
(* the bus, except while the request that maps the screen is handled.      *)
THEOREM DetachedAlways == BusSpec => []DetachedDrivesNothing
<1> QED BY DeadDrivesNothing, BusTypesAlways, DetachAlways, PTL
=============================================================================
