-------------------------- MODULE BankSwitchProofs --------------------------
(***************************************************************************)
(* The pool's invariant, its refinement of BankedMemory and its order of   *)
(* eviction, for any sizes.  Then bank switching across two cores, for     *)
(* every number of banks, patterns, stores and wait cycles: types for any  *)
(* program, and the bank that a patient program selects.  The mapping is   *)
(* one that shows base RAM for pattern 0, as mapRambo256 does: where       *)
(* pattern 0 is a bank (mapStockXE), lastXeBankNr starts as a pattern that *)
(* was not selected last (mmu.cpp:153), and nothing brings its bank into   *)
(* SRAM.                                                                   *)
(***************************************************************************)
EXTENDS BankSwitch, BankRecency, TLAPS

-----------------------------------------------------------------------------
(* The pool of banks. *)

LEMMA PremapType ==
    ASSUME NEW p \in Patterns, Premap[p] >= 0
    PROVE  Premap[p] \in BankNrs /\ SramBanks \in 1 .. TotalBanks
BY PoolAssumption DEF Patterns, BankNrs

LEMMA InitInv == Init => PoolInv
BY PoolAssumption
   DEF Init, PoolInv, TypeOK, NoAliasing, ResidentsListed, SelectedInSram,
       BankNrs, Slots, Buffers, isSRAM

(* The exchange keeps the invariant. *)
LEMMA SwapInInv ==
    ASSUME PoolInv, NEW b \in BankNrs, SramBanks \in 1 .. TotalBanks,
           SwapIn(b), sel' = b, ptr' = banks'[b], preload' \in 0 .. NPatterns
    PROVE  PoolInv'
<1> DEFINE e == Evict
<1>1. e \in BankNrs /\ isSRAM(e) /\ e # b
  BY DEF PoolInv, TypeOK, ResidentsListed, Evict, Slots, SwapIn, isSRAM
<1>2. /\ banks' = [banks EXCEPT ![b] = banks[e], ![e] = spare]
      /\ spare' = banks[b]
      /\ recency' = Shifted(b)
  BY DEF SwapIn
<1>3. /\ banks'[b] = banks[e]
      /\ banks'[e] = spare
      /\ \A c \in BankNrs \ {b, e} : banks'[c] = banks[c]
  BY <1>1, <1>2 DEF PoolInv, TypeOK
<1>4. TypeOK'
  <2>1. recency' \in [Slots -> BankNrs]
    BY <1>2 DEF PoolInv, TypeOK, Shifted, Slots
  <2>2. banks' \in [BankNrs -> Buffers] /\ spare' \in Buffers
    BY <1>1, <1>2 DEF PoolInv, TypeOK
  <2>3. buf' \in [Buffers -> Values]
    BY <1>1 DEF PoolInv, TypeOK, SwapIn
  <2>4. ptr' \in Buffers
    BY <1>1, <1>3 DEF PoolInv, TypeOK
  <2> QED BY <2>1, <2>2, <2>3, <2>4 DEF TypeOK
<1>5. NoAliasing'
  BY <1>1, <1>2, <1>3 DEF PoolInv, TypeOK, NoAliasing, isSRAM, SwapIn, Buffers
<1>6. ResidentsListed'
  <2>1. \A i \in Slots : recency'[i] = IF i = 0 THEN b ELSE recency[i - 1]
    BY <1>2 DEF Shifted
  <2>2. \A i \in Slots : recency[i] # b
    BY DEF PoolInv, ResidentsListed, SwapIn
  <2>3. \A i, j \in Slots : recency'[i] = recency'[j] => i = j
    <3> TAKE i, j \in Slots
    <3>1. CASE i = 0 \/ j = 0
      BY <2>1, <2>2, <3>1 DEF Slots
    <3>2. CASE i # 0 /\ j # 0
      BY <2>1, <3>2 DEF PoolInv, ResidentsListed, Slots
    <3> QED BY <3>1, <3>2
  <2>4. ASSUME NEW c \in BankNrs
        PROVE  isSRAM(c)' <=> \E i \in Slots : recency'[i] = c
    <3>1. CASE c = b
      BY <1>1, <1>3, <2>1, <3>1 DEF isSRAM, Slots
    <3>2. CASE c = e
      <4>1. ~ isSRAM(c)'
        BY <1>3, <3>2 DEF isSRAM, PoolInv, TypeOK, NoAliasing, Buffers
      <4>2. \A i \in Slots : i # 0 => recency[i - 1] # e
        BY DEF PoolInv, ResidentsListed, Slots, Evict
      <4> QED BY <1>1, <2>1, <3>2, <4>1, <4>2
    <3>3. CASE c # b /\ c # e
      <4>1. isSRAM(c)' <=> isSRAM(c)
        BY <1>3, <3>3 DEF isSRAM
      <4>2. isSRAM(c) <=> \E i \in Slots : recency[i] = c
        BY DEF PoolInv, ResidentsListed
      <4>3. ASSUME NEW i \in Slots, recency[i] = c
            PROVE  \E k \in Slots : recency'[k] = c
        <5>1. i # SramBanks - 1
          BY <3>3, <4>3 DEF Evict
        <5>2. i + 1 \in Slots /\ recency'[i + 1] = c
          BY <2>1, <4>3, <5>1 DEF Slots
        <5> QED BY <5>2
      <4>4. ASSUME NEW k \in Slots, recency'[k] = c
            PROVE  \E i \in Slots : recency[i] = c
        BY <2>1, <3>3, <4>4 DEF Slots
      <4> QED BY <4>1, <4>2, <4>3, <4>4
    <3> QED BY <3>1, <3>2, <3>3
  <2> QED BY <2>3, <2>4 DEF ResidentsListed
<1>7. SelectedInSram'
  <2>1. recency'[0] = b
    BY <1>2 DEF Shifted, Slots
  <2>2. b # None
    BY PoolAssumption DEF BankNrs
  <2> QED BY <1>1, <1>3, <2>1, <2>2 DEF SelectedInSram, isSRAM
<1> QED BY <1>4, <1>5, <1>6, <1>7 DEF PoolInv

(* Moving a resident bank to the front keeps the invariant. *)
LEMMA TouchInv ==
    ASSUME PoolInv, NEW b \in BankNrs, SramBanks \in 1 .. TotalBanks,
           Touch(b), sel' = b, ptr' = banks'[b], preload' \in 0 .. NPatterns
    PROVE  PoolInv'
<1>1. PICK k \in Slots : recency[k] = b
  BY DEF PoolInv, ResidentsListed, Touch
<1>2. UNCHANGED <<banks, spare, buf>>
  BY DEF Touch
<1>3. \A i \in Slots : recency'[i] =
          IF i = 0 THEN b ELSE IF i <= k THEN recency[i - 1] ELSE recency[i]
  <2>1. \A i \in Slots : (\E j \in Slots : j >= i /\ recency[j] = b) <=> i <= k
    BY <1>1 DEF PoolInv, ResidentsListed, Slots
  <2> QED BY <2>1 DEF Touch, MovedToFront
<1>4. TypeOK'
  <2>1. recency' \in [Slots -> BankNrs]
    BY DEF PoolInv, TypeOK, Touch, MovedToFront, Slots
  <2> QED BY <1>2, <2>1 DEF PoolInv, TypeOK
<1>5. NoAliasing'
  BY <1>2 DEF PoolInv, NoAliasing
<1>6. ResidentsListed'
  <2>1. ASSUME NEW i \in Slots, NEW j \in Slots, recency'[i] = recency'[j]
        PROVE  i = j
    <3> DEFINE from(n) == IF n = 0 THEN k ELSE IF n <= k THEN n - 1 ELSE n
    <3>1. \A n \in Slots : from(n) \in Slots /\ recency'[n] = recency[from(n)]
      BY <1>1, <1>3 DEF Slots
    <3>2. from(i) = from(j)
      <4> HIDE DEF from
      <4> QED BY <2>1, <3>1 DEF PoolInv, ResidentsListed
    <3> QED BY <3>2 DEF Slots
  <2>2. ASSUME NEW c \in BankNrs
        PROVE  (\E i \in Slots : recency[i] = c) <=> (\E i \in Slots : recency'[i] = c)
    <3>1. ASSUME NEW i \in Slots, recency[i] = c
          PROVE  \E n \in Slots : recency'[n] = c
      <4>1. CASE i = k
        BY <1>1, <1>3, <3>1, <4>1 DEF Slots
      <4>2. CASE i < k
        <5>1. i + 1 \in Slots /\ recency'[i + 1] = c
          BY <1>1, <1>3, <3>1, <4>2 DEF Slots
        <5> QED BY <5>1
      <4>3. CASE i > k
        <5>1. recency'[i] = c
          BY <1>3, <3>1, <4>3 DEF Slots
        <5> QED BY <5>1
      <4> QED BY <4>1, <4>2, <4>3 DEF Slots
    <3>2. ASSUME NEW n \in Slots, recency'[n] = c
          PROVE  \E i \in Slots : recency[i] = c
      BY <1>1, <1>3, <3>2 DEF Slots
    <3> QED BY <3>1, <3>2
  <2>3. \A c \in BankNrs : isSRAM(c)' <=> isSRAM(c)
    BY <1>2 DEF isSRAM
  <2> QED BY <2>1, <2>2, <2>3 DEF PoolInv, ResidentsListed
<1>7. SelectedInSram'
  <2>1. b # None
    BY PoolAssumption DEF BankNrs
  <2>2. recency'[0] = b
    BY <1>3 DEF Slots
  <2> QED BY <1>2, <2>1, <2>2 DEF SelectedInSram, Touch, isSRAM
<1> QED BY <1>4, <1>5, <1>6, <1>7 DEF PoolInv

LEMMA WriteInv ==
    ASSUME PoolInv, NEW v \in Values, Write(v)
    PROVE  PoolInv'
BY DEF PoolInv, TypeOK, NoAliasing, ResidentsListed, SelectedInSram, Write,
       isSRAM

LEMMA GetBankInv ==
    ASSUME PoolInv, NEW p \in Patterns, getBank(p), preload' \in 0 .. NPatterns
    PROVE  PoolInv'
<1>1. CASE Premap[p] < 0
  <2>1. UNCHANGED <<banks, spare, recency, buf, sel, ptr>>
    BY <1>1, PoolAssumption DEF getBank, Patterns
  <2> QED
    BY <2>1 DEF PoolInv, TypeOK, NoAliasing, ResidentsListed, SelectedInSram,
                isSRAM
<1>2. CASE Premap[p] >= 0
  <2> DEFINE b == Premap[p]
  <2>1. b \in BankNrs /\ SramBanks \in 1 .. TotalBanks
    BY <1>2, PremapType
  <2>2. SwapIn(b) \/ Touch(b)
    BY <1>2, <2>1 DEF getBank, BankNrs
  <2>3. sel' = b /\ ptr' = banks'[b]
    BY <1>2, <2>1 DEF getBank, BankNrs
  <2> QED BY <2>1, <2>2, <2>3, SwapInInv, TouchInv
<1> QED BY <1>1, <1>2, PoolAssumption DEF Patterns, BankNrs

(* Every step keeps the invariant. *)
LEMMA NextInv == PoolInv /\ [Next]_vars => PoolInv'
<1> SUFFICES ASSUME PoolInv, [Next]_vars PROVE PoolInv'
  OBVIOUS
<1>1. CASE Preload
  <2>1. preload \in Patterns /\ preload' \in 0 .. NPatterns
    BY <1>1, PoolAssumption DEF Preload, PoolInv, TypeOK, Patterns
  <2> QED BY <1>1, <2>1, GetBankInv DEF Preload
<1>2. ASSUME NEW p \in Patterns, Select(p) PROVE PoolInv'
  <2>1. preload' \in 0 .. NPatterns
    BY <1>2 DEF Select, PoolInv, TypeOK
  <2> QED BY <1>2, <2>1, GetBankInv DEF Select
<1>3. ASSUME NEW v \in Values, Write(v) PROVE PoolInv'
  BY <1>3, WriteInv
<1>4. CASE UNCHANGED vars
  BY <1>4 DEF vars, PoolInv, TypeOK, NoAliasing, ResidentsListed,
              SelectedInSram, isSRAM
<1> QED BY <1>1, <1>2, <1>3, <1>4 DEF Next

(* The pool's inductive invariant holds in every reachable state. *)
THEOREM PoolInvariant == Spec => []PoolInv
<1> QED BY InitInv, NextInv, PTL DEF Spec

(* No two banks ever share a buffer and the spare is nobody's. *)
THEOREM NoAliasingAlways == Spec => []NoAliasing
<1>1. PoolInv => NoAliasing
  BY DEF PoolInv
<1> QED BY <1>1, PoolInvariant, PTL

(* Every index, buffer and bank of the pool stays in its range, through    *)
(* preloading, eviction and use.                                           *)
THEOREM PoolTypesAlways == Spec => []TypeOK
<1>1. PoolInv => TypeOK
  BY DEF PoolInv
<1> QED BY <1>1, PoolInvariant, PTL

(* The recency list names each SRAM bank once and no other: getBank never  *)
(* evicts a bank that is not in SRAM, or overlooks one that is.            *)
THEOREM ResidentsListedAlways == Spec => []ResidentsListed
<1>1. PoolInv => ResidentsListed
  BY DEF PoolInv
<1> QED BY <1>1, PoolInvariant, PTL

(* The pointer core1 is given is always SRAM that holds the asked bank. *)
THEOREM SelectedInSramAlways == Spec => []SelectedInSram
<1>1. PoolInv => SelectedInSram
  BY DEF PoolInv
<1> QED BY <1>1, PoolInvariant, PTL

-----------------------------------------------------------------------------

LEMMA InitRefines == Init => Memory!Init
BY PoolAssumption DEF Init, Memory!Init, Contents, BankNrs, Buffers

(* The exchange moves contents between buffers and changes no bank. *)
LEMMA SwapInKeepsContents ==
    ASSUME PoolInv, NEW b \in BankNrs, SramBanks \in 1 .. TotalBanks, SwapIn(b)
    PROVE  UNCHANGED Contents
<1> DEFINE e == Evict
<1>1. e \in BankNrs /\ isSRAM(e) /\ e # b
  BY DEF PoolInv, TypeOK, ResidentsListed, Evict, Slots, SwapIn, isSRAM
<1>2. /\ banks' = [banks EXCEPT ![b] = banks[e], ![e] = spare]
      /\ buf' = [buf EXCEPT ![spare] = buf[banks[e]], ![banks[e]] = buf[banks[b]]]
  BY DEF SwapIn
<1>3. ASSUME NEW c \in BankNrs
      PROVE  buf'[banks'[c]] = buf[banks[c]]
  <2>1. /\ banks[e] \in Buffers /\ spare \in Buffers /\ banks[c] \in Buffers
        /\ banks[e] # spare /\ banks[c] # spare
        /\ c # e => banks[c] # banks[e]
    BY <1>1 DEF PoolInv, TypeOK, NoAliasing
  <2>2. CASE c = b
    BY <1>1, <1>2, <2>1, <2>2 DEF PoolInv, TypeOK
  <2>3. CASE c = e
    BY <1>1, <1>2, <2>1, <2>3 DEF PoolInv, TypeOK
  <2>4. CASE c # b /\ c # e
    BY <1>1, <1>2, <2>1, <2>4 DEF PoolInv, TypeOK
  <2> QED BY <2>2, <2>3, <2>4
<1> QED BY <1>3 DEF Contents

LEMMA GetBankRefines ==
    ASSUME PoolInv, NEW p \in Patterns, getBank(p)
    PROVE  [Memory!Next]_(Memory!vars)
<1>1. CASE Premap[p] < 0
  <2>1. UNCHANGED <<banks, buf, sel>>
    BY <1>1, PoolAssumption DEF getBank, Patterns
  <2> QED BY <2>1 DEF Memory!vars, Contents
<1>2. CASE Premap[p] >= 0
  <2> DEFINE b == Premap[p]
  <2>1. b \in BankNrs /\ SramBanks \in 1 .. TotalBanks
    BY <1>2, PremapType
  <2>2. (SwapIn(b) \/ Touch(b)) /\ sel' = b
    BY <1>2, <2>1 DEF getBank, BankNrs
  <2>3. UNCHANGED Contents
    <3>1. CASE SwapIn(b)
      BY <2>1, <3>1, SwapInKeepsContents
    <3>2. CASE Touch(b)
      BY <3>2 DEF Touch, Contents
    <3> QED BY <2>2, <3>1, <3>2
  <2>4. Memory!Select(b)
    BY <2>2, <2>3 DEF Memory!Select
  <2> QED BY <2>1, <2>4 DEF Memory!Next
<1> QED BY <1>1, <1>2, PoolAssumption DEF Patterns, BankNrs

LEMMA WriteRefines ==
    ASSUME PoolInv, NEW v \in Values, Write(v)
    PROVE  Memory!Write(v)
<1>1. sel # None /\ sel \in BankNrs
  BY DEF Write, PoolInv, TypeOK, SelectedInSram
<1>2. sel = sel' /\ banks' = banks /\ buf' = [buf EXCEPT ![banks[sel]] = v]
  BY <1>1 DEF Write, PoolInv, SelectedInSram
<1>3. Contents' = [Contents EXCEPT ![sel] = v]
  BY <1>1, <1>2 DEF Contents, PoolInv, TypeOK, NoAliasing
<1> QED BY <1>1, <1>2, <1>3 DEF Memory!Write

(* Every step of the pool is a step of independent banks, or a stutter. *)
LEMMA NextRefines == PoolInv /\ [Next]_vars => [Memory!Next]_(Memory!vars)
<1> SUFFICES ASSUME PoolInv, [Next]_vars PROVE [Memory!Next]_(Memory!vars)
  OBVIOUS
<1>1. CASE Preload
  <2>1. preload \in Patterns
    BY <1>1, PoolAssumption DEF Preload, PoolInv, TypeOK, Patterns
  <2> QED BY <1>1, <2>1, GetBankRefines DEF Preload
<1>2. ASSUME NEW p \in Patterns, Select(p) PROVE [Memory!Next]_(Memory!vars)
  BY <1>2, GetBankRefines DEF Select
<1>3. ASSUME NEW v \in Values, Write(v) PROVE [Memory!Next]_(Memory!vars)
  BY <1>3, WriteRefines DEF Memory!Next
<1>4. CASE UNCHANGED vars
  BY <1>4 DEF vars, Memory!vars, Contents
<1> QED BY <1>1, <1>2, <1>3, <1>4 DEF Next

(* Any number of banks in any amount of SRAM behaves as BankedMemory. *)
THEOREM PoolImplementsBankedMemory == Spec => ImplementsBankedMemory
<1> QED
  BY InitRefines, NextRefines, PoolInvariant, PTL
     DEF Spec, ImplementsBankedMemory, Memory!Spec
-----------------------------------------------------------------------------

LEMMA RecencyInitInv == RecencyInit => RecencyInv
<1> SUFFICES ASSUME RecencyInit PROVE RecencyInv
  OBVIOUS
<1>1. PoolInv
  BY InitInv DEF RecencyInit
<1>2. age = [b \in BankNrs |-> b] /\ recency = [n \in Slots |-> n]
  BY DEF RecencyInit, Init
<1>3. Slots \subseteq BankNrs /\ BankNrs \subseteq Nat
  BY PoolAssumption DEF BankNrs, Slots
<1>4. age \in [BankNrs -> Nat] /\ \A a, b \in BankNrs : age[a] = age[b] => a = b
  BY <1>2, <1>3
<1>5. LeastRecentlyUsedEvicted
  BY <1>2, <1>3 DEF LeastRecentlyUsedEvicted
<1> QED BY <1>1, <1>4, <1>5 DEF RecencyInv

(* The use of a bank keeps the ranking without ties. *)
LEMMA UsedInv ==
    ASSUME age \in [BankNrs -> Nat], \A c, d \in BankNrs : age[c] = age[d] => c = d,
           NEW b \in BankNrs
    PROVE  /\ Used(b) \in [BankNrs -> Nat]
           /\ \A c, d \in BankNrs : Used(b)[c] = Used(b)[d] => c = d
<1>1. Used(b) \in [BankNrs -> Nat]
  BY DEF Used
<1>2. ASSUME NEW c \in BankNrs, NEW d \in BankNrs, Used(b)[c] = Used(b)[d]
      PROVE  c = d
  <2>1. /\ age[b] \in Nat /\ age[c] \in Nat /\ age[d] \in Nat
        /\ c # b => age[c] # age[b]
        /\ d # b => age[d] # age[b]
    OBVIOUS
  <2>2. age[c] = age[d]
    BY <1>2, <2>1 DEF Used
  <2> QED BY <2>2
<1> QED BY <1>1, <1>2

(* A bank that comes from PSRAM is older than all in SRAM: those move down *)
(* by one, the last of them out.                                           *)
LEMMA SwapInRecency ==
    ASSUME RecencyInv, NEW b \in BankNrs, SramBanks \in 1 .. TotalBanks, SwapIn(b),
           age' = Used(b)
    PROVE  LeastRecentlyUsedEvicted'
<1>1. \A i \in Slots : recency[i] \in BankNrs /\ recency[i] # b
  BY DEF RecencyInv, PoolInv, TypeOK, ResidentsListed, SwapIn
<1>2. \A i \in Slots : age[b] # i
  BY <1>1 DEF RecencyInv, LeastRecentlyUsedEvicted
<1>3. age[b] \in Nat /\ age[b] >= SramBanks
  BY <1>2 DEF RecencyInv, Slots
<1>4. ASSUME NEW i \in Slots
      PROVE  age'[recency'[i]] = i
  <2>1. recency'[i] = IF i = 0 THEN b ELSE recency[i - 1]
    BY DEF SwapIn, Shifted
  <2>2. CASE i = 0
    BY <2>1, <2>2 DEF Used
  <2>3. CASE i # 0
    <3>1. i - 1 \in Slots /\ age[recency[i - 1]] = i - 1
      BY <2>3 DEF RecencyInv, LeastRecentlyUsedEvicted, Slots
    <3>2. recency[i - 1] \in BankNrs /\ recency[i - 1] # b
      BY <1>1, <3>1
    <3> QED BY <1>3, <2>1, <2>3, <3>1, <3>2 DEF Used, Slots
  <2> QED BY <2>2, <2>3
<1> QED BY <1>4 DEF LeastRecentlyUsedEvicted

(* A bank that is in SRAM moves to the front, those before it by one. *)
LEMMA TouchRecency ==
    ASSUME RecencyInv, NEW b \in BankNrs, SramBanks \in 1 .. TotalBanks, Touch(b),
           age' = Used(b)
    PROVE  LeastRecentlyUsedEvicted'
<1>1. PICK k \in Slots : recency[k] = b
  BY DEF RecencyInv, PoolInv, ResidentsListed, Touch
<1>2. \A i \in Slots : recency[i] \in BankNrs /\ age[recency[i]] = i
  BY DEF RecencyInv, PoolInv, TypeOK, LeastRecentlyUsedEvicted
<1>3. \A i \in Slots : (\E j \in Slots : j >= i /\ recency[j] = b) <=> i <= k
  BY <1>1 DEF RecencyInv, PoolInv, ResidentsListed, Slots
<1>4. ASSUME NEW i \in Slots
      PROVE  age'[recency'[i]] = i
  <2>1. recency'[i] = IF i = 0 THEN b ELSE IF i <= k THEN recency[i - 1] ELSE recency[i]
    BY <1>3 DEF Touch, MovedToFront
  <2>2. age[b] = k
    BY <1>1, <1>2
  <2>3. CASE i = 0
    BY <2>1, <2>3 DEF Used
  <2>4. CASE i # 0 /\ i <= k
    <3>1. i - 1 \in Slots
      BY <2>4 DEF Slots
    <3>2. recency[i - 1] \in BankNrs /\ age[recency[i - 1]] = i - 1
      BY <1>2, <3>1
    <3>3. recency[i - 1] # b
      BY <2>2, <2>4, <3>2 DEF Slots
    <3> QED BY <2>1, <2>2, <2>4, <3>2, <3>3 DEF Used, Slots
  <2>5. CASE i # 0 /\ i > k
    <3>1. recency[i] \in BankNrs /\ age[recency[i]] = i
      BY <1>2
    <3>2. recency[i] # b
      BY <2>2, <2>5, <3>1 DEF Slots
    <3> QED BY <2>1, <2>2, <2>5, <3>1, <3>2 DEF Used, Slots
  <2> QED BY <2>3, <2>4, <2>5 DEF Slots
<1> QED BY <1>4 DEF LeastRecentlyUsedEvicted

LEMMA GetBankRecency ==
    ASSUME RecencyInv, NEW p \in Patterns, getBank(p),
           age' = IF sel' = sel THEN age ELSE Used(sel')
    PROVE  /\ age' \in [BankNrs -> Nat]
           /\ \A c, d \in BankNrs : age'[c] = age'[d] => c = d
           /\ LeastRecentlyUsedEvicted'
<1>1. CASE Premap[p] < 0
  <2>1. UNCHANGED <<recency, sel>>
    BY <1>1, PoolAssumption DEF getBank, Patterns
  <2> QED BY <2>1 DEF RecencyInv, LeastRecentlyUsedEvicted
<1>2. CASE Premap[p] >= 0
  <2> DEFINE b == Premap[p]
  <2>1. b \in BankNrs /\ SramBanks \in 1 .. TotalBanks
    BY <1>2, PremapType
  <2>2. (SwapIn(b) \/ Touch(b)) /\ sel' = b
    BY <1>2, <2>1 DEF getBank, BankNrs
  <2>3. age' = Used(b)
    <3>1. CASE sel = b
      <4>1. recency[0] = b /\ 0 \in Slots
        BY <2>1, <3>1, PoolAssumption DEF RecencyInv, PoolInv, SelectedInSram, BankNrs, Slots
      <4>2. age[b] = 0
        BY <4>1 DEF RecencyInv, LeastRecentlyUsedEvicted
      <4>3. \A c \in BankNrs : Used(b)[c] = age[c]
        BY <4>2 DEF Used, RecencyInv
      <4>4. Used(b) \in [BankNrs -> Nat] /\ age \in [BankNrs -> Nat]
        BY <2>1, UsedInv DEF RecencyInv
      <4>5. Used(b) = age
        BY <4>3, <4>4
      <4> QED BY <2>2, <3>1, <4>5
    <3>2. CASE sel # b
      BY <2>2, <3>2
    <3> QED BY <3>1, <3>2
  <2>4. LeastRecentlyUsedEvicted'
    BY <2>1, <2>2, <2>3, SwapInRecency, TouchRecency
  <2> HIDE DEF b
  <2> QED BY <2>1, <2>3, <2>4, UsedInv DEF RecencyInv
<1> QED BY <1>1, <1>2, PoolAssumption DEF Patterns, BankNrs

LEMMA RecencyNextInv == RecencyInv /\ [RecencyNext]_<<vars, age>> => RecencyInv'
<1> SUFFICES ASSUME RecencyInv, [RecencyNext]_<<vars, age>> PROVE RecencyInv'
  OBVIOUS
<1>1. PoolInv'
  BY NextInv DEF RecencyInv, RecencyNext
<1>2. CASE RecencyNext /\ Preload
  <2>1. preload \in Patterns
    BY <1>2, PoolAssumption DEF Preload, RecencyInv, PoolInv, TypeOK, Patterns
  <2> QED BY <1>1, <1>2, <2>1, GetBankRecency DEF Preload, RecencyNext, RecencyInv
<1>3. ASSUME RecencyNext, NEW p \in Patterns, Select(p) PROVE RecencyInv'
  BY <1>1, <1>3, GetBankRecency DEF Select, RecencyNext, RecencyInv
<1>4. ASSUME RecencyNext, NEW v \in Values, Write(v) PROVE RecencyInv'
  <2>1. UNCHANGED <<recency, sel>>
    BY <1>4 DEF Write
  <2> QED BY <1>1, <1>4, <2>1 DEF RecencyNext, RecencyInv, LeastRecentlyUsedEvicted
<1>5. CASE UNCHANGED <<vars, age>>
  BY <1>1, <1>5 DEF vars, RecencyInv, LeastRecentlyUsedEvicted
<1> QED BY <1>2, <1>3, <1>4, <1>5 DEF RecencyNext, Next

(* The banks in fast RAM are always the most recently used ones, in order, *)
(* among all banks and not only those the recency list knows.              *)
THEOREM LeastRecentlyUsedAlways == RecencySpec => []LeastRecentlyUsedEvicted
<1>1. RecencyInv => LeastRecentlyUsedEvicted
  BY DEF RecencyInv
<1> QED BY <1>1, RecencyInitInv, RecencyNextInv, PTL DEF RecencySpec

-----------------------------------------------------------------------------
(* Two cores. *)

(* The trapped writes that core0 did not come to. *)
Ops == Trapped \cup {"read", "write"}
Marked == r0 \in Trapped \/ \E i \in 1 .. Len(queue) : queue[i] \in Trapped
PortbMarked == r0 = "d301" \/ \E i \in 1 .. Len(queue) : queue[i] = "d301"

(* The table of a pattern is right, and its bank in SRAM. *)
Settled(p) == IF Premap[p] < 0 THEN pages[p] = Base
              ELSE pages[p] = banks[Premap[p]] /\ isSRAM(Premap[p])

(* Waits are for as many cycles as the queue has places. *)
Longest == IF MaxQueue > ResumeCycles THEN MaxQueue ELSE ResumeCycles
Waits ==
    /\ queue \in Seq(Ops)
    /\ pc \notin {"wait", "resume"} => wait = 0 /\ Len(queue) <= Longest
    /\ pc = "wait" => wait <= WaitCycles /\ Len(queue) + wait <= Longest + WaitCycles
    /\ pc = "resume" => /\ wait <= ResumeCycles
                        /\ Len(queue) + wait \in ResumeCycles .. Longest
    /\ release <=> pc = "resume"

Start ==
    /\ pc = "init" => /\ lastXeBankNr = 0 /\ fetched = 0 /\ r0 = "read" /\ queue = <<>>
                      /\ ~halted
    /\ pc # "init" => portb \in Patterns /\ preload = NPatterns
    /\ pc = "init" /\ preload = NPatterns /\ Premap[AllOnes] >= 0 => sel = Premap[AllOnes]

(* What was selected stays. *)
Selection ==
    pc # "init" =>
        /\ Settled(lastXeBankNr)
        /\ \A p \in Patterns : Premap[p] < 0 => pages[p] = Base

(* A patient program has one trapped write on its way, and waits halted    *)
(* for the one to PORTB.                                                   *)
Events ==
    patient =>
        /\ pc = "resume" => ~Marked
        /\ r0 \in Trapped => pc = "poll" /\ \A i \in 1 .. Len(queue) : queue[i] \notin Trapped
        /\ \A i, j \in 1 .. Len(queue) : queue[i] \in Trapped /\ queue[j] \in Trapped => i = j
        /\ PortbMarked => halted

(* Until core0 is done with it the 6502 is halted. *)
Follows ==
    patient /\ pc # "init" =>
        /\ pc = "remap" => nr = portb /\ halted
        /\ pc = "select" => nr = portb
        /\ ~Settled(portb) => halted /\ ((pc = "poll" /\ PortbMarked) \/ pc \in {"remap", "change", "select"})
        /\ fetched > 0 => mapped = portb

BusInv == PoolInv /\ SwitchTypeOK /\ Waits /\ Start

-----------------------------------------------------------------------------
(* The pool. *)

LEMMA PatternTypes ==
    /\ NPatterns \in Nat \ {0} /\ AllOnes \in Patterns /\ 0 \in Patterns
    /\ WaitCycles \in Nat /\ ResumeCycles \in Nat /\ MaxQueue \in Nat /\ MaxStores \in Nat
    /\ Longest \in Nat /\ MaxQueue <= Longest /\ ResumeCycles <= Longest
BY PoolAssumption, SwitchAssumption DEF AllOnes, Patterns, Longest

(* A step that is none of these three leaves the pool alone. *)
LEMMA PoolActions ==
    ASSUME SwitchNext
    PROVE  LoadBanks \/ SelectBank \/ (\E v \in Values : WriteWindow(v)) \/ UNCHANGED vars
BY DEF SwitchNext, Core1, Core0, mmuInit, ReadCycle, WritePORTB, WriteRegister, SkipEvent, OnPORTB,
       Remap, OnPBISelect, OnRegister, ReadPattern, DropEvents, StartResume, EndResume

LEMMA StepPool ==
    ASSUME PoolInv, SwitchTypeOK, SwitchNext
    PROVE  PoolInv'
<1>1. CASE LoadBanks
  <2>1. Next
    BY <1>1 DEF LoadBanks, Next
  <2> QED BY <2>1, NextInv
<1>2. CASE SelectBank
  <2>1. CASE UNCHANGED vars
    BY <2>1, NextInv
  <2>2. CASE getBank(nr) /\ preload' = preload
    <3>1. nr \in Patterns /\ preload' \in 0 .. NPatterns
      BY <2>2 DEF SwitchTypeOK, PoolInv, TypeOK
    <3> QED BY <2>2, <3>1, GetBankInv
  <2> QED BY <1>2, <2>1, <2>2 DEF SelectBank
<1>3. ASSUME NEW v \in Values, WriteWindow(v) PROVE PoolInv'
  <2>1. UNCHANGED <<banks, spare, recency, sel, ptr, preload>>
    BY <1>3 DEF WriteWindow, pool
  <2>2. buf' \in [Buffers -> Values]
    BY <1>3 DEF WriteWindow, PoolInv, TypeOK
  <2> QED BY <2>1, <2>2 DEF PoolInv, TypeOK, NoAliasing, ResidentsListed, SelectedInSram, isSRAM
<1>4. CASE UNCHANGED vars
  BY <1>4, NextInv
<1> QED BY <1>1, <1>2, <1>3, <1>4, PoolActions

-----------------------------------------------------------------------------
(* Types. *)

LEMMA InitBus == SwitchInit => BusInv
<1> SUFFICES ASSUME SwitchInit PROVE BusInv
  OBVIOUS
<1>1. PoolInv
  BY InitInv DEF SwitchInit
<1>2. SwitchTypeOK
  <2>1. {halted, release, patient} \subseteq BOOLEAN
    BY SwitchAssumption DEF SwitchInit
  <2>2. pages \in [Patterns -> Buffers \cup {Base}] /\ base \in Values
    BY PoolAssumption DEF SwitchInit
  <2>3. Len(queue) = 0
    BY DEF SwitchInit
  <2> QED BY <2>1, <2>2, <2>3, PatternTypes, PoolAssumption DEF SwitchInit, SwitchTypeOK, Fetches
<1>3. Waits
  BY PatternTypes DEF SwitchInit, Waits
<1>4. Start
  BY PatternTypes DEF SwitchInit, Init, Start
<1> QED BY <1>1, <1>2, <1>3, <1>4 DEF BusInv

(* One cycle of the bus. *)
LEMMA CycleStep ==
    ASSUME BusInv, NEW op \in Ops, Cycle(op), pc' = pc, release' = release
    PROVE  /\ Waits' /\ wait' \in 0 .. WaitCycles + ResumeCycles
           /\ Len(queue') <= Longest + WaitCycles /\ halted' \in BOOLEAN /\ r0' \in Ops
<1>1. /\ queue' = Append(queue, r0) /\ queue \in Seq(Ops) /\ r0 \in Ops
      /\ wait = 0 => Len(queue) < MaxQueue
      /\ wait' = IF wait = 0 THEN 0 ELSE wait - 1
      /\ wait \in Nat
  BY PatternTypes DEF Cycle, Minus1, BusInv, Waits, SwitchTypeOK, Ops
<1>2. queue' \in Seq(Ops) /\ Len(queue') = Len(queue) + 1 /\ Len(queue) \in Nat
  BY <1>1
<1>3. halted' \in BOOLEAN /\ r0' = op
  BY DEF Cycle
<1> HIDE DEF Ops
<1>4. Waits'
  BY <1>1, <1>2, PatternTypes DEF BusInv, Waits
<1>5. wait' \in 0 .. WaitCycles + ResumeCycles
  BY <1>1, PatternTypes DEF BusInv, SwitchTypeOK
<1>6. Len(queue') <= Longest + WaitCycles
  BY <1>4, <1>5, <1>2, PatternTypes DEF Waits
<1> QED BY <1>3, <1>4, <1>5, <1>6

LEMMA StepBus ==
    ASSUME BusInv, SwitchNext
    PROVE  BusInv'
<1>0. PoolInv'
  BY StepPool DEF BusInv
<1> USE DEF BusInv
<1>1. CASE LoadBanks
  <2>1. UNCHANGED <<pages, bus, queue, core0, patient>> /\ Preload
    BY <1>1 DEF LoadBanks
  <2>2. SwitchTypeOK' /\ Waits'
    BY <2>1 DEF bus, core0, SwitchTypeOK, Waits
  <2>3. Start'
    <3>1. preload' = NPatterns => preload = AllOnes
      BY <2>1, PatternTypes DEF Preload, AllOnes, PoolInv, TypeOK
    <3>2. preload' = NPatterns /\ Premap[AllOnes] >= 0 => sel' = Premap[AllOnes]
      <4> SUFFICES ASSUME preload' = NPatterns, Premap[AllOnes] >= 0 PROVE sel' = Premap[AllOnes]
        OBVIOUS
      <4>1. Premap[AllOnes] \in Int
        BY PatternTypes, PoolAssumption DEF Patterns
      <4> QED BY <2>1, <3>1, <4>1 DEF Preload, getBank
    <3>3. pc = "init"
      BY <2>1, PatternTypes DEF Preload, Start
    <3> QED BY <2>1, <3>2, <3>3 DEF bus, core0, Start
  <2> QED BY <1>0, <2>2, <2>3
<1>2. CASE mmuInit
  <2>1. /\ pages' = [p \in Patterns |-> IF Premap[p] < 0 THEN Base ELSE banks[Premap[p]]]
        /\ portb' = AllOnes /\ mapped' = AllOnes /\ pc' = "poll" /\ pc = "init"
        /\ UNCHANGED <<vars, base, halted, r0, fetched, stores, queue, nr, lastXeBankNr, wait,
                       release, patient>>
    BY <1>2 DEF mmuInit
  <2>2. pages' \in [Patterns -> Buffers \cup {Base}]
    <3>1. \A p \in Patterns : ~ Premap[p] < 0 => Premap[p] \in BankNrs
      BY PoolAssumption DEF Patterns, BankNrs
    <3> QED BY <2>1, <3>1 DEF PoolInv, TypeOK
  <2>3. SwitchTypeOK'
    BY <2>1, <2>2, PatternTypes DEF SwitchTypeOK
  <2>4. Waits' /\ Start'
    BY <2>1, PatternTypes DEF Waits, Start
  <2> QED BY <1>0, <2>3, <2>4
<1>3. ASSUME NEW op \in Ops, Cycle(op), pages' \in [Patterns -> Buffers \cup {Base}],
             portb' \in Patterns, mapped' \in Patterns, base' \in Values,
             fetched' \in 0 .. Fetches, stores' \in 0 .. MaxStores,
             UNCHANGED <<preload, pc, nr, lastXeBankNr, release, patient>>
      PROVE  BusInv'
  <2>1. /\ Waits' /\ wait' \in 0 .. WaitCycles + ResumeCycles
        /\ Len(queue') <= Longest + WaitCycles /\ halted' \in BOOLEAN /\ r0' \in Ops
    BY <1>3, CycleStep
  <2>2. Len(queue') <= MaxQueue + WaitCycles + ResumeCycles
    <3>1. Len(queue') \in Nat /\ Longest <= MaxQueue + ResumeCycles
      BY <2>1, PatternTypes DEF Waits, Longest
    <3> QED BY <2>1, <3>1, PatternTypes
  <2>3. SwitchTypeOK'
    BY <1>3, <2>1, <2>2 DEF SwitchTypeOK, Ops
  <2>4. Start'
    BY <1>3 DEF Start, Cycle
  <2> QED BY <1>0, <2>1, <2>3, <2>4
<1>4. CASE ReadCycle
  <2>1. portb \in Patterns
    BY <1>4 DEF ReadCycle, Cycle, Start
  <2>2. fetched' \in 0 .. Fetches
    BY <1>4 DEF ReadCycle, SwitchTypeOK, Fetches
  <2> QED BY <1>3, <1>4, <2>1, <2>2 DEF ReadCycle, SwitchTypeOK, Ops, vars
<1>5. ASSUME NEW op \in Ops, Store(op)
      PROVE  Cycle(op) /\ fetched' \in 0 .. Fetches /\ stores' \in 0 .. MaxStores /\ portb \in Patterns
  BY <1>5, PatternTypes DEF Store, Cycle, Start, SwitchTypeOK, Fetches
<1>6. ASSUME NEW p \in Patterns, WritePORTB(p) PROVE BusInv'
  BY <1>3, <1>5, <1>6 DEF WritePORTB, SwitchTypeOK, Ops, Trapped, vars
<1>7. ASSUME NEW op \in Trapped \ {"d301"}, WriteRegister(op) PROVE BusInv'
  BY <1>3, <1>5, <1>7 DEF WriteRegister, SwitchTypeOK, Ops, vars
<1>8. ASSUME NEW v \in Values, WriteWindow(v) PROVE BusInv'
  BY <1>3, <1>5, <1>8 DEF WriteWindow, SwitchTypeOK, Ops
<1>9. CASE SkipEvent
  <2>1. /\ queue' = Tail(queue) /\ queue # <<>> /\ pc = "poll"
        /\ UNCHANGED <<vars, pages, bus, core0, patient>>
    BY <1>9 DEF SkipEvent
  <2>2. queue' \in Seq(Ops) /\ Len(queue') = Len(queue) - 1 /\ Len(queue) \in Nat
    BY <2>1 DEF Waits
  <2>3. Waits' /\ Len(queue') <= MaxQueue + WaitCycles + ResumeCycles
    BY <2>1, <2>2, PatternTypes DEF Waits, core0, SwitchTypeOK
  <2> QED BY <1>0, <2>1, <2>3 DEF SwitchTypeOK, Start, bus, core0, vars
<1>10. CASE OnPORTB
  <2>1. Waits'
    BY <1>10 DEF OnPORTB, Event, Waits
  <2> QED BY <1>0, <1>10, <2>1 DEF OnPORTB, Event, SwitchTypeOK, Start, bus, vars
<1>11. CASE Remap
  <2>1. Waits'
    BY <1>11 DEF Remap, Waits
  <2> QED BY <1>0, <1>11, <2>1 DEF Remap, SwitchTypeOK, Start, vars
<1>12. CASE OnPBISelect
  <2>1. Waits'
    BY <1>12 DEF OnPBISelect, Event, Waits
  <2> QED BY <1>0, <1>12, <2>1 DEF OnPBISelect, Event, SwitchTypeOK, Start, bus, vars
<1>13. CASE OnRegister
  <2>1. Waits'
    BY <1>13, PatternTypes DEF OnRegister, Event, Waits
  <2> QED BY <1>0, <1>13, <2>1, PatternTypes DEF OnRegister, Event, SwitchTypeOK, Start, bus, vars
<1>14. CASE ReadPattern
  <2>1. Waits'
    BY <1>14 DEF ReadPattern, Waits
  <2> QED BY <1>0, <1>14, <2>1 DEF ReadPattern, SwitchTypeOK, Start, bus, vars
<1>15. CASE SelectBank
  <2>1. /\ UNCHANGED <<bus, queue, nr, wait, release, patient>> /\ pc' = "drop" /\ pc = "select"
        /\ preload' = preload
    BY <1>15 DEF SelectBank, vars
  <2>2. Waits'
    BY <2>1 DEF Waits
  <2>3. pages' \in [Patterns -> Buffers \cup {Base}] /\ lastXeBankNr' \in Patterns
    <3>1. CASE pages' = pages /\ lastXeBankNr' = lastXeBankNr
      BY <3>1 DEF SwitchTypeOK
    <3>2. CASE getBank(nr) /\ lastXeBankNr' = nr
               /\ pages' = IF Premap[nr] < 0 THEN pages ELSE [pages EXCEPT ![nr] = ptr']
      <4>1. nr \in Patterns /\ pages \in [Patterns -> Buffers \cup {Base}]
        BY DEF SwitchTypeOK
      <4>2. CASE Premap[nr] < 0
        BY <3>2, <4>1, <4>2
      <4>3. CASE ~ Premap[nr] < 0
        <5>1. Premap[nr] \in BankNrs
          BY <4>1, <4>3, PoolAssumption DEF Patterns, BankNrs
        <5>2. ptr' = banks'[Premap[nr]]
          BY <3>2, <4>3, <5>1 DEF getBank
        <5>3. ptr' \in Buffers
          BY <1>0, <5>1, <5>2 DEF PoolInv, TypeOK
        <5> QED BY <3>2, <4>1, <4>3, <5>3
      <4> QED BY <4>2, <4>3
    <3> QED BY <1>15, <3>1, <3>2 DEF SelectBank
  <2> QED BY <1>0, <2>1, <2>2, <2>3 DEF SwitchTypeOK, Start, bus
<1>16. CASE DropEvents
  <2>1. /\ queue' = <<>> /\ pc' = "wait" /\ wait' = WaitCycles /\ pc = "drop"
        /\ UNCHANGED <<vars, pages, bus, nr, lastXeBankNr, release, patient>>
    BY <1>16 DEF DropEvents
  <2>2. queue' \in Seq(Ops) /\ Len(queue') = 0
    BY <2>1
  <2>3. Waits'
    BY <2>1, <2>2, PatternTypes DEF Waits
  <2> QED BY <1>0, <2>1, <2>2, <2>3, PatternTypes DEF SwitchTypeOK, Start, bus, vars
<1>17. CASE StartResume
  <2>1. /\ queue' = <<>> /\ pc' = "resume" /\ wait' = ResumeCycles /\ release' = TRUE
        /\ pc = "wait"
        /\ UNCHANGED <<vars, pages, bus, nr, lastXeBankNr, patient>>
    BY <1>17 DEF StartResume
  <2>2. queue' \in Seq(Ops) /\ Len(queue') = 0
    BY <2>1
  <2>3. Waits'
    BY <2>1, <2>2, PatternTypes DEF Waits
  <2> QED BY <1>0, <2>1, <2>2, <2>3, PatternTypes DEF SwitchTypeOK, Start, bus, vars
<1>18. CASE EndResume
  <2>1. /\ queue' = Tail(queue) /\ pc' = "poll" /\ wait = 0 /\ release' = FALSE /\ pc = "resume"
        /\ UNCHANGED <<vars, pages, bus, nr, lastXeBankNr, wait, patient>>
    BY <1>18 DEF EndResume
  <2>2. queue \in Seq(Ops) /\ Len(queue) \in Nat /\ Len(queue) >= ResumeCycles
        /\ Len(queue) <= Longest
    BY <2>1, PatternTypes DEF Waits
  <2>3. queue # <<>>
    BY <2>2, SwitchAssumption
  <2>4. queue' \in Seq(Ops) /\ Len(queue') = Len(queue) - 1
    BY <2>1, <2>2, <2>3
  <2>5. Waits'
    BY <2>1, <2>2, <2>4, PatternTypes DEF Waits
  <2> QED BY <1>0, <2>1, <2>2, <2>4, <2>5, PatternTypes DEF SwitchTypeOK, Start, bus, vars
<1> QED BY <1>1, <1>2, <1>4, <1>6, <1>7, <1>8, <1>9, <1>10, <1>11, <1>12, <1>13, <1>14, <1>15, <1>16,
           <1>17, <1>18 DEF SwitchNext, Core1, Core0

-----------------------------------------------------------------------------
(* What was selected. *)

(* The steps that change neither a table, nor a bank, nor what selects.    *)
LEMMA SelectionActions ==
    ASSUME SwitchNext
    PROVE  \/ LoadBanks \/ mmuInit \/ SelectBank
           \/ /\ UNCHANGED <<pages, banks, lastXeBankNr>>
              /\ pc' = "init" <=> pc = "init"
<1>1. ASSUME NEW v \in Values, WriteWindow(v)
      PROVE  UNCHANGED <<pages, banks, lastXeBankNr, pc>>
  BY <1>1 DEF WriteWindow, pool
<1> QED BY <1>1 DEF SwitchNext, Core1, Core0, ReadCycle, WritePORTB, WriteRegister, SkipEvent, OnPORTB,
       Remap, OnPBISelect, OnRegister, ReadPattern, DropEvents, StartResume, EndResume, vars, core0, Event

(* getBank leaves its pattern settled once the table has its pointer. *)
LEMMA SelectSettles ==
    ASSUME BusInv, pc = "select", lastXeBankNr # nr, SelectBank
    PROVE  /\ Settled(nr)' <=> (Premap[nr] < 0 => pages[nr] = Base)
           /\ lastXeBankNr' = nr /\ nr' = nr
           /\ \A p \in Patterns : Premap[p] < 0 => pages'[p] = pages[p]
<1>1. /\ getBank(nr) /\ lastXeBankNr' = nr /\ nr' = nr /\ nr \in Patterns
      /\ pages' = IF Premap[nr] < 0 THEN pages ELSE [pages EXCEPT ![nr] = ptr']
      /\ pages \in [Patterns -> Buffers \cup {Base}]
  BY DEF SelectBank, BusInv, SwitchTypeOK
<1>2. PoolInv'
  BY <1>1, StepPool DEF BusInv, SwitchNext, Core0
<1>3. CASE Premap[nr] < 0
  BY <1>1, <1>3 DEF Settled
<1>4. CASE ~ Premap[nr] < 0
  <2>1. Premap[nr] \in BankNrs
    BY <1>1, <1>4, PoolAssumption DEF Patterns, BankNrs
  <2>2. ptr' = banks'[Premap[nr]] /\ sel' = Premap[nr]
    BY <1>1, <1>4, <2>1 DEF getBank, BankNrs
  <2>3. sel' # None
    BY <2>1, <2>2, PoolAssumption DEF BankNrs
  <2>4. ptr' < SramBanks
    BY <1>2, <2>3 DEF PoolInv, SelectedInSram
  <2>5. pages' = [pages EXCEPT ![nr] = ptr']
    BY <1>1, <1>4
  <2>6. pages'[nr] = ptr'
    BY <1>1, <2>5
  <2>7. Settled(nr)'
    BY <1>1, <1>4, <2>2, <2>4, <2>6 DEF Settled, isSRAM
  <2>8. \A p \in Patterns : Premap[p] < 0 => pages'[p] = pages[p]
    BY <1>1, <1>4, <2>5
  <2> QED BY <1>1, <1>4, <2>7, <2>8
<1> QED BY <1>3, <1>4

LEMMA StepSelection ==
    ASSUME BusInv, Selection, SwitchNext, Premap[0] < 0
    PROVE  Selection'
<1>1. CASE LoadBanks
  <2>1. pc = "init" /\ pc' = pc
    BY <1>1, PatternTypes DEF LoadBanks, core0, Preload, BusInv, Start
  <2> QED BY <2>1 DEF Selection
<1>2. CASE mmuInit
  <2>1. lastXeBankNr' = 0 /\ 0 \in Patterns
        /\ pages' = [p \in Patterns |-> IF Premap[p] < 0 THEN Base ELSE banks[Premap[p]]]
    BY <1>2, PatternTypes DEF mmuInit, BusInv, Start
  <2> QED BY <2>1 DEF Selection, Settled
<1>3. CASE SelectBank
  <2>1. pc = "select" /\ lastXeBankNr \in Patterns /\ nr \in Patterns
    BY <1>3 DEF SelectBank, BusInv, SwitchTypeOK
  <2>2. CASE lastXeBankNr # nr
    BY <1>3, <2>1, <2>2, SelectSettles DEF Selection
  <2>3. CASE lastXeBankNr = nr
    BY <1>3, <2>1, <2>3 DEF SelectBank, Selection, Settled, vars, isSRAM
  <2> QED BY <2>2, <2>3
<1>4. CASE UNCHANGED <<pages, banks, lastXeBankNr>> /\ (pc' = "init" <=> pc = "init")
  BY <1>4 DEF Selection, Settled, isSRAM
<1> QED BY <1>1, <1>2, <1>3, <1>4, SelectionActions

-----------------------------------------------------------------------------
(* Trapped writes on their way to core0. *)

(* The kinds of steps that the events tell apart. *)
LEMMA EventActions ==
    ASSUME SwitchNext, patient
    PROVE  \/ \E op \in Ops \ Trapped : Cycle(op) /\ UNCHANGED <<pc, release>>
           \/ \E op \in Trapped : Rested /\ Cycle(op) /\ UNCHANGED <<pc, release>>
           \/ SkipEvent
           \/ /\ UNCHANGED <<r0, queue, halted>>
              /\ \/ pc = "init" /\ pc' \in {"init", "poll"}
                 \/ \E op \in Trapped : Event(op) /\ pc' \in {"remap", "change", "wait"}
                 \/ pc \notin {"init", "poll"} /\ pc' \in {"change", "select", "drop"}
           \/ /\ UNCHANGED <<r0, halted>>
              /\ pc \in {"drop", "wait"} /\ pc' \in {"wait", "resume"} /\ queue' = <<>>
           \/ /\ UNCHANGED <<r0, halted>>
              /\ pc = "resume" /\ wait = 0 /\ pc' = "poll" /\ queue' = Tail(queue)
           \/ LoadBanks
<1>1. ASSUME Core1
      PROVE  \/ \E op \in Ops \ Trapped : Cycle(op) /\ UNCHANGED <<pc, release>>
             \/ \E op \in Trapped : Rested /\ Cycle(op) /\ UNCHANGED <<pc, release>>
  <2>1. "read" \in Ops \ Trapped /\ "write" \in Ops \ Trapped /\ "d301" \in Trapped
    BY DEF Ops, Trapped
  <2>2. ASSUME ReadCycle PROVE \E op \in Ops \ Trapped : Cycle(op) /\ UNCHANGED <<pc, release>>
    BY <2>1, <2>2 DEF ReadCycle
  <2>3. ASSUME NEW p \in Patterns, WritePORTB(p)
        PROVE  \E op \in Trapped : Rested /\ Cycle(op) /\ UNCHANGED <<pc, release>>
    BY <2>1, <2>3 DEF WritePORTB, Store
  <2>4. ASSUME NEW op \in Trapped \ {"d301"}, WriteRegister(op)
        PROVE  Rested /\ Cycle(op) /\ UNCHANGED <<pc, release>>
    BY <2>4 DEF WriteRegister, Store
  <2>5. ASSUME NEW v \in Values, WriteWindow(v)
        PROVE  \E op \in Ops \ Trapped : Cycle(op) /\ UNCHANGED <<pc, release>>
    BY <2>1, <2>5 DEF WriteWindow, Store
  <2> QED BY <1>1, <2>2, <2>3, <2>4, <2>5 DEF Core1
<1>2. mmuInit => UNCHANGED <<r0, queue, halted>> /\ pc = "init" /\ pc' = "poll"
  BY DEF mmuInit
<1>3. ASSUME OnPORTB \/ OnPBISelect \/ OnRegister
      PROVE  /\ UNCHANGED <<r0, queue, halted>>
             /\ \E op \in Trapped : Event(op) /\ pc' \in {"remap", "change", "wait"}
  BY <1>3 DEF OnPORTB, OnPBISelect, OnRegister, bus, Trapped
<1>4. ASSUME Remap \/ ReadPattern \/ SelectBank
      PROVE  /\ UNCHANGED <<r0, queue, halted>>
             /\ pc \notin {"init", "poll"} /\ pc' \in {"change", "select", "drop"}
  BY <1>4 DEF Remap, ReadPattern, SelectBank, bus
<1>5. ASSUME DropEvents \/ StartResume
      PROVE  /\ UNCHANGED <<r0, halted>> /\ pc \in {"drop", "wait"}
             /\ pc' \in {"wait", "resume"} /\ queue' = <<>>
  BY <1>5 DEF DropEvents, StartResume, bus
<1>6. EndResume => /\ UNCHANGED <<r0, halted>> /\ pc = "resume" /\ wait = 0
                   /\ pc' = "poll" /\ queue' = Tail(queue)
  BY DEF EndResume, bus
<1> QED BY <1>1, <1>2, <1>3, <1>4, <1>5, <1>6 DEF SwitchNext, Core0

LEMMA PatientStays == SwitchNext => patient' = patient
BY DEF SwitchNext, Core1, Core0, LoadBanks, mmuInit, ReadCycle, WritePORTB, WriteRegister, WriteWindow,
       SkipEvent, OnPORTB, Remap, OnPBISelect, OnRegister, ReadPattern, SelectBank, DropEvents,
       StartResume, EndResume

(* After a cycle. *)
LEMMA AppendMarks ==
    ASSUME BusInv, NEW op, Cycle(op)
    PROVE  /\ Len(queue') = Len(queue) + 1 /\ Len(queue) \in Nat
           /\ queue'[Len(queue) + 1] = r0
           /\ \A i \in 1 .. Len(queue) : queue'[i] = queue[i]
           /\ r0' = op
<1>1. queue \in Seq(Ops) /\ r0 \in Ops /\ queue' = Append(queue, r0)
  BY DEF BusInv, Waits, SwitchTypeOK, Cycle, Ops
<1> QED BY <1>1 DEF Cycle

(* Without the oldest event. *)
LEMMA TailMarks ==
    ASSUME BusInv, queue # <<>>, queue' = Tail(queue)
    PROVE  /\ Len(queue') = Len(queue) - 1 /\ Len(queue) \in Nat \ {0}
           /\ \A i \in 1 .. Len(queue') : i + 1 \in 1 .. Len(queue) /\ queue'[i] = queue[i + 1]
           /\ Head(queue) = queue[1]
<1>1. queue \in Seq(Ops)
  BY DEF BusInv, Waits
<1> QED BY <1>1

LEMMA StepEvents ==
    ASSUME BusInv, Events, SwitchNext, patient
    PROVE  Events'
<1>0. release <=> pc = "resume"
  BY DEF BusInv, Waits
<1>1. ASSUME NEW op \in Ops \ Trapped, Cycle(op), UNCHANGED <<pc, release>>
      PROVE  Events'
  <2>1. PortbMarked' => PortbMarked
    BY <1>1, AppendMarks DEF PortbMarked, Trapped
  <2>2. PortbMarked => halted /\ ~release
    BY <1>0 DEF Events, PortbMarked, Marked, Trapped
  <2>3. PortbMarked' => halted'
    BY <1>1, <2>1, <2>2 DEF Cycle
  <2>4. Marked' => Marked
    BY <1>1, AppendMarks DEF Marked
  <2>5. \A i, j \in 1 .. Len(queue') : queue'[i] \in Trapped /\ queue'[j] \in Trapped => i = j
    <3> SUFFICES ASSUME NEW i \in 1 .. Len(queue'), NEW j \in 1 .. Len(queue'),
                        queue'[i] \in Trapped, queue'[j] \in Trapped, i # j
                 PROVE  FALSE
      OBVIOUS
    <3>1. CASE i \in 1 .. Len(queue) /\ j \in 1 .. Len(queue)
      BY <1>1, <3>1, AppendMarks DEF Events
    <3>2. CASE i = Len(queue) + 1 /\ j \in 1 .. Len(queue)
      BY <1>1, <3>2, AppendMarks DEF Events
    <3>3. CASE j = Len(queue) + 1 /\ i \in 1 .. Len(queue)
      BY <1>1, <3>3, AppendMarks DEF Events
    <3> QED BY <1>1, <3>1, <3>2, <3>3, AppendMarks
  <2>6. r0' \notin Trapped
    BY <1>1, AppendMarks
  <2> QED BY <1>1, <2>3, <2>4, <2>5, <2>6 DEF Events
<1>2. ASSUME NEW op \in Trapped, Rested, Cycle(op), UNCHANGED <<pc, release>>
      PROVE  Events'
  <2>1. \A i \in 1 .. Len(queue') : queue'[i] \notin Trapped
    BY <1>2, AppendMarks DEF Rested
  <2>2. pc' = "poll"
    BY <1>2 DEF Rested
  <2>3. PortbMarked' => halted'
    <3>1. PortbMarked' => op = "d301"
      BY <1>2, <2>1, AppendMarks DEF PortbMarked, Trapped
    <3> QED BY <1>2, <3>1 DEF Cycle, Rested, PageD3
  <2> QED BY <2>1, <2>2, <2>3 DEF Events
<1>3. ASSUME UNCHANGED <<r0, halted>>, queue # <<>>, queue' = Tail(queue), pc' = "poll",
             pc \in {"poll", "resume"}
      PROVE  Events'
  <2>1. PortbMarked' => PortbMarked
    BY <1>3, TailMarks DEF PortbMarked
  <2>2. \A i, j \in 1 .. Len(queue') : queue'[i] \in Trapped /\ queue'[j] \in Trapped => i = j
    <3> SUFFICES ASSUME NEW i \in 1 .. Len(queue'), NEW j \in 1 .. Len(queue'),
                        queue'[i] \in Trapped, queue'[j] \in Trapped
                 PROVE  i = j
      OBVIOUS
    <3>1. i + 1 = j + 1
      BY <1>3, TailMarks DEF Events
    <3> QED BY <3>1, <1>3, TailMarks
  <2>3. r0' \in Trapped => \A i \in 1 .. Len(queue') : queue'[i] \notin Trapped
    BY <1>3, TailMarks DEF Events
  <2> QED BY <1>3, <2>1, <2>2, <2>3 DEF Events
<1>4. CASE SkipEvent
  <2>1. /\ UNCHANGED <<r0, halted, pc>> /\ pc = "poll"
        /\ queue # <<>> /\ queue' = Tail(queue)
    BY <1>4 DEF SkipEvent, bus, core0
  <2> QED BY <1>3, <2>1
<1>5. ASSUME UNCHANGED <<r0, queue, halted>>, pc = "init" /\ pc' \in {"init", "poll"}
      PROVE  Events'
  <2>1. Len(queue) = 0 /\ r0 = "read"
    BY <1>5 DEF BusInv, Start
  <2>2. Len(queue') = 0 /\ r0' = "read"
    BY <1>5, <2>1
  <2> QED BY <2>2, <1>5 DEF Events, Trapped, PortbMarked
<1>6. ASSUME UNCHANGED <<r0, queue, halted>>, NEW op \in Trapped, Event(op),
             pc' \in {"remap", "change", "wait"}
      PROVE  Events'
  <2>1. queue[1] \in Trapped /\ 1 \in 1 .. Len(queue)
    <3>1. queue \in Seq(Ops) /\ queue # <<>>
      BY <1>6 DEF BusInv, Waits, Event
    <3> QED BY <1>6, <3>1 DEF Event
  <2>2. r0 \notin Trapped
    BY <2>1 DEF Events
  <2>3. PortbMarked' => PortbMarked
    BY <1>6 DEF PortbMarked
  <2> QED BY <1>6, <2>2, <2>3 DEF Events
<1>7. ASSUME UNCHANGED <<r0, queue, halted>>, pc \notin {"init", "poll"},
             pc' \in {"change", "select", "drop"}
      PROVE  Events'
  <2>1. PortbMarked' => PortbMarked
    BY <1>7 DEF PortbMarked
  <2> QED BY <1>7, <2>1 DEF Events
<1>8. ASSUME UNCHANGED <<r0, halted>>, pc \in {"drop", "wait"}, queue' = <<>>,
             pc' \in {"wait", "resume"}
      PROVE  Events'
  <2>1. r0 \notin Trapped /\ Len(queue') = 0
    BY <1>8 DEF Events
  <2> QED BY <1>8, <2>1 DEF Events, Marked, PortbMarked, Trapped
<1>9. ASSUME UNCHANGED <<r0, halted>>, pc = "resume", wait = 0, pc' = "poll", queue' = Tail(queue)
      PROVE  Events'
  <2>1. queue # <<>>
    <3>1. queue \in Seq(Ops) /\ Len(queue) >= ResumeCycles
      BY <1>9, PatternTypes DEF BusInv, Waits
    <3> QED BY <3>1, SwitchAssumption
  <2> QED BY <1>3, <1>9, <2>1
<1>10. CASE LoadBanks
  BY <1>10 DEF LoadBanks, bus, core0, Events, Marked, PortbMarked
<1> QED BY <1>1, <1>2, <1>4, <1>5, <1>6, <1>7, <1>8, <1>9, <1>10, EventActions

-----------------------------------------------------------------------------
(* The window follows PORTB. *)

(* A bank stays settled while nothing selects. *)
LEMMA SettledStays ==
    ASSUME UNCHANGED <<pages, banks, portb>>
    PROVE  Settled(portb)' <=> Settled(portb)
BY DEF Settled, isSRAM

(* The only trapped write that core0 has yet to see is the one it takes. *)
LEMMA OneEvent ==
    ASSUME BusInv, Events, patient, NEW op \in Trapped \ {"d301"}, Event(op)
    PROVE  ~PortbMarked
<1>1. queue[1] = op /\ 1 \in 1 .. Len(queue)
  <2>1. queue \in Seq(Ops) /\ queue # <<>>
    BY DEF BusInv, Waits, Event
  <2> QED BY <2>1 DEF Event
<1> QED BY <1>1 DEF Events, PortbMarked, Trapped

LEMMA StepFollows ==
    ASSUME BusInv, Selection, Events, Follows, SwitchNext, patient
    PROVE  Follows'
<1> USE DEF Follows
<1>0. /\ release <=> pc = "resume"
      /\ r0 \in Trapped => pc = "poll"
      /\ PortbMarked => halted
      /\ nr \in Patterns /\ fetched \in 0 .. Fetches /\ Fetches \in Nat
  BY DEF BusInv, Waits, Events, SwitchTypeOK, Fetches
<1>1. CASE LoadBanks
  <2>1. pc' = "init"
    BY <1>1, PatternTypes DEF LoadBanks, core0, Preload, BusInv, Start
  <2> QED BY <2>1
<1>2. CASE mmuInit
  <2>1. /\ portb' = AllOnes /\ mapped' = AllOnes /\ AllOnes \in Patterns /\ pc' = "poll"
        /\ pages' = [p \in Patterns |-> IF Premap[p] < 0 THEN Base ELSE banks[Premap[p]]]
        /\ UNCHANGED vars /\ preload = NPatterns /\ pc = "init"
    BY <1>2, PatternTypes DEF mmuInit
  <2>2. Settled(AllOnes)'
    <3>1. CASE Premap[AllOnes] < 0
      BY <2>1, <3>1 DEF Settled
    <3>2. CASE ~ Premap[AllOnes] < 0
      <4>1. Premap[AllOnes] \in BankNrs
        BY <2>1, <3>2, PoolAssumption DEF Patterns, BankNrs
      <4>2. sel = Premap[AllOnes] /\ sel # None
        BY <2>1, <4>1, PoolAssumption DEF BusInv, Start, BankNrs
      <4>3. isSRAM(Premap[AllOnes])
        BY <4>2 DEF BusInv, PoolInv, SelectedInSram, isSRAM
      <4> QED BY <2>1, <3>2, <4>3 DEF Settled, isSRAM, vars
    <3> QED BY <3>1, <3>2
  <2> QED BY <2>1, <2>2
<1>3. ASSUME NEW op \in Ops, Cycle(op), UNCHANGED <<pages, banks, portb, pc, nr>>,
             fetched' > 0 => mapped' = portb, op \in Trapped => Rested
      PROVE  Follows'
  <2>1. halted /\ pc # "resume" => halted'
    BY <1>0, <1>3 DEF Cycle
  <2>2. PortbMarked => PortbMarked'
    BY <1>3, AppendMarks DEF PortbMarked
  <2>3. Settled(portb)' <=> Settled(portb)
    BY <1>3, SettledStays
  <2> QED BY <1>3, <2>1, <2>2, <2>3 DEF Cycle
<1>4. CASE ReadCycle
  BY <1>3, <1>4 DEF ReadCycle, vars, Ops, Trapped
<1>5. ASSUME NEW p \in Patterns, WritePORTB(p) PROVE Follows'
  <2>1. /\ Rested /\ Cycle("d301") /\ fetched' = 0 /\ pc' = pc
    BY <1>5 DEF WritePORTB, Store
  <2>2. pc' = "poll" /\ r0' = "d301" /\ halted'
    BY <2>1 DEF Rested, Cycle, PageD3
  <2> QED BY <2>1, <2>2 DEF PortbMarked
<1>6. ASSUME NEW op \in Trapped \ {"d301"}, WriteRegister(op) PROVE Follows'
  <2>1. fetched' = 0 /\ Cycle(op) /\ Rested
    BY <1>6 DEF WriteRegister, Store
  <2> QED BY <1>3, <1>6, <2>1 DEF WriteRegister, vars, Ops
<1>7. ASSUME NEW v \in Values, WriteWindow(v) PROVE Follows'
  <2>1. fetched' = 0 /\ Cycle("write")
    BY <1>7 DEF WriteWindow, Store
  <2> QED BY <1>3, <1>7, <2>1 DEF WriteWindow, pool, Ops, Trapped
<1>8. ASSUME UNCHANGED <<pages, banks, portb, mapped, halted, fetched>>,
             pc # "init", pc' # "init",
             pc' = "remap" => nr' = portb /\ halted,
             pc' = "select" => nr' = portb,
             pc \in {"remap", "change", "select"} => pc' \in {"remap", "change", "select"},
             pc = "poll" /\ PortbMarked => (pc' = "poll" /\ PortbMarked') \/ pc' = "remap"
      PROVE  Follows'
  BY <1>8, SettledStays
<1>9. CASE SkipEvent
  <2>1. /\ pc = "poll" /\ queue # <<>> /\ queue' = Tail(queue) /\ Head(queue) \notin Trapped
        /\ UNCHANGED <<pages, banks, portb, mapped, halted, fetched, r0, pc, nr>>
    BY <1>9 DEF SkipEvent, bus, core0, vars
  <2>2. PortbMarked => PortbMarked'
    <3>1. CASE r0 = "d301"
      BY <2>1, <3>1 DEF PortbMarked
    <3>2. ASSUME NEW i \in 1 .. Len(queue), queue[i] = "d301" PROVE PortbMarked'
      <4>1. i # 1
        BY <2>1, <3>2, TailMarks DEF Trapped
      <4>2. i - 1 \in 1 .. Len(queue') /\ (i - 1) + 1 = i
        BY <2>1, <4>1, TailMarks
      <4>3. queue'[i - 1] = "d301"
        BY <2>1, <3>2, <4>2, TailMarks
      <4> QED BY <4>2, <4>3 DEF PortbMarked
    <3> QED BY <3>1, <3>2 DEF PortbMarked
  <2> QED BY <1>8, <2>1, <2>2
<1>10. CASE OnPORTB
  <2>1. halted
    <3>1. queue \in Seq(Ops) /\ queue # <<>> /\ Head(queue) = "d301"
      BY <1>10 DEF OnPORTB, Event, BusInv, Waits
    <3>2. queue[1] = "d301" /\ 1 \in 1 .. Len(queue)
      BY <3>1
    <3> QED BY <1>0, <3>2 DEF PortbMarked
  <2> QED BY <1>8, <1>10, <2>1 DEF OnPORTB, Event, bus, vars
<1>11. CASE Remap
  <2>1. /\ pc = "remap" /\ mapped' = nr /\ pc' = "change"
        /\ UNCHANGED <<pages, banks, portb, halted, fetched, nr>>
    BY <1>11 DEF Remap, vars
  <2> QED BY <2>1, SettledStays
<1>12. ASSUME NEW op \in Trapped \ {"d301"}, Event(op), pc' \in {"change", "wait"},
              UNCHANGED <<pages, banks, portb, mapped, halted, fetched>>
       PROVE  Follows'
  BY <1>8, <1>12, OneEvent DEF Event
<1>13. CASE OnPBISelect
  BY <1>12, <1>13 DEF OnPBISelect, bus, vars, Trapped
<1>14. CASE OnRegister
  BY <1>12, <1>14 DEF OnRegister, bus, vars, Trapped
<1>15. CASE ReadPattern
  BY <1>8, <1>15 DEF ReadPattern, bus, vars
<1>16. CASE SelectBank
  <2>1. /\ pc = "select" /\ pc' = "drop" /\ nr = portb /\ portb' = portb
        /\ UNCHANGED <<mapped, fetched>>
    BY <1>16 DEF SelectBank, bus
  <2>2. Settled(portb)'
    <3>1. CASE lastXeBankNr = nr
      BY <1>16, <2>1, <3>1 DEF SelectBank, Selection, Settled, isSRAM, vars
    <3>2. CASE lastXeBankNr # nr
      <4>1. Premap[nr] < 0 => pages[nr] = Base
        BY <1>0, <2>1 DEF Selection
      <4>2. Settled(nr)' /\ nr' = nr
        BY <1>16, <2>1, <3>2, <4>1, SelectSettles
      <4> QED BY <2>1, <4>2 DEF Settled
    <3> QED BY <3>1, <3>2
  <2> QED BY <2>1, <2>2
<1>17. CASE DropEvents
  BY <1>8, <1>17 DEF DropEvents, bus, vars
<1>18. CASE StartResume
  BY <1>8, <1>18 DEF StartResume, bus, vars
<1>19. CASE EndResume
  BY <1>8, <1>19 DEF EndResume, bus, vars
<1> QED BY <1>1, <1>2, <1>4, <1>5, <1>6, <1>7, <1>9, <1>10, <1>11, <1>13, <1>14, <1>15, <1>16, <1>17,
           <1>18, <1>19 DEF SwitchNext, Core1, Core0

-----------------------------------------------------------------------------
(* The theorems. *)

(* A suspended step. *)
LEMMA StutterBus ==
    ASSUME UNCHANGED switchVars
    PROVE  /\ BusInv => BusInv'
           /\ Selection => Selection'
           /\ Events => Events'
           /\ Follows => Follows'
           /\ patient' = patient
<1> USE DEF switchVars, vars, bus, core0
<1>1. PoolInv => PoolInv'
  BY DEF PoolInv, TypeOK, NoAliasing, ResidentsListed, SelectedInSram, isSRAM
<1>2. SwitchTypeOK => SwitchTypeOK'
  BY DEF SwitchTypeOK
<1>3. Waits => Waits'
  BY DEF Waits
<1>4. Start => Start'
  BY DEF Start
<1> QED BY <1>1, <1>2, <1>3, <1>4 DEF BusInv, Selection, Events, Follows, Settled, Marked, PortbMarked,
            isSRAM

(* Every index, wait and queue of the two cores stays in its range, for    *)
(* any program: the events core0 drops and the one it moves past at the    *)
(* end of resume6502 are in the queue.                                     *)
THEOREM SwitchTypesAlways == SwitchSpec => []SwitchTypeOK
<1>1. SwitchInit => BusInv
  BY InitBus
<1>2. BusInv /\ [SwitchNext]_switchVars => BusInv'
  BY StepBus, StutterBus
<1>3. BusInv => SwitchTypeOK
  BY DEF BusInv
<1> QED BY <1>1, <1>2, <1>3, PTL DEF SwitchSpec

PatientInv == BusInv /\ Selection /\ (patient => Events /\ Follows)

LEMMA InitPatient == SwitchInit => PatientInv
<1> SUFFICES ASSUME SwitchInit PROVE PatientInv
  OBVIOUS
<1>1. Len(queue) = 0 /\ pc = "init" /\ r0 = "read"
  BY DEF SwitchInit
<1> QED BY <1>1, InitBus DEF PatientInv, Selection, Events, Follows, Marked, PortbMarked, Trapped

LEMMA StepPatient ==
    ASSUME Premap[0] < 0, PatientInv, [SwitchNext]_switchVars
    PROVE  PatientInv'
<1>1. CASE SwitchNext
  BY <1>1, StepBus, StepSelection, StepEvents, StepFollows, PatientStays DEF PatientInv
<1>2. CASE UNCHANGED switchVars
  BY <1>2, StutterBus DEF PatientInv
<1> QED BY <1>1, <1>2

(* What a free 6502 writes to. *)
LEMMA FreeWindow == PatientInv => PatientWindowIsSelectedBank
BY DEF PatientInv, BusInv, Start, Follows, Settled, PatientWindowIsSelectedBank, Fetches

(* A program that gives core0 time has the bank it selected in the window  *)
(* whenever it can store (core1.cpp, main.cpp core0_onBmonChange).         *)
THEOREM PatientWindowAlways ==
    ASSUME Premap[0] < 0
    PROVE  SwitchSpec => []PatientWindowIsSelectedBank
<1>1. SwitchInit => PatientInv
  BY InitPatient
<1>2. PatientInv /\ [SwitchNext]_switchVars => PatientInv'
  BY StepPatient
<1> QED BY <1>1, <1>2, FreeWindow, PTL DEF SwitchSpec

(* The exchange of buffers changes no bank. *)
LEMMA GetBankKeepsContents ==
    ASSUME PoolInv, NEW p \in Patterns, getBank(p)
    PROVE  Contents' = Contents
<1>1. CASE UNCHANGED <<banks, buf>>
  BY <1>1 DEF Contents
<1>2. CASE SwapIn(Premap[p]) /\ Premap[p] >= 0
  BY <1>2, PremapType, SwapInKeepsContents
<1> QED BY <1>1, <1>2, PoolAssumption DEF getBank, Touch, Patterns

(* Only a store changes a bank, and only the one PORTB selects. *)
THEOREM SelectedBankWrittenAlways ==
    ASSUME Premap[0] < 0
    PROVE  SwitchSpec => OnlySelectedBankWritten
<1> DEFINE Right == patient => \A b \in BankNrs : Contents'[b] # Contents[b] =>
                       r0' = "write" /\ b = Premap[portb]
<1>1. ASSUME PatientInv, SwitchNext PROVE Right
  <2>1. CASE LoadBanks
    <3>1. preload \in Patterns /\ getBank(preload)
      BY <1>1, <2>1, PatternTypes DEF LoadBanks, Preload, PatientInv, BusInv, PoolInv, TypeOK, Patterns
    <3> QED BY <1>1, <3>1, GetBankKeepsContents DEF PatientInv, BusInv
  <2>2. CASE SelectBank
    <3>1. nr \in Patterns
      BY <1>1 DEF PatientInv, BusInv, SwitchTypeOK
    <3>2. UNCHANGED <<banks, buf>> => Contents' = Contents
      BY DEF Contents
    <3> QED BY <1>1, <2>2, <3>1, <3>2, GetBankKeepsContents DEF SelectBank, vars, PatientInv, BusInv
  <2>3. ASSUME NEW v \in Values, WriteWindow(v) PROVE Right
    <3>1. ~halted /\ fetched = Fetches /\ r0' = "write" /\ banks' = banks
      BY <2>3 DEF WriteWindow, Store, Cycle, pool
    <3>2. CASE pages[mapped] = Base
      <4>1. buf' = buf
        BY <2>3, <3>2 DEF WriteWindow
      <4> QED BY <3>1, <4>1 DEF Contents
    <3>3. CASE pages[mapped] # Base
      <4> SUFFICES ASSUME patient, NEW b \in BankNrs, Contents'[b] # Contents[b]
                   PROVE  b = Premap[portb]
        BY <3>1
      <4>1. buf' = [buf EXCEPT ![pages[mapped]] = v]
        BY <2>3, <3>3 DEF WriteWindow
      <4>2. pages[mapped] = banks[Premap[portb]] /\ ~ Premap[portb] < 0 /\ portb \in Patterns
        BY <1>1, <3>1, <3>3, FreeWindow, PatternTypes
           DEF PatientWindowIsSelectedBank, PatientInv, BusInv, Start, Fetches
      <4>3. Premap[portb] \in BankNrs
        BY <4>2, PoolAssumption DEF Patterns, BankNrs
      <4>4. buf'[banks[b]] # buf[banks[b]] /\ buf \in [Buffers -> Values] /\ banks[b] \in Buffers
        BY <1>1, <3>1 DEF Contents, PatientInv, BusInv, PoolInv, TypeOK
      <4>5. banks[b] = banks[Premap[portb]]
        BY <4>1, <4>2, <4>4
      <4> QED BY <1>1, <4>3, <4>5 DEF PatientInv, BusInv, PoolInv, NoAliasing
    <3> QED BY <3>2, <3>3
  <2>4. CASE UNCHANGED vars
    BY <2>4 DEF vars, Contents
  <2> QED BY <1>1, <2>1, <2>2, <2>3, <2>4, PoolActions
<1>2. ASSUME PatientInv, [SwitchNext]_switchVars PROVE [Right]_switchVars
  BY <1>1, <1>2
<1>3. SwitchInit => PatientInv
  BY InitPatient
<1>4. PatientInv /\ [SwitchNext]_switchVars => PatientInv'
  BY StepPatient
<1> QED BY <1>2, <1>3, <1>4, PTL DEF SwitchSpec, OnlySelectedBankWritten
=============================================================================
