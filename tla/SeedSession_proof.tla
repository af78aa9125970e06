------------------------- MODULE SeedSession_proof -------------------------
(***************************************************************************)
(* Proofs about SeedSession for every number of slots, every set of seeds, *)
(* keys and passphrases and every bank capacity: first what holds on all   *)
(* detours, then what holds while none is taken (Detours = {}).            *)
(***************************************************************************)
EXTENDS SeedSession, FiniteSetTheorems, WellFoundedInduction, SequenceTheorems, TLAPS

(* A slot of a kind holds a body of that kind. *)
SlotOK(s) == /\ s \in SlotRecords
             /\ s.wc = 2 => s.lo \in XKeys
             /\ s.wc \in MnemonicKinds => s.lo \in Halves /\ s.hi \in Halves

(* The two fronts of a pair of banks, as FrontsTogether has them.          *)
Fronts(d) == Len(d.chgBank) \in {Len(d.rxBank), Len(d.rxBank) - 1}

DerivedOK(d) == d \in Derived /\ Fronts(d)

(* The inductive invariant. The kinds of the slots' bodies are needed for  *)
(* the account of an xprv slot to be one; SelectedSlotUsable and           *)
(* NoWalletNothingDerived need each other, for a deleted or a chosen slot; *)
(* and what the passphrase screen stores has the word count of a mnemonic. *)
IInv == /\ TypeOK
        /\ \A i \in Slots : SlotOK(slots[i])
        /\ Fronts(drv)
        /\ SelectedSlotUsable
        /\ NoWalletNothingDerived
        /\ screen = "PassphraseEntry" => wordCount \in MnemonicKinds

-----------------------------------------------------------------------------
(* Lemmas about the operators of SeedSession.                              *)

(* Every nonempty set of naturals has a least element, which Lowest picks. *)
LEMMA LowestIn ==
  ASSUME NEW S, S \subseteq Nat, S # {}
  PROVE  Lowest(S) \in S /\ \A j \in S : Lowest(S) <= j
<1> DEFINE R == StrictSubsetOrdering(Nat)
           T == {0 .. k : k \in S}
<1>1. T \subseteq FiniteSubsetsOf(Nat)
  <2>1. SUFFICES ASSUME NEW k \in S PROVE 0 .. k \in FiniteSubsetsOf(Nat)
    OBVIOUS
  <2>2. IsFiniteSet(0 .. k)
    BY FS_Interval
  <2>3. QED BY <2>2 DEF FiniteSubsetsOf
<1>2. T # {}
  OBVIOUS
<1>3. PICK x \in T : \A y \in T : ~ (<<y, x>> \in R)
  <2> HIDE DEF R, T
  <2> IsWellFoundedOn(R, FiniteSubsetsOf(Nat))
    BY FS_StrictSubsetOrderingWellFounded DEF R
  <2> QED BY <1>1, <1>2, WFMin
<1>4. PICK k \in S : x = 0 .. k
  OBVIOUS
<1>5. \A j \in S : k <= j
  <2>1. SUFFICES ASSUME NEW j \in S, j < k PROVE FALSE
    OBVIOUS
  <2>2. 0 .. j \subseteq 0 .. k /\ 0 .. j # 0 .. k
    <3>1. k \in 0 .. k /\ k \notin 0 .. j
      BY <2>1
    <3>2. QED BY <2>1, <3>1
  <2>3. <<0 .. j, x>> \in R
    BY <2>2, <1>4 DEF StrictSubsetOrdering
  <2>4. QED BY <2>3, <1>3
<1>6. QED BY <1>5 DEF Lowest

LEMMA AccountTypes ==
  /\ NoAcct \in Accounts
  /\ \A k \in Bodies : RawAccount(k) \in Accounts \ {NoAcct}
  /\ \A w \in Arrays, wc \in Kinds, pp \in Passphrases :
       /\ MnemonicAccount(w, wc, pp) \in Accounts
       /\ MnemonicAccount(w, wc, pp) = NoAcct <=> wc \notin MnemonicKinds
<1> USE SeedsAssumption DEF Accounts, Bodies, Kinds, MnemonicKinds, Arrays
<1>1. NoAcct \in Accounts
  BY DEF NoAcct
<1>2. \A k \in Bodies : RawAccount(k) \in Accounts \ {NoAcct}
  BY DEF RawAccount, NoAcct
<1>3. ASSUME NEW w \in Arrays, NEW wc \in Kinds, NEW pp \in Passphrases
      PROVE  /\ MnemonicAccount(w, wc, pp) \in Accounts
             /\ MnemonicAccount(w, wc, pp) = NoAcct <=> wc \notin MnemonicKinds
  BY DEF MnemonicAccount, NoAcct
<1>4. QED BY <1>1, <1>2, <1>3

(* A slot holds a wallet exactly when it is filled. *)
LEMMA AccountOfType ==
  ASSUME NEW s, SlotOK(s)
  PROVE  /\ AccountOf(s) \in Accounts
         /\ AccountOf(s) = NoAcct <=> s.wc = 0
         /\ WordsOf(s) \in Arrays
         /\ MnemonicAccount(WordsOf(s), s.wc, s.pp) \in Accounts
<1> USE DEF SlotOK
<1>1. s.wc \in Kinds /\ s.lo \in Bodies /\ s.pp \in Passphrases
  BY DEF SlotRecords
<1>2. WordsOf(s) \in Arrays
  BY SeedsAssumption DEF WordsOf, Arrays, ZeroWords
<1>3. CASE s.wc \in MnemonicKinds
  <2>1. [lo |-> s.lo, hi |-> s.hi] \in Arrays
    BY <1>3 DEF Arrays
  <2>2. s.wc \notin {0, 1, 2}
    BY <1>3 DEF MnemonicKinds
  <2>3. AccountOf(s) = MnemonicAccount([lo |-> s.lo, hi |-> s.hi], s.wc, s.pp)
    BY <1>3, <2>2 DEF AccountOf
  <2>4. QED BY <1>1, <1>2, <1>3, <2>1, <2>2, <2>3, AccountTypes
<1>4. CASE s.wc = 2
  BY <1>1, <1>2, <1>4, AccountTypes, XAccountAssumption DEF AccountOf, MnemonicKinds
<1>5. CASE s.wc = 1
  BY <1>1, <1>2, <1>5, AccountTypes DEF AccountOf, MnemonicKinds
<1>6. CASE s.wc = 0
  BY <1>1, <1>2, <1>6, AccountTypes DEF AccountOf, MnemonicKinds
<1>7. QED BY <1>1, <1>3, <1>4, <1>5, <1>6 DEF Kinds, MnemonicKinds

(* What derivation leaves behind is well formed. *)
LEMMA DerivationTypes ==
  ASSUME NEW d, DerivedOK(d), NEW a \in Accounts
  PROVE  /\ DerivedOK([d EXCEPT !.cached = FALSE]) /\ DerivedOK([d EXCEPT !.cached = TRUE])
         /\ DerivedOK([d EXCEPT !.acct = a])
         /\ DerivedOK(CachesFrom(d, a))
         /\ DerivedOK(BanksCleared(d))
<1> USE DEF DerivedOK, Fronts, Derived
<1>1. DerivedOK([d EXCEPT !.cached = FALSE]) /\ DerivedOK([d EXCEPT !.cached = TRUE])
  OBVIOUS
<1>2. DerivedOK([d EXCEPT !.acct = a])
  OBVIOUS
<1>3. DerivedOK(CachesFrom(d, a))
  BY DEF CachesFrom
<1>4. DerivedOK(BanksCleared(d))
  <2>0. <<>> \in Seq(Accounts)
    OBVIOUS
  <2>1. BanksCleared(d) \in Derived
    BY <2>0, AccountTypes DEF BanksCleared
  <2>2. BanksCleared(d).rxBank = <<>> /\ BanksCleared(d).chgBank = <<>>
    BY DEF BanksCleared
  <2>3. Fronts(BanksCleared(d))
    BY <2>2
  <2>4. QED BY <2>1, <2>3
<1>5. QED BY <1>1, <1>2, <1>3, <1>4

LEMMA NothingDerivedOK == DerivedOK(NothingDerived)
  BY AccountTypes DEF DerivedOK, Fronts, Derived, NothingDerived

LEMMA PrimedType ==
  ASSUME NEW d, DerivedOK(d), NEW a \in Accounts
  PROVE  DerivedOK(Primed(d, a))
<1>1. DerivedOK([d EXCEPT !.acct = NoAcct])
  BY DerivationTypes, AccountTypes
<1>2. DerivedOK(BanksCleared([d EXCEPT !.acct = NoAcct]))
  BY <1>1, DerivationTypes
<1>3. DerivedOK([BanksCleared([d EXCEPT !.acct = NoAcct]) EXCEPT !.acct = a])
  BY <1>2, DerivationTypes
<1>4. DerivedOK(CachesFrom([BanksCleared([d EXCEPT !.acct = NoAcct]) EXCEPT !.acct = a], a))
  BY <1>3, DerivationTypes
<1>5. QED BY <1>2, <1>4 DEF Primed

LEMMA RawCacheType ==
  ASSUME NEW d, DerivedOK(d), NEW k \in Bodies
  PROVE  DerivedOK([d EXCEPT !.rx0 = RawAccount(k), !.cached = TRUE])
  BY AccountTypes DEF DerivedOK, Fronts, Derived

LEMMA FilledCachesType ==
  ASSUME NEW d, DerivedOK(d), NEW w \in Arrays, NEW wc \in Kinds, NEW s \in SlotRecords
  PROVE  DerivedOK(FilledCaches(d, w, wc, s))
<1> DEFINE a == MnemonicAccount(w, wc, s.pp)
<1>0. s.pp \in Passphrases /\ s.lo \in Bodies /\ d.acct \in Accounts
  BY DEF SlotRecords, DerivedOK, Derived
<1>1. a \in Accounts
  BY <1>0, AccountTypes
<1>2. DerivedOK(CachesFrom([d EXCEPT !.acct = a], a))
  <2> HIDE DEF a
  <2>1. DerivedOK([d EXCEPT !.acct = a])
    BY <1>1, DerivationTypes
  <2>2. QED BY <1>1, <2>1, DerivationTypes
<1>3. DerivedOK(CachesFrom(d, d.acct))
  BY <1>0, DerivationTypes
<1>4. DerivedOK([d EXCEPT !.rx0 = RawAccount(s.lo), !.cached = TRUE])
  BY <1>0, RawCacheType
<1>5. FilledCaches(d, w, wc, s) \in {CachesFrom([d EXCEPT !.acct = a], a),
        CachesFrom(d, d.acct), [d EXCEPT !.rx0 = RawAccount(s.lo), !.cached = TRUE], d}
  BY DEF FilledCaches, MnemonicKinds
<1>6. QED BY <1>2, <1>3, <1>4, <1>5

LEMMA EnsuredType ==
  ASSUME NEW d, DerivedOK(d), SessionAccount \in Accounts
  PROVE  DerivedOK(EnsuredAccount(d))
  BY DerivationTypes DEF EnsuredAccount

-----------------------------------------------------------------------------
(* The slot table. *)

(* What a slot holds apart from its fingerprint. *)
SameWallet(s, t) == s.wc = t.wc /\ s.lo = t.lo /\ s.hi = t.hi /\ s.pp = t.pp

(* Refreshing a fingerprint changes the wallet of no slot. *)
LEMMA RefreshedKeeps ==
  ASSUME NEW sl, \A i \in Slots : SlotOK(sl[i]), sl \in [Slots -> SlotRecords],
         NEW n, NEW wc, NEW a \in Accounts
  PROVE  /\ Refreshed(sl, n, wc, a) \in [Slots -> SlotRecords]
         /\ \A i \in Slots : /\ SlotOK(Refreshed(sl, n, wc, a)[i])
                             /\ SameWallet(Refreshed(sl, n, wc, a)[i], sl[i])
<1>1. CASE Refreshed(sl, n, wc, a) = sl
  BY <1>1 DEF SameWallet
<1>2. CASE n \in Slots /\ Refreshed(sl, n, wc, a) = [sl EXCEPT ![n].fp = a]
  <2> DEFINE s == [sl[n] EXCEPT !.fp = a]
  <2>1. sl[n] \in SlotRecords /\ SlotOK(sl[n])
    BY <1>2
  <2>2. s \in SlotRecords /\ SameWallet(s, sl[n]) /\ SlotOK(s)
    BY <2>1 DEF SlotRecords, SameWallet, SlotOK
  <2>3. \A i \in Slots : Refreshed(sl, n, wc, a)[i] = IF i = n THEN s ELSE sl[i]
    BY <1>2
  <2>4. Refreshed(sl, n, wc, a) = [i \in Slots |-> IF i = n THEN s ELSE sl[i]]
    BY <1>2
  <2> HIDE DEF s
  <2>5. QED BY <2>2, <2>3, <2>4 DEF SameWallet
<1>3. QED BY <1>1, <1>2 DEF Refreshed

LEMMA SameWalletAccount ==
  ASSUME NEW s, NEW t, SameWallet(s, t)
  PROVE  AccountOf(s) = AccountOf(t)
  BY DEF SameWallet, AccountOf

(* A store ends in a slot that already held the content, in a free slot,   *)
(* or nowhere.                                                             *)
LEMMA PlaceIn ==
  ASSUME NEW same, same \subseteq Slots
  PROVE  \/ Place(same) = NoSlot
         \/ Place(same) \in same
         \/ Place(same) \in Slots /\ slots[Place(same)].wc = 0
<1>0. Slots \subseteq Nat
  BY SlotsAssumption DEF Slots
<1>1. CASE same # {}
  <2>1. Lowest(same) \in same
    BY <1>0, <1>1, LowestIn
  <2>2. QED BY <1>1, <2>1 DEF Place
<1>2. CASE same = {} /\ Filled(slots) # Slots
  <2>1. Slots \ Filled(slots) # {} /\ Slots \ Filled(slots) \subseteq Nat
    BY <1>0, <1>2 DEF Filled
  <2>2. Lowest(Slots \ Filled(slots)) \in Slots \ Filled(slots)
    BY <2>1, LowestIn
  <2>3. QED BY <1>2, <2>2 DEF Place, Filled
<1>3. CASE same = {} /\ Filled(slots) = Slots
  BY <1>3 DEF Place
<1>4. QED BY <1>1, <1>2, <1>3

LEMMA NoSlotNotIn == NoSlot \notin Slots
  BY SlotsAssumption DEF Slots, NoSlot

(* Storing s at a place changes that place only, and only when it is free. *)
LEMMA WithSlotKeeps ==
  ASSUME IInv, NEW n \in Slots, NEW s, SlotOK(s), s.wc # 0
  PROVE  /\ WithSlot(n, s) \in [Slots -> SlotRecords]
         /\ \A i \in Slots : SlotOK(WithSlot(n, s)[i])
         /\ \A i \in Slots \ {n} : WithSlot(n, s)[i] = slots[i]
         /\ WithSlot(n, s)[n] = IF slots[n].wc = 0 THEN s ELSE slots[n]
         /\ WithSlot(n, s)[n].wc # 0
<1>1. slots \in [Slots -> SlotRecords] /\ \A i \in Slots : SlotOK(slots[i])
  BY DEF IInv, TypeOK
<1>2. s \in SlotRecords
  BY DEF SlotOK
<1>3. QED BY <1>1, <1>2 DEF WithSlot

-----------------------------------------------------------------------------
(* The invariant is kept: by steps that leave the slots alone, by steps    *)
(* that end with a wallet selected, and by the wipe.                       *)

LEMMA DrvOK == ASSUME IInv PROVE DerivedOK(drv)
  BY DEF IInv, TypeOK, DerivedOK

LEMMA Kept ==
  ASSUME IInv, UNCHANGED <<active, seedLoaded>>,
         slots' \in [Slots -> SlotRecords],
         \A i \in Slots : SlotOK(slots'[i]) /\ (slots'[i].wc = 0 <=> slots[i].wc = 0),
         words' \in Arrays, wordCount' \in Kinds, view' \in Views, screen' \in Screens,
         DerivedOK(drv'), seedLoaded \/ drv' = drv,
         screen' = "PassphraseEntry" => wordCount' \in MnemonicKinds
  PROVE  IInv'
<1>1. TypeOK'
  BY DEF IInv, TypeOK, DerivedOK
<1>2. SelectedSlotUsable'
  BY DEF IInv, SelectedSlotUsable
<1>3. NoWalletNothingDerived'
  BY DEF IInv, NoWalletNothingDerived, Filled
<1>4. QED BY <1>1, <1>2, <1>3 DEF IInv, DerivedOK

LEMMA KeptSlots ==
  ASSUME IInv, UNCHANGED <<slots, active, seedLoaded>>,
         words' \in Arrays, wordCount' \in Kinds, view' \in Views, screen' \in Screens,
         DerivedOK(drv'), seedLoaded \/ drv' = drv,
         screen' = "PassphraseEntry" => wordCount' \in MnemonicKinds
  PROVE  IInv'
<1>1. slots \in [Slots -> SlotRecords] /\ \A i \in Slots : SlotOK(slots[i])
  BY DEF IInv, TypeOK
<1>2. QED BY <1>1, Kept

LEMMA Loaded ==
  ASSUME slots' \in [Slots -> SlotRecords], \A i \in Slots : SlotOK(slots'[i]),
         active' \in Slots, slots'[active'].wc # 0, seedLoaded' = TRUE,
         words' \in Arrays, wordCount' \in Kinds, view' \in Views,
         screen' \in Screens \ {"PassphraseEntry"}, DerivedOK(drv')
  PROVE  IInv'
<1>1. TypeOK'
  BY DEF TypeOK, DerivedOK
<1>2. SelectedSlotUsable'
  BY DEF SelectedSlotUsable
<1>3. NoWalletNothingDerived'
  BY DEF NoWalletNothingDerived
<1>4. QED BY <1>1, <1>2, <1>3 DEF IInv, DerivedOK

LEMMA EmptySlotOK == EmptySlot \in SlotRecords /\ SlotOK(EmptySlot)
  BY SeedsAssumption, AccountTypes
  DEF EmptySlot, SlotRecords, SlotOK, Kinds, MnemonicKinds, Bodies

LEMMA EntryTypes ==
  /\ ZeroWords \in Arrays
  /\ \A h \in Twelve : TwelveWords(h) \in Arrays
  /\ \A v \in Views : /\ [v EXCEPT !.index = 0, !.rxIdx = NoIndex] \in Views
                      /\ [v EXCEPT !.index = 0, !.rxIdx = NoIndex, !.rxKey = NoAcct] \in Views
                      /\ [v EXCEPT !.change = FALSE] \in Views
                      /\ [v EXCEPT !.change = ~v.change, !.index = 0] \in Views
<1>1. ZeroWords \in Arrays /\ \A h \in Twelve : TwelveWords(h) \in Arrays
  BY SeedsAssumption DEF ZeroWords, TwelveWords, Arrays
<1>2. 0 \in Indices
  BY SizesAssumption DEF Indices, NoIndex
<1>3. QED BY <1>1, <1>2, AccountTypes DEF Views

LEMMA Starts == Init => IInv
<1> SUFFICES ASSUME Init PROVE IInv
  OBVIOUS
<1>1. slots \in [Slots -> SlotRecords] /\ \A i \in Slots : SlotOK(slots[i])
  BY EmptySlotOK DEF Init
<1>2. FreshView \in Views
  BY SizesAssumption, AccountTypes DEF FreshView, Views, Indices, NoIndex
<1>3. TypeOK
  BY <1>1, <1>2, EntryTypes, NothingDerivedOK DEF Init, TypeOK, DerivedOK, Kinds, Screens
<1>4. Filled(slots) = {}
  BY DEF Init, Filled, EmptySlot
<1>5. SelectedSlotUsable
  BY NoSlotNotIn DEF Init, SelectedSlotUsable
<1>6. NoWalletNothingDerived
  BY <1>4 DEF Init, NoWalletNothingDerived
<1>7. QED BY <1>1, <1>3, <1>5, <1>6, NothingDerivedOK DEF IInv, DerivedOK, Init

-----------------------------------------------------------------------------
(* Steps that leave the slots alone. *)

LEMMA EntrySteps ==
  ASSUME IInv,
         \/ \E wc \in MnemonicKinds : StartImport(wc) \/ StartTouch(wc)
         \/ TypeWords \/ FinishImport \/ LeaveImport \/ Generate \/ TouchDone
         \/ PassphraseBack \/ HomeFromEntry
  PROVE  IInv'
<1> USE DEF Screens, EntryScreens, ImportScreens, Kinds, MnemonicKinds
<1>0. words \in Arrays /\ wordCount \in Kinds /\ view \in Views /\ screen \in Screens /\ DerivedOK(drv)
  BY DrvOK DEF IInv, TypeOK
<1>1. ASSUME NEW wc \in MnemonicKinds, StartImport(wc) PROVE IInv'
  <2>1. screen' \in Screens \ {"PassphraseEntry"}
    BY <1>1 DEF StartImport
  <2>2. QED BY <1>0, <1>1, <2>1, KeptSlots DEF StartImport
<1>2. ASSUME NEW wc \in MnemonicKinds, StartTouch(wc) PROVE IInv'
  BY <1>0, <1>2, KeptSlots DEF StartTouch
<1>3. CASE TypeWords
  <2>1. words' \in Arrays
    BY <1>0, <1>3, SeedsAssumption DEF TypeWords, Arrays
  <2>2. QED BY <1>0, <1>3, <2>1, KeptSlots DEF TypeWords
<1>4. CASE FinishImport
  <2>1. words' \in Arrays /\ wordCount' \in MnemonicKinds
    BY <1>0, <1>4, SeedsAssumption DEF FinishImport, Arrays
  <2>2. QED BY <1>0, <1>4, <2>1, KeptSlots DEF FinishImport
<1>5. CASE LeaveImport
  BY <1>0, <1>5, KeptSlots DEF LeaveImport
<1>6. CASE Generate
  <2>1. words' \in Arrays /\ wordCount' \in MnemonicKinds
    BY <1>6, EntryTypes, SeedsAssumption DEF Generate
  <2>2. QED BY <1>0, <1>6, <2>1, KeptSlots DEF Generate
<1>7. CASE TouchDone
  <2>1. words' \in Arrays /\ wordCount' \in MnemonicKinds
    BY <1>7, EntryTypes, SeedsAssumption DEF TouchDone
  <2>2. QED BY <1>0, <1>7, <2>1, KeptSlots DEF TouchDone
<1>8. CASE PassphraseBack
  BY <1>0, <1>8, EntryTypes, KeptSlots DEF PassphraseBack
<1>9. CASE HomeFromEntry
  BY <1>0, <1>9, KeptSlots DEF HomeFromEntry
<1>10. QED BY <1>1, <1>2, <1>3, <1>4, <1>5, <1>6, <1>7, <1>8, <1>9

LEMMA ViewSteps ==
  ASSUME IInv,
         \/ ToggleChain
         \/ \E i \in Indices : ViewIndex(i)
         \/ \E home \in BOOLEAN : LeaveAddress(home)
  PROVE  IInv'
<1> USE DEF Screens
<1>0. words \in Arrays /\ wordCount \in Kinds /\ view \in Views /\ DerivedOK(drv)
  BY DrvOK DEF IInv, TypeOK
<1>1. CASE ToggleChain
  BY <1>0, <1>1, EntryTypes, KeptSlots DEF ToggleChain
<1>2. ASSUME NEW i \in Indices, ViewIndex(i) PROVE IInv'
  <2>1. drv.acct \in Accounts
    BY <1>0 DEF DerivedOK, Derived
  <2>2. view' \in Views
    BY <1>0, <1>2, <2>1 DEF ViewIndex, Views
  <2>3. QED BY <1>0, <1>2, <2>2, KeptSlots DEF ViewIndex
<1>3. ASSUME NEW home \in BOOLEAN, LeaveAddress(home) PROVE IInv'
  <2>1. view' \in Views
    BY <1>0, <1>3, EntryTypes DEF LeaveAddress
  <2>2. QED BY <1>0, <1>3, <2>1, KeptSlots DEF LeaveAddress
<1>4. QED BY <1>1, <1>2, <1>3

(* The selected slot, or the empty one. *)
LEMMA SelectedOK ==
  ASSUME IInv
  PROVE  /\ SlotOK(Selected) /\ Selected \in SlotRecords
         /\ seedLoaded => Selected.wc # 0
         /\ SessionAccount \in Accounts
<1>1. SlotOK(Selected) /\ Selected \in SlotRecords
  BY EmptySlotOK DEF IInv, TypeOK, Selected
<1>2. seedLoaded => Selected.wc # 0
  BY DEF IInv, SelectedSlotUsable, Selected
<1>3. Selected.pp \in Passphrases
  BY <1>1 DEF SlotRecords
<1>4. SessionAccount \in Accounts
  BY <1>3, AccountTypes DEF SessionAccount, IInv, TypeOK
<1>5. QED BY <1>1, <1>2, <1>4

LEMMA OpenAddressStep == ASSUME IInv, OpenAddress PROVE IInv'
<1> DEFINE a == MnemonicAccount(words, IF wordCount = 12 THEN 12 ELSE 24, Selected.pp)
<1>0. /\ words \in Arrays /\ wordCount \in Kinds /\ view \in Views /\ DerivedOK(drv)
      /\ Selected.pp \in Passphrases /\ Selected.lo \in Bodies /\ drv.acct \in Accounts
  BY DrvOK, SelectedOK DEF IInv, TypeOK, SlotRecords, Derived
<1>1. a \in Accounts
  BY <1>0, AccountTypes DEF Kinds, MnemonicKinds
<1>2. DerivedOK(CachesFrom([drv EXCEPT !.acct = a], a)) /\ DerivedOK(CachesFrom(drv, drv.acct))
  <2> HIDE DEF a
  <2>1. DerivedOK([drv EXCEPT !.acct = a])
    BY <1>0, <1>1, DerivationTypes
  <2>2. QED BY <1>0, <1>1, <2>1, DerivationTypes
<1>3. DerivedOK([drv EXCEPT !.rx0 = RawAccount(Selected.lo), !.cached = TRUE])
      /\ DerivedOK([drv EXCEPT !.cached = TRUE])
  BY <1>0, RawCacheType, DerivationTypes, AccountTypes
<1>4. drv' \in {drv, CachesFrom([drv EXCEPT !.acct = a], a), CachesFrom(drv, drv.acct),
                [drv EXCEPT !.rx0 = RawAccount(Selected.lo), !.cached = TRUE],
                [drv EXCEPT !.cached = TRUE]}
  BY DEF OpenAddress
<1>5. DerivedOK(drv')
  BY <1>0, <1>2, <1>3, <1>4
<1>6. QED BY <1>0, <1>5, KeptSlots DEF OpenAddress, Screens

-----------------------------------------------------------------------------
(* Steps that extend the banks. *)

LEMMA BanksType ==
  ASSUME NEW d, DerivedOK(d)
  PROVE  /\ d.rxBank \in Seq(Accounts) /\ d.chgBank \in Seq(Accounts)
         /\ Len(d.rxBank) \in Nat /\ Len(d.chgBank) \in Nat
         /\ d.acct \in Accounts /\ d.chain \in Accounts
  BY LenProperties DEF DerivedOK, Derived

LEMMA PumpStep == ASSUME IInv, PumpExt PROVE IInv'
<1> DEFINE rx == Len(drv.rxBank)
           chg == Len(drv.chgBank)
           chain == ChainFor(drv)
<1>0. /\ words \in Arrays /\ wordCount \in Kinds /\ view \in Views /\ screen \in Screens
      /\ DerivedOK(drv) /\ drv \in Derived /\ Fronts(drv) /\ SessionAccount \in Accounts
  BY DrvOK, SelectedOK DEF IInv, TypeOK
<1>1. /\ drv.rxBank \in Seq(Accounts) /\ drv.chgBank \in Seq(Accounts)
      /\ rx \in Nat /\ chg \in Nat /\ chain \in Accounts /\ Depth \in Nat
  BY <1>0, BanksType, SizesAssumption DEF ChainFor
<1>2. drv.acct # NoAcct => seedLoaded
  BY DEF IInv, NoWalletNothingDerived, NothingDerived
<1>3. CASE drv.acct = NoAcct /\ seedLoaded /\ drv' = EnsuredAccount(drv)
  <2>1. DerivedOK(drv')
    BY <1>0, <1>3, EnsuredType
  <2>2. QED BY <1>0, <1>3, <2>1, KeptSlots DEF PumpExt
<1>4. CASE /\ drv.acct # NoAcct /\ rx <= chg /\ rx < Depth
           /\ drv' = [drv EXCEPT !.chain = chain, !.rxBank = Append(@, chain)]
  <2>1. /\ Append(drv.rxBank, chain) \in Seq(Accounts)
        /\ Len(Append(drv.rxBank, chain)) = rx + 1
    BY <1>1
  <2> HIDE DEF chain
  <2>2. drv' \in Derived /\ drv'.rxBank = Append(drv.rxBank, chain) /\ drv'.chgBank = drv.chgBank
    BY <1>0, <1>1, <1>4, <2>1 DEF Derived
  <2>3. Fronts(drv')
    BY <1>0, <1>1, <1>4, <2>1, <2>2 DEF Fronts
  <2>4. QED BY <1>0, <1>2, <1>4, <2>2, <2>3, KeptSlots DEF PumpExt, DerivedOK
<1>5. CASE /\ drv.acct # NoAcct /\ ~(rx <= chg /\ rx < Depth) /\ chg < Depth
           /\ drv' = [drv EXCEPT !.chain = chain, !.chgBank = Append(@, chain)]
  <2>1. /\ Append(drv.chgBank, chain) \in Seq(Accounts)
        /\ Len(Append(drv.chgBank, chain)) = chg + 1
    BY <1>1
  <2> HIDE DEF chain
  <2>2. drv' \in Derived /\ drv'.chgBank = Append(drv.chgBank, chain) /\ drv'.rxBank = drv.rxBank
    BY <1>0, <1>1, <1>5, <2>1 DEF Derived
  <2>3. Fronts(drv')
    BY <1>0, <1>1, <1>5, <2>1, <2>2 DEF Fronts
  <2>4. QED BY <1>0, <1>2, <1>5, <2>2, <2>3, KeptSlots DEF PumpExt, DerivedOK
<1>6. QED BY <1>3, <1>4, <1>5 DEF PumpExt

LEMMA ExtendedType ==
  ASSUME NEW b \in Seq(Accounts), NEW n \in Nat, NEW a \in Accounts
  PROVE  Extended(b, n, a) \in Seq(Accounts) /\ Len(Extended(b, n, a)) = n
<1>1. Extended(b, n, a) \in [1 .. n -> Accounts]
  BY LenProperties DEF Extended
<1>2. Extended(b, n, a) \in Seq(Accounts)
  BY <1>1, SeqDef
<1>3. DOMAIN Extended(b, n, a) = 1 .. n /\ DOMAIN Extended(b, n, a) = 1 .. Len(Extended(b, n, a))
  BY <1>1, <1>2, LenProperties
<1>4. Len(Extended(b, n, a)) \in Nat
  BY <1>2, LenProperties
<1>5. QED BY <1>2, <1>3, <1>4

(* Wherever a scan stops the fronts are together again. *)
LEMMA ScanType ==
  ASSUME NEW d, DerivedOK(d), NEW st \in ScanStops(Len(d.rxBank), Len(d.chgBank))
  PROVE  DerivedOK([d EXCEPT !.rxBank = Extended(@, st[1], d.acct),
                             !.chgBank = Extended(@, st[2], d.acct)])
<1> DEFINE rx == Len(d.rxBank)
           chg == Len(d.chgBank)
           e == [d EXCEPT !.rxBank = Extended(@, st[1], d.acct),
                          !.chgBank = Extended(@, st[2], d.acct)]
<1>0. /\ d \in Derived /\ Fronts(d) /\ rx \in Nat /\ chg \in Nat /\ Depth \in Nat
      /\ d.rxBank \in Seq(Accounts) /\ d.chgBank \in Seq(Accounts) /\ d.acct \in Accounts
  BY BanksType, SizesAssumption DEF DerivedOK
<1>1. /\ st[1] \in rx .. Depth /\ st[2] \in chg .. Depth
      /\ st[1] > rx => st[1] <= st[2] + 1 \/ st[2] = Depth
      /\ st[2] > chg => st[2] <= st[1] \/ st[1] = Depth
  BY DEF ScanStops
<1>2. st[1] \in Nat /\ st[2] \in Nat
  BY <1>0, <1>1
<1>3. chg \in {rx, rx - 1}
  BY <1>0 DEF Fronts
<1>4. st[2] \in {st[1], st[1] - 1}
  BY <1>0, <1>1, <1>2, <1>3
<1>5. /\ Extended(d.rxBank, st[1], d.acct) \in Seq(Accounts)
      /\ Extended(d.chgBank, st[2], d.acct) \in Seq(Accounts)
      /\ Len(Extended(d.rxBank, st[1], d.acct)) = st[1]
      /\ Len(Extended(d.chgBank, st[2], d.acct)) = st[2]
  BY <1>0, <1>2, ExtendedType
<1>6. e \in Derived
  BY <1>0, <1>5 DEF Derived
<1>7. e.rxBank = Extended(d.rxBank, st[1], d.acct) /\ e.chgBank = Extended(d.chgBank, st[2], d.acct)
  BY <1>0 DEF Derived
<1>8. Fronts(e)
  BY <1>4, <1>5, <1>7 DEF Fronts
<1>9. QED BY <1>6, <1>8 DEF DerivedOK

LEMMA SignStep == ASSUME IInv, SignP2pk PROVE IInv'
<1> DEFINE d == IF drv.cached THEN drv ELSE FilledCaches(drv, words, wordCount, Selected)
           k == IF wordCount = 2 THEN d ELSE EnsuredAccount(d)
<1>0. /\ words \in Arrays /\ wordCount \in Kinds /\ view \in Views /\ screen \in Screens
      /\ DerivedOK(drv) /\ SessionAccount \in Accounts /\ Selected \in SlotRecords
      /\ slots \in [Slots -> SlotRecords] /\ \A i \in Slots : SlotOK(slots[i])
  BY DrvOK, SelectedOK DEF IInv, TypeOK
<1>1. DerivedOK(d)
  BY <1>0, FilledCachesType
<1>2. DerivedOK(k)
  <2> HIDE DEF d
  <2> QED BY <1>0, <1>1, EnsuredType
<1>3. d.acct \in Accounts
  <2> HIDE DEF d
  <2> QED BY <1>1 DEF DerivedOK, Derived
<1>4. DerivedOK(drv')
  <2> HIDE DEF d
  <2>1. \/ drv' \in {d, k}
        \/ \E st \in ScanStops(Len(k.rxBank), Len(k.chgBank)) :
             drv' = [k EXCEPT !.rxBank = Extended(@, st[1], k.acct),
                              !.chgBank = Extended(@, st[2], k.acct)]
    BY DEF SignP2pk, d
  <2> HIDE DEF k
  <2>2. QED BY <1>1, <1>2, <2>1, ScanType
<1>5. /\ slots' \in [Slots -> SlotRecords]
      /\ \A i \in Slots : SlotOK(slots'[i]) /\ (slots'[i].wc = 0 <=> slots[i].wc = 0)
  <2>1. slots' \in {slots, Refreshed(slots, active, wordCount, d.acct)}
    BY DEF SignP2pk
  <2> HIDE DEF d
  <2>2. QED BY <1>0, <1>3, <2>1, RefreshedKeeps DEF SameWallet
<1>6. QED BY <1>0, <1>4, <1>5, Kept DEF SignP2pk

-----------------------------------------------------------------------------
(* Steps that load, choose or delete a wallet. *)

LEMMA PlaceFull ==
  ASSUME NEW same, same \subseteq Slots, Place(same) = NoSlot
  PROVE  same = {} /\ Filled(slots) = Slots
<1>0. Slots \subseteq Nat
  BY SlotsAssumption DEF Slots
<1>1. CASE same # {}
  <2>1. Lowest(same) \in Slots
    BY <1>0, <1>1, LowestIn
  <2>2. QED BY <1>1, <2>1, NoSlotNotIn DEF Place
<1>2. CASE same = {} /\ Filled(slots) # Slots
  <2>1. Slots \ Filled(slots) # {} /\ Slots \ Filled(slots) \subseteq Nat
    BY <1>0, <1>2 DEF Filled
  <2>2. Lowest(Slots \ Filled(slots)) \in Slots
    BY <2>1, LowestIn
  <2>3. QED BY <1>2, <2>2, NoSlotNotIn DEF Place
<1>3. QED BY <1>1, <1>2

(* What a store leaves: the wallet of s in the place, the rest unchanged.  *)
LEMMA Stored ==
  ASSUME IInv, NEW same, same \subseteq Slots, NEW s, SlotOK(s), s.wc # 0,
         Place(same) # NoSlot,
         \A i \in same : slots[i].wc # 0
  PROVE  LET n == Place(same) IN
         /\ n \in Slots
         /\ WithSlot(n, s) \in [Slots -> SlotRecords]
         /\ \A i \in Slots : SlotOK(WithSlot(n, s)[i])
         /\ \A i \in Slots \ {n} : WithSlot(n, s)[i] = slots[i]
         /\ WithSlot(n, s)[n].wc # 0
         /\ \/ slots[n].wc = 0 /\ WithSlot(n, s)[n] = s
            \/ slots[n].wc # 0 /\ WithSlot(n, s) = slots
<1> DEFINE n == Place(same)
<1>1. n \in Slots
  BY PlaceIn
<1>2. slots[n].wc # 0 => WithSlot(n, s) = slots
  BY DEF WithSlot
<1> HIDE DEF n
<1>3. /\ WithSlot(n, s) \in [Slots -> SlotRecords]
      /\ \A i \in Slots : SlotOK(WithSlot(n, s)[i])
      /\ \A i \in Slots \ {n} : WithSlot(n, s)[i] = slots[i]
      /\ WithSlot(n, s)[n] = IF slots[n].wc = 0 THEN s ELSE slots[n]
      /\ WithSlot(n, s)[n].wc # 0
  BY <1>1, WithSlotKeeps
<1>4. QED BY <1>1, <1>2, <1>3 DEF n

LEMMA LoadMnemonicStep ==
  ASSUME IInv, NEW w \in Arrays, NEW wc \in MnemonicKinds, NEW pp \in Passphrases,
         LoadMnemonic(w, wc, pp),
         words' \in Arrays, wordCount' \in Kinds, screen' \in Screens \ {"PassphraseEntry"}
  PROVE  IInv'
<1> DEFINE same == Matching(w, wc, pp)
           n == Place(same)
           a == MnemonicAccount(w, wc, pp)
           s == [wc |-> wc, lo |-> w.lo, hi |-> w.hi, pp |-> pp, fp |-> NoAcct]
<1>1. a \in Accounts /\ NoAcct \in Accounts
  BY AccountTypes DEF Kinds
<1>2. SlotOK(s) /\ s.wc # 0
  BY <1>1 DEF SlotOK, SlotRecords, MnemonicKinds, Kinds, Arrays, Bodies
<1>3. same \subseteq Slots /\ \A i \in same : slots[i].wc # 0
  BY DEF Matching, MnemonicKinds
<1>4. n # NoSlot
  BY DEF LoadMnemonic
<1>5. /\ slots' = Refreshed(WithSlot(n, s), n, wc, a) /\ active' = n /\ seedLoaded' = TRUE
      /\ drv' = Primed([drv EXCEPT !.cached = FALSE], a)
      /\ view' = [view EXCEPT !.index = 0, !.rxIdx = NoIndex]
  BY DEF LoadMnemonic
<1> HIDE DEF same, a, s
<1>6. /\ n \in Slots /\ WithSlot(n, s) \in [Slots -> SlotRecords]
      /\ \A i \in Slots : SlotOK(WithSlot(n, s)[i])
      /\ WithSlot(n, s)[n].wc # 0
  BY <1>2, <1>3, <1>4, Stored
<1> HIDE DEF n
<1>7. /\ slots' \in [Slots -> SlotRecords]
      /\ \A i \in Slots : SlotOK(slots'[i])
      /\ slots'[n].wc # 0
  BY <1>1, <1>5, <1>6, RefreshedKeeps DEF SameWallet
<1>8. DerivedOK(drv')
  <2>1. DerivedOK([drv EXCEPT !.cached = FALSE])
    BY DrvOK, DerivationTypes, <1>1
  <2>2. QED BY <1>1, <1>5, <2>1, PrimedType
<1>9. view' \in Views
  BY <1>5, EntryTypes DEF IInv, TypeOK
<1>10. QED BY <1>5, <1>6, <1>7, <1>8, <1>9, Loaded

LEMMA PassphraseOkStep ==
  ASSUME IInv, NEW pp \in Passphrases, PassphraseOk(pp) PROVE IInv'
<1>0. /\ words \in Arrays /\ wordCount \in MnemonicKinds /\ wordCount \in Kinds
      /\ view \in Views /\ DerivedOK(drv)
      /\ UNCHANGED <<words, wordCount>> /\ screen' = "Menu"
  BY DrvOK DEF PassphraseOk, IInv, TypeOK
<1>1. CASE LoadMnemonic(words, wordCount, pp)
  BY <1>0, <1>1, LoadMnemonicStep DEF Screens
<1>2. CASE DeviceFull(words, wordCount, pp)
  BY <1>0, <1>2, KeptSlots DEF DeviceFull, Screens
<1>3. QED BY <1>1, <1>2 DEF PassphraseOk

LEMMA Bip85Step == ASSUME IInv, Bip85Child PROVE IInv'
<1>0. /\ words' \in Arrays /\ wordCount' \in MnemonicKinds /\ NoPass \in Passphrases
      /\ view \in Views /\ DerivedOK(drv) /\ screen' = "Menu"
  BY DrvOK, EntryTypes, SeedsAssumption DEF Bip85Child, IInv, TypeOK, MnemonicKinds
<1>1. wordCount' \in Kinds
  BY <1>0 DEF Kinds
<1>2. CASE LoadMnemonic(words', wordCount', NoPass)
  BY <1>0, <1>1, <1>2, LoadMnemonicStep DEF Screens
<1>3. CASE DeviceFull(words', wordCount', NoPass)
  BY <1>0, <1>1, <1>3, KeptSlots DEF DeviceFull, Screens
<1>4. QED BY <1>2, <1>3 DEF Bip85Child

LEMMA FingerprintMatches ==
  ASSUME NEW fp, NEW wc \in Kinds \ {0}
  PROVE  ByFingerprint(fp, wc) \subseteq Slots /\ \A i \in ByFingerprint(fp, wc) : slots[i].wc # 0
  BY DEF ByFingerprint

LEMMA KeySlotsOK ==
  /\ \A k \in RawKeys : SlotOK(RawSlot(k)) /\ RawSlot(k).wc # 0
  /\ \A x \in XKeys : SlotOK(XprvSlot(x)) /\ XprvSlot(x).wc # 0 /\ XAccount[x] \in Accounts
<1> USE DEF SlotOK, SlotRecords, Kinds, MnemonicKinds
<1>1. \A k \in RawKeys : RawAccount(k) \in Accounts
  BY AccountTypes DEF Bodies
<1>2. \A x \in XKeys : XAccount[x] \in Accounts
  BY XAccountAssumption
<1>3. \A k \in RawKeys : SlotOK(RawSlot(k)) /\ RawSlot(k).wc # 0
  BY <1>1, SeedsAssumption DEF RawSlot, Bodies
<1>4. \A x \in XKeys : SlotOK(XprvSlot(x)) /\ XprvSlot(x).wc # 0
  BY <1>2, SeedsAssumption DEF XprvSlot, Bodies
<1>5. QED BY <1>2, <1>3, <1>4

LEMMA StoreRawKeyStep ==
  ASSUME IInv, screen = "Menu", NEW k \in RawKeys, StoreRawKey(k), DerivedOK(drv')
  PROVE  IInv'
<1> DEFINE same == ByFingerprint(RawAccount(k), 1)
           n == Place(same)
<1>1. same \subseteq Slots /\ \A i \in same : slots[i].wc # 0
  BY FingerprintMatches DEF Kinds
<1>2. /\ n # NoSlot /\ slots' = WithSlot(n, RawSlot(k)) /\ active' = n /\ seedLoaded' = TRUE
      /\ wordCount' = 1 /\ view' = [view EXCEPT !.index = 0, !.rxIdx = NoIndex]
      /\ UNCHANGED <<words, screen>>
  BY DEF StoreRawKey
<1> HIDE DEF same
<1>3. /\ n \in Slots /\ WithSlot(n, RawSlot(k)) \in [Slots -> SlotRecords]
      /\ \A i \in Slots : SlotOK(WithSlot(n, RawSlot(k))[i])
      /\ WithSlot(n, RawSlot(k))[n].wc # 0
  BY <1>1, <1>2, KeySlotsOK, Stored
<1>4. words \in Arrays /\ view' \in Views /\ 1 \in Kinds
  BY <1>2, EntryTypes DEF IInv, TypeOK, Kinds
<1> HIDE DEF n
<1>5. QED BY <1>2, <1>3, <1>4, Loaded DEF Screens

LEMMA KeyImportSteps ==
  ASSUME IInv, NEW k \in RawKeys, ImportTypedKey(k) \/ ImportKeyFile(k) PROVE IInv'
<1>0. k \in Bodies /\ NoAcct \in Accounts /\ DerivedOK(drv)
  BY DrvOK, AccountTypes DEF Bodies
<1>1. CASE ImportTypedKey(k)
  <2>1. DerivedOK(Primed(drv, NoAcct))
    BY <1>0, PrimedType
  <2>2. DerivedOK([Primed(drv, NoAcct) EXCEPT !.rx0 = RawAccount(k), !.cached = TRUE])
    BY <1>0, <2>1, RawCacheType
  <2>3. QED BY <1>1, <2>2, StoreRawKeyStep DEF ImportTypedKey
<1>2. CASE ImportKeyFile(k)
  <2>1. DerivedOK([drv EXCEPT !.rx0 = RawAccount(k), !.cached = TRUE])
    BY <1>0, RawCacheType
  <2>2. QED BY <1>2, <2>1, StoreRawKeyStep DEF ImportKeyFile
<1>3. QED BY <1>1, <1>2

LEMMA ImportXprvStep == ASSUME IInv, NEW x \in XKeys, ImportXprvFile(x) PROVE IInv'
<1> DEFINE same == ByFingerprint(XAccount[x], 2)
           n == Place(same)
           keyed == [drv EXCEPT !.acct = XAccount[x], !.rx0 = XAccount[x],
                                !.rxRest = XAccount[x], !.chg = XAccount[x]]
<1>0. /\ words \in Arrays /\ wordCount \in Kinds /\ view \in Views /\ DerivedOK(drv)
      /\ XAccount[x] \in Accounts /\ 2 \in Kinds
  BY DrvOK, KeySlotsOK DEF IInv, TypeOK, Kinds
<1>1. same \subseteq Slots /\ \A i \in same : slots[i].wc # 0
  BY FingerprintMatches DEF Kinds
<1>2. DerivedOK(keyed)
  BY <1>0 DEF DerivedOK, Fronts, Derived
<1>3. DerivedOK([keyed EXCEPT !.cached = TRUE])
  <2> HIDE DEF keyed
  <2> QED BY <1>0, <1>2, DerivationTypes
<1> HIDE DEF keyed
<1>4. CASE /\ n # NoSlot /\ slots' = WithSlot(n, XprvSlot(x)) /\ active' = n
           /\ seedLoaded' = TRUE /\ wordCount' = 2 /\ drv' = [keyed EXCEPT !.cached = TRUE]
           /\ view' = [view EXCEPT !.index = 0, !.rxIdx = NoIndex]
  <2> HIDE DEF same
  <2>1. /\ n \in Slots /\ WithSlot(n, XprvSlot(x)) \in [Slots -> SlotRecords]
        /\ \A i \in Slots : SlotOK(WithSlot(n, XprvSlot(x))[i])
        /\ WithSlot(n, XprvSlot(x))[n].wc # 0
    BY <1>1, <1>4, KeySlotsOK, Stored
  <2>2. view' \in Views
    BY <1>0, <1>4, EntryTypes
  <2>3. words' \in Arrays /\ screen' = "Menu"
    BY <1>0 DEF ImportXprvFile
  <2> HIDE DEF n
  <2>4. QED BY <1>0, <1>3, <1>4, <2>1, <2>2, <2>3, Loaded DEF Screens
<1>5. CASE n = NoSlot /\ drv' = keyed /\ UNCHANGED <<slots, active, seedLoaded, wordCount, view>>
  <2>1. Filled(slots) = Slots
    BY <1>1, <1>5, PlaceFull
  <2>2. 0 \in Slots
    BY SlotsAssumption DEF Slots
  <2>3. seedLoaded
    BY <2>1, <2>2 DEF IInv, TypeOK, NoWalletNothingDerived
  <2>4. words' \in Arrays /\ screen' = "Menu"
    BY <1>0 DEF ImportXprvFile
  <2>5. QED BY <1>0, <1>2, <1>5, <2>3, <2>4, KeptSlots DEF Screens
<1>6. QED BY <1>4, <1>5 DEF ImportXprvFile, keyed

LEMMA SlotFacts ==
  ASSUME IInv, NEW i \in Slots
  PROVE  /\ slots[i] \in SlotRecords /\ SlotOK(slots[i])
         /\ slots[i].wc \in Kinds /\ slots[i].lo \in Bodies /\ slots[i].pp \in Passphrases
         /\ WordsOf(slots[i]) \in Arrays
         /\ MnemonicAccount(WordsOf(slots[i]), slots[i].wc, slots[i].pp) \in Accounts
         /\ slots[i].wc = 2 => XAccount[slots[i].lo] \in Accounts
<1>1. slots[i] \in SlotRecords /\ SlotOK(slots[i])
  BY DEF IInv, TypeOK
<1>2. QED BY <1>1, AccountOfType, KeySlotsOK DEF SlotOK, SlotRecords

LEMMA SelectStep == ASSUME IInv, NEW i \in Slots, SelectSlot(i) PROVE IInv'
<1> DEFINE s == slots[i]
           a == MnemonicAccount(WordsOf(s), s.wc, s.pp)
           cold == [drv EXCEPT !.cached = FALSE]
<1>0. /\ s \in SlotRecords /\ SlotOK(s) /\ s.wc \in Kinds /\ WordsOf(s) \in Arrays
      /\ a \in Accounts /\ NoAcct \in Accounts
      /\ s.wc = 2 => XAccount[s.lo] \in Accounts
  BY SlotFacts, AccountTypes
<1>1. /\ screen = "Menu" /\ screen' = screen /\ s.wc # 0 /\ active' = i
      /\ wordCount' = s.wc /\ words' = WordsOf(s) /\ seedLoaded' = TRUE
      /\ view' = [view EXCEPT !.index = 0, !.rxIdx = NoIndex]
      /\ slots' \in {slots, Refreshed(slots, i, s.wc, a)}
      /\ \/ /\ s.wc = 2
            /\ drv' = FilledCaches(BanksCleared([cold EXCEPT !.acct = XAccount[s.lo]]),
                                   WordsOf(s), 2, s)
         \/ /\ s.wc = 1
            /\ drv' = FilledCaches(BanksCleared([cold EXCEPT !.acct = NoAcct]), WordsOf(s), 1, s)
         \/ drv' = [drv EXCEPT !.cached = TRUE]
         \/ drv' = Primed(cold, a)
  BY DEF SelectSlot, MnemonicKinds
<1> HIDE DEF a, s
<1>2. DerivedOK(drv) /\ DerivedOK(cold)
  BY DrvOK, DerivationTypes, <1>0
<1> HIDE DEF cold
<1>3. s.wc = 2 => DerivedOK(FilledCaches(BanksCleared([cold EXCEPT !.acct = XAccount[s.lo]]),
                                         WordsOf(s), 2, s))
  <2> SUFFICES ASSUME s.wc = 2
               PROVE  DerivedOK(FilledCaches(BanksCleared([cold EXCEPT !.acct = XAccount[s.lo]]),
                                             WordsOf(s), 2, s))
    OBVIOUS
  <2>1. DerivedOK([cold EXCEPT !.acct = XAccount[s.lo]])
    BY <1>0, <1>2, DerivationTypes
  <2>2. DerivedOK(BanksCleared([cold EXCEPT !.acct = XAccount[s.lo]]))
    BY <1>0, <2>1, DerivationTypes
  <2>3. QED BY <1>0, <2>2, FilledCachesType DEF Kinds
<1>4. DerivedOK(FilledCaches(BanksCleared([cold EXCEPT !.acct = NoAcct]), WordsOf(s), 1, s))
  <2>1. DerivedOK([cold EXCEPT !.acct = NoAcct])
    BY <1>0, <1>2, DerivationTypes
  <2>2. DerivedOK(BanksCleared([cold EXCEPT !.acct = NoAcct]))
    BY <1>0, <2>1, DerivationTypes
  <2>3. QED BY <1>0, <2>2, FilledCachesType DEF Kinds
<1>5. DerivedOK([drv EXCEPT !.cached = TRUE]) /\ DerivedOK(Primed(cold, a))
  BY <1>0, <1>2, DerivationTypes, PrimedType
<1>6. DerivedOK(drv')
  BY <1>1, <1>3, <1>4, <1>5
<1>7. slots \in [Slots -> SlotRecords] /\ \A j \in Slots : SlotOK(slots[j])
  BY DEF IInv, TypeOK
<1>8. /\ slots' \in [Slots -> SlotRecords] /\ \A j \in Slots : SlotOK(slots'[j])
      /\ slots'[i].wc # 0
  BY <1>0, <1>1, <1>7, RefreshedKeeps DEF SameWallet, s
<1>9. view' \in Views
  BY <1>1, EntryTypes DEF IInv, TypeOK
<1>10. QED BY <1>0, <1>1, <1>6, <1>8, <1>9, Loaded DEF Screens

LEMMA MultisigPickStep == ASSUME IInv, NEW i \in Slots, MultisigPickSeed(i) PROVE IInv'
<1> DEFINE s == slots[i]
           a == MnemonicAccount(WordsOf(s), s.wc, s.pp)
           keyed == IF s.wc = 2 THEN [drv EXCEPT !.acct = XAccount[s.lo]] ELSE drv
<1>0. /\ s \in SlotRecords /\ SlotOK(s) /\ s.wc \in Kinds /\ WordsOf(s) \in Arrays
      /\ a \in Accounts /\ view \in Views
      /\ s.wc = 2 => XAccount[s.lo] \in Accounts
  BY SlotFacts DEF IInv, TypeOK
<1>1. /\ screen = "Menu" /\ UNCHANGED <<view, screen>> /\ s.wc # 0 /\ active' = i
      /\ wordCount' = s.wc /\ words' = WordsOf(s) /\ seedLoaded' = TRUE
      /\ slots' = Refreshed(slots, i, s.wc, a)
      /\ drv' = FilledCaches(BanksCleared(keyed), WordsOf(s), s.wc, s)
  BY DEF MultisigPickSeed
<1> HIDE DEF a, s
<1>2. DerivedOK(keyed)
  BY <1>0, DrvOK, DerivationTypes
<1> HIDE DEF keyed
<1>3. DerivedOK(drv')
  <2>1. DerivedOK(BanksCleared(keyed))
    BY <1>0, <1>2, DerivationTypes
  <2>2. QED BY <1>0, <1>1, <2>1, FilledCachesType
<1>4. slots \in [Slots -> SlotRecords] /\ \A j \in Slots : SlotOK(slots[j])
  BY DEF IInv, TypeOK
<1>5. /\ slots' \in [Slots -> SlotRecords] /\ \A j \in Slots : SlotOK(slots'[j])
      /\ slots'[i].wc # 0
  BY <1>0, <1>1, <1>4, RefreshedKeeps DEF SameWallet, s
<1>6. QED BY <1>0, <1>1, <1>3, <1>5, Loaded DEF Screens

LEMMA DeleteStep == ASSUME IInv, NEW i \in Slots, DeleteSlot(i) PROVE IInv'
<1> DEFINE left == [slots EXCEPT ![i] = EmptySlot]
           j == Lowest(Filled(left))
           s == left[j]
           a == MnemonicAccount(WordsOf(s), s.wc, s.pp)
<1>0. /\ words \in Arrays /\ wordCount \in Kinds /\ view \in Views /\ screen = "Menu"
      /\ UNCHANGED screen /\ DerivedOK(drv) /\ slots[i].wc # 0
      /\ slots \in [Slots -> SlotRecords] /\ \A m \in Slots : SlotOK(slots[m])
  BY DrvOK DEF DeleteSlot, IInv, TypeOK
<1>1. /\ left \in [Slots -> SlotRecords] /\ \A m \in Slots : SlotOK(left[m])
      /\ \A m \in Slots : left[m] = IF m = i THEN EmptySlot ELSE slots[m]
  BY <1>0, EmptySlotOK
<1>2. EmptySlot.wc = 0
  BY DEF EmptySlot
<1>3. [view EXCEPT !.index = 0, !.rxIdx = NoIndex, !.rxKey = NoAcct] \in Views
  BY <1>0, EntryTypes
<1>4. CASE /\ active # i /\ slots' = left
           /\ UNCHANGED <<active, words, wordCount, seedLoaded, drv, view>>
  <2>1. seedLoaded
    BY <1>0 DEF IInv, NoWalletNothingDerived, Filled
  <2>2. active \in Slots /\ slots[active].wc # 0
    BY <2>1 DEF IInv, SelectedSlotUsable
  <2>3. slots'[active'].wc # 0
    BY <1>1, <1>4, <2>2
  <2> HIDE DEF left
  <2>4. seedLoaded' = TRUE
    BY <1>4, <2>1 DEF IInv, TypeOK
  <2>5. QED BY <1>0, <1>1, <1>4, <2>2, <2>3, <2>4, Loaded DEF Screens
<1>5. CASE /\ active = i /\ Filled(left) = {} /\ slots' = left /\ active' = NoSlot
           /\ seedLoaded' = FALSE /\ drv' = NothingDerived /\ UNCHANGED <<words, wordCount>>
           /\ view' = [view EXCEPT !.index = 0, !.rxIdx = NoIndex, !.rxKey = NoAcct]
  <2>1. SelectedSlotUsable'
    BY <1>5, NoSlotNotIn DEF SelectedSlotUsable
  <2>2. NoWalletNothingDerived'
    BY <1>5 DEF NoWalletNothingDerived, Filled
  <2>3. TypeOK'
    BY <1>0, <1>1, <1>3, <1>5, NothingDerivedOK DEF TypeOK, DerivedOK, Screens
  <2>4. Fronts(drv')
    BY <1>5, NothingDerivedOK DEF DerivedOK
  <2>5. \A m \in Slots : SlotOK(slots'[m])
    BY <1>1, <1>5
  <2>6. QED BY <1>0, <2>1, <2>2, <2>3, <2>4, <2>5 DEF IInv
<1>6. CASE /\ active = i /\ Filled(left) # {} /\ slots' = Refreshed(left, j, s.wc, a)
           /\ active' = j /\ seedLoaded' = TRUE /\ wordCount' = s.wc /\ words' = WordsOf(s)
           /\ drv' = IF s.wc = 2 THEN [NothingDerived EXCEPT !.acct = XAccount[s.lo]]
                     ELSE Primed(NothingDerived, a)
           /\ view' = [view EXCEPT !.index = 0, !.rxIdx = NoIndex, !.rxKey = NoAcct]
  <2>1. j \in Slots /\ s.wc # 0
    <3>1. Filled(left) \subseteq Nat
      BY SlotsAssumption DEF Filled, Slots
    <3>2. j \in Filled(left)
      BY <1>6, <3>1, LowestIn
    <3>3. QED BY <3>2 DEF Filled
  <2>2. SlotOK(s)
    BY <1>1, <2>1
  <2>3. /\ s \in SlotRecords /\ s.wc \in Kinds
        /\ s.wc = 2 => XAccount[s.lo] \in Accounts
        /\ WordsOf(s) \in Arrays /\ a \in Accounts
    <3> HIDE DEF s
    <3> QED BY <2>2, AccountOfType, KeySlotsOK DEF SlotOK, SlotRecords
  <2> HIDE DEF left
  <2>4. /\ slots' \in [Slots -> SlotRecords] /\ \A m \in Slots : SlotOK(slots'[m])
        /\ slots'[j].wc # 0
    <3> HIDE DEF j, a
    <3> QED BY <1>1, <1>6, <2>1, <2>3, RefreshedKeeps DEF SameWallet
  <2>5. DerivedOK(drv')
    <3> HIDE DEF s, a
    <3>1. s.wc = 2 => DerivedOK([NothingDerived EXCEPT !.acct = XAccount[s.lo]])
      BY <2>3, NothingDerivedOK, DerivationTypes
    <3>2. DerivedOK(Primed(NothingDerived, a))
      BY <2>3, NothingDerivedOK, PrimedType
    <3>3. QED BY <1>6, <3>1, <3>2
  <2> HIDE DEF j, s
  <2>6. QED BY <1>0, <1>3, <1>6, <2>1, <2>3, <2>4, <2>5, Loaded DEF Screens
<1>7. QED BY <1>4, <1>5, <1>6 DEF DeleteSlot

LEMMA WipeStep == ASSUME IInv, WipeSecrets PROVE IInv'
<1>1. /\ slots' = [m \in Slots |-> EmptySlot] /\ active' = NoSlot /\ words' = ZeroWords
      /\ wordCount' = 0 /\ seedLoaded' = FALSE /\ drv' = NothingDerived
      /\ screen' = "Menu" /\ view' = view
  BY DEF WipeSecrets
<1>2. slots' \in [Slots -> SlotRecords] /\ \A m \in Slots : SlotOK(slots'[m])
  BY <1>1, EmptySlotOK
<1>3. TypeOK'
  BY <1>1, <1>2, EntryTypes, NothingDerivedOK DEF IInv, TypeOK, DerivedOK, Kinds, Screens
<1>4. SelectedSlotUsable'
  BY <1>1, NoSlotNotIn DEF SelectedSlotUsable
<1>5. NoWalletNothingDerived'
  BY <1>1 DEF NoWalletNothingDerived, Filled, EmptySlot
<1>6. Fronts(drv')
  BY <1>1, NothingDerivedOK DEF DerivedOK
<1>7. QED BY <1>1, <1>2, <1>3, <1>4, <1>5, <1>6 DEF IInv

-----------------------------------------------------------------------------
(* The invariant theorems. *)

LEMMA StepKeeps == IInv /\ [Next]_vars => IInv'
<1> SUFFICES ASSUME IInv, [Next]_vars PROVE IInv'
  OBVIOUS
<1>1. CASE \E wc \in MnemonicKinds : StartImport(wc) \/ StartTouch(wc)
  BY <1>1, EntrySteps
<1>2. CASE \/ TypeWords \/ FinishImport \/ LeaveImport \/ Generate \/ TouchDone
           \/ PassphraseBack \/ HomeFromEntry
  BY <1>2, EntrySteps
<1>3. CASE \E pp \in Passphrases : PassphraseOk(pp)
  BY <1>3, PassphraseOkStep
<1>4. CASE Bip85Child
  BY <1>4, Bip85Step
<1>5. CASE \E k \in RawKeys : ImportTypedKey(k) \/ ImportKeyFile(k)
  BY <1>5, KeyImportSteps
<1>6. CASE \E x \in XKeys : ImportXprvFile(x)
  BY <1>6, ImportXprvStep
<1>7. CASE \E i \in Slots : SelectSlot(i)
  BY <1>7, SelectStep
<1>8. CASE \E i \in Slots : MultisigPickSeed(i)
  BY <1>8, MultisigPickStep
<1>9. CASE \E i \in Slots : DeleteSlot(i)
  BY <1>9, DeleteStep
<1>10. CASE WipeSecrets
  BY <1>10, WipeStep
<1>11. CASE OpenAddress
  BY <1>11, OpenAddressStep
<1>12. CASE \/ ToggleChain
            \/ \E i \in Indices : ViewIndex(i)
            \/ \E home \in BOOLEAN : LeaveAddress(home)
  BY <1>12, ViewSteps
<1>13. CASE PumpExt
  BY <1>13, PumpStep
<1>14. CASE SignP2pk
  BY <1>14, SignStep
<1>15. CASE UNCHANGED vars
  BY <1>15, DrvOK, KeptSlots DEF vars, IInv, TypeOK
<1>16. QED BY <1>1, <1>2, <1>3, <1>4, <1>5, <1>6, <1>7, <1>8, <1>9, <1>10, <1>11, <1>12,
              <1>13, <1>14, <1>15 DEF Next

THEOREM Inductive == Spec => []IInv
<1>1. Init => IInv
  BY Starts
<1>2. IInv /\ [Next]_vars => IInv'
  BY StepKeeps
<1>3. QED BY <1>1, <1>2, PTL DEF Spec

(* Every variable of the session keeps its type: slots, word arrays, caches, *)
(* banks and view indices are never anything the code could not hold.        *)
THEOREM SessionTypes == Spec => []TypeOK
<1>1. IInv => TypeOK
  BY DEF IInv
<1>2. QED BY <1>1, Inductive, PTL

(* seed_loaded is set exactly while a filled slot is selected, so indexing   *)
(* slots[active] while a wallet is loaded is always in range.                *)
THEOREM SelectedSlotUsableAlways == Spec => []SelectedSlotUsable
<1>1. IInv => SelectedSlotUsable
  BY DEF IInv
<1>2. QED BY <1>1, Inductive, PTL

(* Once the last wallet is deleted or wiped, nothing derived from any wallet *)
(* is left: no account key, cache flag, bank or chain key.                   *)
THEOREM NothingOutlivesTheWallets == Spec => []NoWalletNothingDerived
<1>1. IInv => NoWalletNothingDerived
  BY DEF IInv
<1>2. QED BY <1>1, Inductive, PTL

(* The idle pump and the signer's scan keep the two bank fronts together.    *)
THEOREM FrontsAlwaysTogether == Spec => []FrontsTogether
<1>1. IInv => FrontsTogether
  BY DEF IInv, Fronts, FrontsTogether
<1>2. QED BY <1>1, Inductive, PTL

-----------------------------------------------------------------------------
(* The session implements the shelf of wallets.                            *)

(* A step after which n is selected and filled, that touches no other      *)
(* wallet and replaces none, is a Put or a Choose of the shelf.            *)
LEMMA ShelfPlaced ==
  ASSUME IInv, IInv', NEW n \in Slots, active' = n, slots'[n].wc # 0,
         \A i \in Slots \ {n} : SameWallet(slots'[i], slots[i]),
         slots[n].wc # 0 => SameWallet(slots'[n], slots[n])
  PROVE  Shelf!ShelfNext
<1> DEFINE sh == [i \in Slots |-> AccountOf(slots[i])]
           shP == [i \in Slots |-> AccountOf(slots'[i])]
<1>1. \A i \in Slots \ {n} : AccountOf(slots'[i]) = AccountOf(slots[i])
  BY SameWalletAccount
<1>2. /\ AccountOf(slots'[n]) \in Accounts /\ AccountOf(slots'[n]) # NoAcct
      /\ AccountOf(slots[n]) = NoAcct <=> slots[n].wc = 0
  BY AccountOfType DEF IInv
<1>3. CASE slots[n].wc = 0
  <2>1. sh[n] = NoAcct /\ shP[n] \in Accounts \ {NoAcct}
    BY <1>2, <1>3
  <2>2. shP = [sh EXCEPT ![n] = shP[n]]
    BY <1>1
  <2>3. Shelf!Put(n)
    BY <2>1, <2>2 DEF Shelf!Put
  <2>4. QED BY <2>3 DEF Shelf!ShelfNext
<1>4. CASE slots[n].wc # 0
  <2>1. AccountOf(slots'[n]) = AccountOf(slots[n])
    BY <1>4, SameWalletAccount
  <2>2. shP = sh
    BY <1>1, <2>1
  <2>3. sh[n] # NoAcct
    BY <1>2, <1>4
  <2>4. Shelf!Choose(n)
    BY <2>2, <2>3 DEF Shelf!Choose
  <2>5. QED BY <2>4 DEF Shelf!ShelfNext
<1>5. QED BY <1>3, <1>4

(* A step that keeps every wallet and the selection is a stutter.          *)
LEMMA ShelfStill ==
  ASSUME active' = active, \A i \in Slots : SameWallet(slots'[i], slots[i])
  PROVE  UNCHANGED Shelf!shelfVars
<1>1. \A i \in Slots : AccountOf(slots'[i]) = AccountOf(slots[i])
  BY SameWalletAccount
<1>2. [i \in Slots |-> AccountOf(slots'[i])] = [i \in Slots |-> AccountOf(slots[i])]
  BY <1>1
<1>3. QED BY <1>2 DEF Shelf!shelfVars

(* What a step does to the wallets in the slots.                           *)
Untouched == active' = active /\ \A i \in Slots : SameWallet(slots'[i], slots[i])
Placed(n) == /\ n \in Slots /\ active' = n /\ slots'[n].wc # 0
             /\ \A i \in Slots \ {n} : SameWallet(slots'[i], slots[i])
             /\ slots[n].wc # 0 => SameWallet(slots'[n], slots[n])

LEMMA SlotsStill == UNCHANGED <<slots, active>> => Untouched
  BY DEF Untouched, SameWallet

(* Storing s and refreshing the fingerprint of its place. *)
LEMMA StoredPlaced ==
  ASSUME IInv, NEW same, same \subseteq Slots, NEW s, SlotOK(s), s.wc # 0,
         Place(same) # NoSlot, \A i \in same : slots[i].wc # 0,
         active' = Place(same),
         \/ slots' = WithSlot(Place(same), s)
         \/ \E wc \in Kinds, a \in Accounts :
              slots' = Refreshed(WithSlot(Place(same), s), Place(same), wc, a)
  PROVE  Placed(Place(same))
<1> DEFINE n == Place(same)
<1>1. /\ n \in Slots /\ WithSlot(n, s) \in [Slots -> SlotRecords]
      /\ \A i \in Slots : SlotOK(WithSlot(n, s)[i])
      /\ \A i \in Slots \ {n} : WithSlot(n, s)[i] = slots[i]
      /\ WithSlot(n, s)[n].wc # 0
      /\ \/ slots[n].wc = 0 /\ WithSlot(n, s)[n] = s
         \/ slots[n].wc # 0 /\ WithSlot(n, s) = slots
  BY Stored
<1>2. \A i \in Slots : SameWallet(slots'[i], WithSlot(n, s)[i])
  BY <1>1, RefreshedKeeps DEF SameWallet
<1> HIDE DEF n
<1>3. QED BY <1>1, <1>2 DEF Placed, SameWallet, n

LEMMA LoadPlaced ==
  ASSUME IInv, NEW w \in Arrays, NEW wc \in MnemonicKinds, NEW pp \in Passphrases,
         LoadMnemonic(w, wc, pp)
  PROVE  \E n \in Slots : Placed(n)
<1> DEFINE same == Matching(w, wc, pp)
           s == [wc |-> wc, lo |-> w.lo, hi |-> w.hi, pp |-> pp, fp |-> NoAcct]
<1>1. MnemonicAccount(w, wc, pp) \in Accounts /\ NoAcct \in Accounts /\ wc \in Kinds
  BY AccountTypes DEF Kinds
<1>2. SlotOK(s) /\ s.wc # 0
  BY <1>1 DEF SlotOK, SlotRecords, MnemonicKinds, Kinds, Arrays, Bodies
<1>3. same \subseteq Slots /\ \A i \in same : slots[i].wc # 0
  BY DEF Matching, MnemonicKinds
<1>4. /\ Place(same) # NoSlot /\ active' = Place(same)
      /\ slots' = Refreshed(WithSlot(Place(same), s), Place(same), wc, MnemonicAccount(w, wc, pp))
  BY DEF LoadMnemonic
<1> HIDE DEF same, s
<1>5. Placed(Place(same))
  BY <1>1, <1>2, <1>3, <1>4, StoredPlaced
<1>6. QED BY <1>5 DEF Placed

LEMMA ImportsPlaced ==
  ASSUME IInv,
         \/ \E k \in RawKeys : StoreRawKey(k)
         \/ \E x \in XKeys : ImportXprvFile(x)
  PROVE  Untouched \/ \E n \in Slots : Placed(n)
<1>1. ASSUME NEW k \in RawKeys, StoreRawKey(k) PROVE \E n \in Slots : Placed(n)
  <2> DEFINE same == ByFingerprint(RawAccount(k), 1)
  <2>1. same \subseteq Slots /\ \A i \in same : slots[i].wc # 0
    BY FingerprintMatches DEF Kinds
  <2>2. /\ Place(same) # NoSlot /\ active' = Place(same)
        /\ slots' = WithSlot(Place(same), RawSlot(k))
    BY <1>1 DEF StoreRawKey
  <2> HIDE DEF same
  <2>3. Placed(Place(same))
    BY <2>1, <2>2, KeySlotsOK, StoredPlaced
  <2>4. QED BY <2>3 DEF Placed
<1>2. ASSUME NEW x \in XKeys, ImportXprvFile(x) PROVE Untouched \/ \E n \in Slots : Placed(n)
  <2> DEFINE same == ByFingerprint(XAccount[x], 2)
  <2>1. same \subseteq Slots /\ \A i \in same : slots[i].wc # 0
    BY FingerprintMatches DEF Kinds
  <2>2. \/ /\ Place(same) # NoSlot /\ active' = Place(same)
           /\ slots' = WithSlot(Place(same), XprvSlot(x))
        \/ UNCHANGED <<slots, active>>
    BY <1>2 DEF ImportXprvFile
  <2> HIDE DEF same
  <2>3. Place(same) # NoSlot /\ active' = Place(same) /\ slots' = WithSlot(Place(same), XprvSlot(x))
        => Placed(Place(same))
    BY <2>1, KeySlotsOK, StoredPlaced
  <2>4. QED BY <2>2, <2>3, SlotsStill DEF Placed
<1>3. QED BY <1>1, <1>2

LEMMA ChoicesPlaced ==
  ASSUME IInv, NEW i \in Slots, SelectSlot(i) \/ MultisigPickSeed(i)
  PROVE  Placed(i)
<1> DEFINE s == slots[i]
           a == MnemonicAccount(WordsOf(s), s.wc, s.pp)
<1>1. a \in Accounts
  BY SlotFacts
<1>2. slots' \in {slots, Refreshed(slots, i, s.wc, a)} /\ s.wc # 0 /\ active' = i
  BY DEF SelectSlot, MultisigPickSeed
<1>3. slots \in [Slots -> SlotRecords] /\ \A j \in Slots : SlotOK(slots[j])
  BY DEF IInv, TypeOK
<1> HIDE DEF a
<1>4. \A j \in Slots : SameWallet(slots'[j], slots[j])
  BY <1>1, <1>2, <1>3, RefreshedKeeps DEF SameWallet
<1>5. QED BY <1>2, <1>4 DEF Placed, SameWallet

LEMMA SignUntouched == ASSUME IInv, SignP2pk PROVE Untouched
<1> DEFINE d == IF drv.cached THEN drv ELSE FilledCaches(drv, words, wordCount, Selected)
<1>1. /\ words \in Arrays /\ wordCount \in Kinds /\ Selected \in SlotRecords /\ DerivedOK(drv)
      /\ slots \in [Slots -> SlotRecords] /\ \A i \in Slots : SlotOK(slots[i])
  BY DrvOK, SelectedOK DEF IInv, TypeOK
<1>2. DerivedOK(d)
  BY <1>1, FilledCachesType
<1>3. slots' \in {slots, Refreshed(slots, active, wordCount, d.acct)} /\ active' = active
  BY DEF SignP2pk
<1> HIDE DEF d
<1>4. d.acct \in Accounts
  BY <1>2 DEF DerivedOK, Derived
<1>5. \A i \in Slots : SameWallet(slots'[i], slots[i])
  BY <1>1, <1>3, <1>4, RefreshedKeeps DEF SameWallet
<1>6. QED BY <1>3, <1>5 DEF Untouched

LEMMA DeleteRemoves ==
  ASSUME IInv, IInv', NEW i \in Slots, DeleteSlot(i)
  PROVE  Shelf!Remove(i)
<1> DEFINE left == [slots EXCEPT ![i] = EmptySlot]
           j == Lowest(Filled(left))
           s == left[j]
           a == MnemonicAccount(WordsOf(s), s.wc, s.pp)
           sh == [m \in Slots |-> AccountOf(slots[m])]
           shP == [m \in Slots |-> AccountOf(slots'[m])]
<1>0. /\ slots[i].wc # 0 /\ slots \in [Slots -> SlotRecords]
      /\ left \in [Slots -> SlotRecords] /\ \A m \in Slots : SlotOK(left[m])
      /\ \A m \in Slots : left[m] = IF m = i THEN EmptySlot ELSE slots[m]
  BY EmptySlotOK DEF DeleteSlot, IInv, TypeOK
<1>1. EmptySlot.wc = 0 /\ AccountOf(EmptySlot) = NoAcct
  BY EmptySlotOK, AccountOfType DEF EmptySlot
<1>2. \A m \in Slots : /\ AccountOf(slots[m]) = NoAcct <=> slots[m].wc = 0
                       /\ AccountOf(slots'[m]) = NoAcct <=> slots'[m].wc = 0
  BY AccountOfType DEF IInv
<1>3. ASSUME \A m \in Slots : SameWallet(slots'[m], left[m])
      PROVE  sh[i] # NoAcct /\ shP = [sh EXCEPT ![i] = NoAcct]
  <2>1. \A m \in Slots : AccountOf(slots'[m]) = AccountOf(left[m])
    BY <1>3, SameWalletAccount
  <2>2. \A m \in Slots : shP[m] = IF m = i THEN NoAcct ELSE sh[m]
    BY <1>0, <1>1, <2>1
  <2>3. QED BY <1>0, <1>2, <2>2
<1>4. CASE active # i /\ slots' = left /\ UNCHANGED active
  BY <1>3, <1>4 DEF Shelf!Remove, SameWallet
<1>5. CASE active = i /\ Filled(left) = {} /\ slots' = left /\ active' = NoSlot
  <2>1. sh[i] # NoAcct /\ shP = [sh EXCEPT ![i] = NoAcct]
    BY <1>3, <1>5 DEF SameWallet
  <2>2. {m \in Slots : shP[m] # NoAcct} = {}
    BY <1>2, <1>5 DEF Filled
  <2>3. QED BY <1>5, <2>1, <2>2 DEF Shelf!Remove, Shelf!Occupied
<1>6. CASE /\ active = i /\ Filled(left) # {} /\ active' = j
           /\ slots' = Refreshed(left, j, s.wc, a)
  <2>1. j \in Slots /\ s.wc # 0
    <3>1. Filled(left) \subseteq Nat
      BY SlotsAssumption DEF Filled, Slots
    <3>2. j \in Filled(left)
      BY <1>6, <3>1, LowestIn
    <3>3. QED BY <3>2 DEF Filled
  <2>2. SlotOK(s)
    BY <1>0, <2>1
  <2>3. a \in Accounts
    <3> HIDE DEF s
    <3> QED BY <2>2, AccountOfType
  <2>4. \A m \in Slots : SameWallet(slots'[m], left[m])
    <3> HIDE DEF j, a, left
    <3> QED BY <1>0, <1>6, <2>3, RefreshedKeeps
  <2>5. sh[i] # NoAcct /\ shP = [sh EXCEPT ![i] = NoAcct]
    BY <1>3, <2>4
  <2>6. slots'[j].wc # 0
    BY <2>1, <2>4 DEF SameWallet
  <2>7. j \in {m \in Slots : shP[m] # NoAcct}
    <3> HIDE DEF j
    <3> QED BY <1>2, <2>1, <2>6
  <2> HIDE DEF j
  <2>8. QED BY <1>6, <2>5, <2>7 DEF Shelf!Remove, Shelf!Occupied
<1>7. QED BY <1>4, <1>5, <1>6 DEF DeleteSlot

LEMMA WipeClears == ASSUME WipeSecrets PROVE Shelf!Clear
<1>1. AccountOf(EmptySlot) = NoAcct
  BY EmptySlotOK, AccountOfType DEF EmptySlot
<1>2. slots' = [m \in Slots |-> EmptySlot] /\ active' = NoSlot
  BY DEF WipeSecrets
<1>3. [m \in Slots |-> AccountOf(slots'[m])] = [m \in Slots |-> NoAcct]
  BY <1>1, <1>2
<1>4. QED BY <1>2, <1>3 DEF Shelf!Clear

LEMMA ShelfStep ==
  IInv /\ IInv' /\ [Next]_vars => [Shelf!ShelfNext]_(Shelf!shelfVars)
<1> SUFFICES ASSUME IInv, IInv', [Next]_vars
             PROVE  Shelf!ShelfNext \/ UNCHANGED Shelf!shelfVars
  OBVIOUS
<1>1. ASSUME NEW n \in Slots, Placed(n) PROVE Shelf!ShelfNext
  BY <1>1, ShelfPlaced DEF Placed
<1>2. Untouched => UNCHANGED Shelf!shelfVars
  BY ShelfStill DEF Untouched
<1>3. CASE UNCHANGED <<slots, active>>
  BY <1>2, <1>3, SlotsStill
<1>4. ASSUME NEW pp \in Passphrases, PassphraseOk(pp)
      PROVE  UNCHANGED <<slots, active>> \/ \E n \in Slots : Placed(n)
  <2>1. words \in Arrays /\ wordCount \in MnemonicKinds
    BY <1>4 DEF PassphraseOk, IInv, TypeOK
  <2>2. QED BY <1>4, <2>1, LoadPlaced DEF PassphraseOk, DeviceFull
<1>5. ASSUME Bip85Child PROVE UNCHANGED <<slots, active>> \/ \E n \in Slots : Placed(n)
  <2>1. words' \in Arrays /\ wordCount' \in MnemonicKinds /\ NoPass \in Passphrases
    BY <1>5, EntryTypes, SeedsAssumption DEF Bip85Child, MnemonicKinds
  <2>2. QED BY <1>5, <2>1, LoadPlaced DEF Bip85Child, DeviceFull
<1>6. CASE \E k \in RawKeys : ImportTypedKey(k) \/ ImportKeyFile(k)
  BY <1>1, <1>2, <1>6, ImportsPlaced DEF ImportTypedKey, ImportKeyFile
<1>7. CASE \E x \in XKeys : ImportXprvFile(x)
  BY <1>1, <1>2, <1>7, ImportsPlaced
<1>8. CASE \E i \in Slots : SelectSlot(i) \/ MultisigPickSeed(i)
  BY <1>1, <1>8, ChoicesPlaced
<1>9. CASE \E i \in Slots : DeleteSlot(i)
  BY <1>9, DeleteRemoves DEF Shelf!ShelfNext
<1>10. CASE WipeSecrets
  BY <1>10, WipeClears DEF Shelf!ShelfNext
<1>11. CASE SignP2pk
  BY <1>2, <1>11, SignUntouched
<1>12. CASE \/ \E wc \in MnemonicKinds : StartImport(wc) \/ StartTouch(wc)
            \/ TypeWords \/ FinishImport \/ LeaveImport \/ Generate \/ TouchDone
            \/ PassphraseBack \/ HomeFromEntry
  BY <1>3, <1>12 DEF StartImport, StartTouch, TypeWords, FinishImport, LeaveImport, Generate,
                     TouchDone, PassphraseBack, HomeFromEntry
<1>13. CASE \/ OpenAddress \/ ToggleChain \/ PumpExt
            \/ \E i \in Indices : ViewIndex(i)
            \/ \E home \in BOOLEAN : LeaveAddress(home)
  BY <1>3, <1>13 DEF OpenAddress, ToggleChain, PumpExt, ViewIndex, LeaveAddress
<1>14. CASE UNCHANGED vars
  BY <1>3, <1>14 DEF vars
<1>15. QED BY <1>1, <1>3, <1>4, <1>5, <1>6, <1>7, <1>8, <1>9, <1>10, <1>11, <1>12, <1>13,
              <1>14 DEF Next

(* The session implements the shelf of wallets: whatever was typed, derived  *)
(* or cached, the slots only ever change by putting a wallet in an empty     *)
(* place, choosing, removing or clearing, and the selection follows.         *)
THEOREM SessionImplementsShelf == Spec => ShelfKept
<1>1. Init => Shelf!ShelfInit
  <2> SUFFICES ASSUME Init PROVE Shelf!ShelfInit
    OBVIOUS
  <2>1. AccountOf(EmptySlot) = NoAcct
    BY EmptySlotOK, AccountOfType DEF EmptySlot
  <2>2. QED BY <2>1 DEF Init, Shelf!ShelfInit
<1>2. IInv /\ IInv' /\ [Next]_vars => [Shelf!ShelfNext]_(Shelf!shelfVars)
  BY ShelfStep
<1>3. QED BY <1>1, <1>2, Inductive, PTL DEF Spec, ShelfKept, Shelf!ShelfSpec

-----------------------------------------------------------------------------
(* What is added to a bank. *)

(* Every operation but the pump and the scan keeps or empties the banks.   *)
BanksKept(e, d) == e.rxBank \in {d.rxBank, <<>>} /\ e.chgBank \in {d.chgBank, <<>>}

LEMMA BanksKeptDerived ==
  ASSUME NEW d \in Derived, NEW a \in Accounts
  PROVE  /\ BanksKept(Primed(d, a), d)
         /\ \A w \in Arrays, wc \in Kinds, s \in SlotRecords : BanksKept(FilledCaches(d, w, wc, s), d)
         /\ BanksKept(BanksCleared(d), d)
         /\ BanksKept(CachesFrom(d, a), d)
         /\ BanksKept(EnsuredAccount(d), d)
<1> USE DEF BanksKept, Derived
<1>1. BanksKept(BanksCleared(d), d)
  BY DEF BanksCleared
<1>2. BanksKept(CachesFrom(d, a), d)
  BY DEF CachesFrom
<1>3. BanksKept(Primed(d, a), d)
  BY DEF Primed, BanksCleared, CachesFrom
<1>4. \A w \in Arrays, wc \in Kinds, s \in SlotRecords : BanksKept(FilledCaches(d, w, wc, s), d)
  BY DEF FilledCaches, CachesFrom, MnemonicKinds
<1>5. BanksKept(EnsuredAccount(d), d)
  BY DEF EnsuredAccount
<1>6. QED BY <1>1, <1>2, <1>3, <1>4, <1>5

LEMMA BanksKeptTrans ==
  ASSUME NEW d, NEW e, NEW f, BanksKept(e, d), BanksKept(f, e)
  PROVE  BanksKept(f, d)
  BY DEF BanksKept

GrowsFrom(e, d) ==
  /\ Len(e.rxBank) > Len(d.rxBank) => e.rxBank[Len(e.rxBank)] = e.acct
  /\ Len(e.chgBank) > Len(d.chgBank) => e.chgBank[Len(e.chgBank)] = e.acct

LEMMA KeptGrows ==
  ASSUME NEW d, DerivedOK(d), NEW e, BanksKept(e, d)
  PROVE  GrowsFrom(e, d)
<1>1. Len(d.rxBank) \in Nat /\ Len(d.chgBank) \in Nat
  BY BanksType
<1>2. Len(<<>>) = 0
  OBVIOUS
<1>3. QED BY <1>1, <1>2 DEF BanksKept, GrowsFrom

LEMMA PumpGrows == ASSUME IInv, PumpExt PROVE GrowsFrom(drv', drv)
<1>1. /\ drv \in Derived /\ DerivedOK(drv) /\ ChainFor(drv) = drv.acct
      /\ drv.rxBank \in Seq(Accounts) /\ drv.chgBank \in Seq(Accounts)
      /\ drv.acct \in Accounts
  BY DrvOK, BanksType DEF ChainFor, IInv, TypeOK
<1>2. CASE drv' = EnsuredAccount(drv)
  BY <1>1, <1>2, BanksKeptDerived, KeptGrows
<1>3. CASE drv' = [drv EXCEPT !.chain = drv.acct, !.rxBank = Append(@, drv.acct)]
  <2>1. /\ drv'.rxBank = Append(drv.rxBank, drv.acct) /\ drv'.chgBank = drv.chgBank
        /\ drv'.acct = drv.acct
    BY <1>1, <1>3 DEF Derived
  <2>2. QED BY <1>1, <2>1 DEF GrowsFrom
<1>4. CASE drv' = [drv EXCEPT !.chain = drv.acct, !.chgBank = Append(@, drv.acct)]
  <2>1. /\ drv'.chgBank = Append(drv.chgBank, drv.acct) /\ drv'.rxBank = drv.rxBank
        /\ drv'.acct = drv.acct
    BY <1>1, <1>4 DEF Derived
  <2>2. QED BY <1>1, <2>1 DEF GrowsFrom
<1>5. QED BY <1>1, <1>2, <1>3, <1>4 DEF PumpExt

(* Extended to the length it has, a bank is what it was.                   *)
LEMMA ExtendedSame ==
  ASSUME NEW b \in Seq(Accounts), NEW a PROVE Extended(b, Len(b), a) = b
<1>1. DOMAIN b = 1 .. Len(b) /\ b = [i \in 1 .. Len(b) |-> b[i]]
  BY LenProperties
<1>2. Extended(b, Len(b), a) = [i \in 1 .. Len(b) |-> b[i]]
  <2>1. \A i \in 1 .. Len(b) : i <= Len(b)
    BY LenProperties
  <2>2. QED BY <2>1 DEF Extended
<1>3. QED BY <1>1, <1>2

LEMMA SignGrows == ASSUME IInv, SignP2pk PROVE GrowsFrom(drv', drv)
<1> DEFINE d == IF drv.cached THEN drv ELSE FilledCaches(drv, words, wordCount, Selected)
           k == IF wordCount = 2 THEN d ELSE EnsuredAccount(d)
<1>0. /\ words \in Arrays /\ wordCount \in Kinds /\ DerivedOK(drv) /\ drv \in Derived
      /\ SessionAccount \in Accounts /\ Selected \in SlotRecords /\ NoAcct \in Accounts
  BY DrvOK, SelectedOK, AccountTypes DEF IInv, TypeOK
<1>1. DerivedOK(d) /\ BanksKept(d, drv)
  BY <1>0, FilledCachesType, BanksKeptDerived DEF BanksKept
<1>2. \/ drv' \in {d, k}
      \/ \E st \in ScanStops(Len(k.rxBank), Len(k.chgBank)) :
           drv' = [k EXCEPT !.rxBank = Extended(@, st[1], k.acct),
                            !.chgBank = Extended(@, st[2], k.acct)]
  BY DEF SignP2pk
<1> HIDE DEF d
<1>3. DerivedOK(k)
  BY <1>0, <1>1, EnsuredType
<1>4. BanksKept(k, drv)
  <2>1. BanksKept(k, d)
    BY <1>0, <1>1, BanksKeptDerived DEF DerivedOK, BanksKept
  <2>2. QED BY <1>1, <2>1, BanksKeptTrans
<1> HIDE DEF k
<1>5. CASE drv' \in {d, k}
  BY <1>0, <1>1, <1>4, <1>5, KeptGrows
<1>6. ASSUME NEW st \in ScanStops(Len(k.rxBank), Len(k.chgBank)),
             drv' = [k EXCEPT !.rxBank = Extended(@, st[1], k.acct),
                              !.chgBank = Extended(@, st[2], k.acct)]
      PROVE  GrowsFrom(drv', drv)
  <2>1. /\ drv'.rxBank = Extended(k.rxBank, st[1], k.acct)
        /\ drv'.chgBank = Extended(k.chgBank, st[2], k.acct)
        /\ drv'.acct = k.acct
    BY <1>3, <1>6 DEF DerivedOK, Derived
  <2>2. /\ k.rxBank \in Seq(Accounts) /\ k.chgBank \in Seq(Accounts) /\ k.acct \in Accounts
        /\ Len(k.rxBank) \in Nat /\ Len(k.chgBank) \in Nat
    BY <1>3, BanksType
  <2>3. st[1] \in Nat /\ st[2] \in Nat /\ st[1] >= Len(k.rxBank) /\ st[2] >= Len(k.chgBank)
    BY <2>2, SizesAssumption DEF ScanStops
  <2>4. Len(drv'.rxBank) = st[1] /\ Len(drv'.chgBank) = st[2]
    <3>1. Len(Extended(k.rxBank, st[1], k.acct)) = st[1]
      BY <2>2, <2>3, ExtendedType
    <3>2. Len(Extended(k.chgBank, st[2], k.acct)) = st[2]
      BY <2>2, <2>3, ExtendedType
    <3>3. QED BY <2>1, <3>1, <3>2
  <2>5. /\ st[1] > Len(k.rxBank) => drv'.rxBank[st[1]] = k.acct
        /\ st[2] > Len(k.chgBank) => drv'.chgBank[st[2]] = k.acct
    BY <2>1, <2>2, <2>3 DEF Extended
  <2>6. /\ st[1] = Len(k.rxBank) => drv'.rxBank = k.rxBank
        /\ st[2] = Len(k.chgBank) => drv'.chgBank = k.chgBank
    <3>1. /\ Extended(k.rxBank, Len(k.rxBank), k.acct) = k.rxBank
          /\ Extended(k.chgBank, Len(k.chgBank), k.acct) = k.chgBank
      BY <2>2, ExtendedSame
    <3>2. QED BY <2>1, <3>1
  <2>7. /\ Len(k.rxBank) <= Len(drv.rxBank) \/ k.rxBank = drv.rxBank
        /\ Len(drv.rxBank) \in Nat /\ Len(drv.chgBank) \in Nat
        /\ k.rxBank \in {drv.rxBank, <<>>} /\ k.chgBank \in {drv.chgBank, <<>>}
    BY <1>0, <1>4, BanksType DEF BanksKept
  <2>8. QED BY <2>1, <2>2, <2>3, <2>4, <2>5, <2>6, <2>7 DEF GrowsFrom
<1>7. QED BY <1>2, <1>5, <1>6

LEMMA StepGrows == IInv /\ [Next]_vars => GrowsFrom(drv', drv)
<1> SUFFICES ASSUME IInv, [Next]_vars PROVE GrowsFrom(drv', drv)
  OBVIOUS
<1>0. /\ drv \in Derived /\ DerivedOK(drv) /\ NoAcct \in Accounts /\ view \in Views
      /\ \A i \in Slots : SlotOK(slots[i])
  BY DrvOK, AccountTypes DEF IInv, TypeOK
<1>1. BanksKept(drv', drv) => GrowsFrom(drv', drv)
  BY <1>0, KeptGrows
<1>2. CASE UNCHANGED drv
  BY <1>1, <1>2 DEF BanksKept
<1>3. CASE drv' = NothingDerived
  BY <1>1, <1>3 DEF BanksKept, NothingDerived
<1>4. ASSUME NEW d \in Derived, NEW a \in Accounts, BanksKept(d, drv), drv' = Primed(d, a)
      PROVE  GrowsFrom(drv', drv)
  BY <1>1, <1>4, BanksKeptDerived, BanksKeptTrans
<1>5. ASSUME NEW d \in Derived, NEW w \in Arrays, NEW wc \in Kinds, NEW s \in SlotRecords,
             BanksKept(d, drv), drv' = FilledCaches(d, w, wc, s)
      PROVE  GrowsFrom(drv', drv)
  BY <1>0, <1>1, <1>5, BanksKeptDerived, BanksKeptTrans
<1>6. [drv EXCEPT !.cached = FALSE] \in Derived /\ BanksKept([drv EXCEPT !.cached = FALSE], drv)
  BY <1>0 DEF Derived, BanksKept
<1>7. ASSUME NEW w \in Arrays, NEW wc \in MnemonicKinds, NEW pp \in Passphrases,
             LoadMnemonic(w, wc, pp) \/ DeviceFull(w, wc, pp)
      PROVE  GrowsFrom(drv', drv)
  BY <1>2, <1>4, <1>6, <1>7, AccountTypes DEF LoadMnemonic, DeviceFull, Kinds
<1>8. CASE \E pp \in Passphrases : PassphraseOk(pp)
  BY <1>7, <1>8 DEF PassphraseOk, IInv, TypeOK
<1>9. CASE Bip85Child
  <2>1. words' \in Arrays /\ wordCount' \in MnemonicKinds /\ NoPass \in Passphrases
    BY <1>9, EntryTypes, SeedsAssumption DEF Bip85Child, MnemonicKinds
  <2>2. QED BY <1>7, <1>9, <2>1 DEF Bip85Child
<1>10. ASSUME NEW k \in RawKeys, ImportTypedKey(k) \/ ImportKeyFile(k)
       PROVE  GrowsFrom(drv', drv)
  <2>1. BanksKept(Primed(drv, NoAcct), drv) /\ DerivedOK(Primed(drv, NoAcct))
    BY <1>0, BanksKeptDerived, PrimedType
  <2>2. BanksKept([Primed(drv, NoAcct) EXCEPT !.rx0 = RawAccount(k), !.cached = TRUE], drv)
    BY <2>1 DEF DerivedOK, Derived, BanksKept
  <2>3. BanksKept([drv EXCEPT !.rx0 = RawAccount(k), !.cached = TRUE], drv)
    BY <1>0 DEF Derived, BanksKept
  <2>4. QED BY <1>1, <1>10, <2>2, <2>3 DEF ImportTypedKey, ImportKeyFile
<1>11. ASSUME NEW x \in XKeys, ImportXprvFile(x) PROVE GrowsFrom(drv', drv)
  <2>1. BanksKept(drv', drv)
    BY <1>0, <1>11 DEF ImportXprvFile, Derived, BanksKept
  <2>2. QED BY <1>1, <2>1
<1>12. ASSUME NEW i \in Slots, SelectSlot(i) PROVE GrowsFrom(drv', drv)
  <2> DEFINE s == slots[i]
             cold == [drv EXCEPT !.cached = FALSE]
             a == MnemonicAccount(WordsOf(s), s.wc, s.pp)
  <2>1. /\ a \in Accounts /\ WordsOf(s) \in Arrays /\ s \in SlotRecords
        /\ s.wc = 2 => XAccount[s.lo] \in Accounts
    BY SlotFacts
  <2>2. \/ \E b \in Accounts, wc \in {1, 2} :
             drv' = FilledCaches(BanksCleared([cold EXCEPT !.acct = b]), WordsOf(s), wc, s)
        \/ drv' = [drv EXCEPT !.cached = TRUE]
        \/ drv' = Primed(cold, a)
    BY <1>0, <1>12, <2>1 DEF SelectSlot
  <2> HIDE DEF s, a
  <2>3. \A b \in Accounts : /\ BanksCleared([cold EXCEPT !.acct = b]) \in Derived
                            /\ BanksKept(BanksCleared([cold EXCEPT !.acct = b]), drv)
    <3> SUFFICES ASSUME NEW b \in Accounts
                 PROVE  /\ BanksCleared([cold EXCEPT !.acct = b]) \in Derived
                        /\ BanksKept(BanksCleared([cold EXCEPT !.acct = b]), drv)
      OBVIOUS
    <3>1. DerivedOK([cold EXCEPT !.acct = b])
      BY <1>0, DerivationTypes
    <3>2. DerivedOK(BanksCleared([cold EXCEPT !.acct = b]))
      BY <1>0, <3>1, DerivationTypes
    <3>3. BanksKept(BanksCleared([cold EXCEPT !.acct = b]), drv)
      BY <1>0 DEF BanksCleared, Derived, BanksKept
    <3>4. QED BY <3>2, <3>3 DEF DerivedOK
  <2>4. CASE \E b \in Accounts, wc \in {1, 2} :
               drv' = FilledCaches(BanksCleared([cold EXCEPT !.acct = b]), WordsOf(s), wc, s)
    BY <1>5, <2>1, <2>3, <2>4 DEF Kinds
  <2>5. CASE drv' = [drv EXCEPT !.cached = TRUE]
    BY <1>0, <1>1, <2>5 DEF Derived, BanksKept
  <2>6. CASE drv' = Primed(cold, a)
    BY <1>4, <1>6, <2>1, <2>6
  <2>7. QED BY <2>2, <2>4, <2>5, <2>6
<1>13. ASSUME NEW i \in Slots, MultisigPickSeed(i) PROVE GrowsFrom(drv', drv)
  <2> DEFINE s == slots[i]
             keyed == IF s.wc = 2 THEN [drv EXCEPT !.acct = XAccount[s.lo]] ELSE drv
  <2>1. /\ WordsOf(s) \in Arrays /\ s \in SlotRecords /\ s.wc \in Kinds
        /\ s.wc = 2 => XAccount[s.lo] \in Accounts
    BY SlotFacts
  <2>2. drv' = FilledCaches(BanksCleared(keyed), WordsOf(s), s.wc, s)
    BY <1>13 DEF MultisigPickSeed
  <2>3. DerivedOK(keyed) /\ BanksKept(keyed, drv)
    BY <1>0, <2>1, DerivationTypes DEF Derived, BanksKept
  <2> HIDE DEF s, keyed
  <2>4. BanksCleared(keyed) \in Derived /\ BanksKept(BanksCleared(keyed), keyed)
    BY <1>0, <2>3, DerivationTypes, BanksKeptDerived DEF DerivedOK
  <2>5. BanksKept(BanksCleared(keyed), drv)
    BY <2>3, <2>4, BanksKeptTrans
  <2>6. QED BY <1>5, <2>1, <2>2, <2>4, <2>5
<1>14. ASSUME NEW i \in Slots, DeleteSlot(i) PROVE GrowsFrom(drv', drv)
  <2> DEFINE left == [slots EXCEPT ![i] = EmptySlot]
             s == left[Lowest(Filled(left))]
             a == MnemonicAccount(WordsOf(s), s.wc, s.pp)
  <2>1. drv' \in {drv, NothingDerived, [NothingDerived EXCEPT !.acct = XAccount[s.lo]],
                  Primed(NothingDerived, a)}
    BY <1>14 DEF DeleteSlot
  <2> HIDE DEF s, a
  <2>2. NothingDerived.rxBank = <<>> /\ NothingDerived.chgBank = <<>>
    BY DEF NothingDerived
  <2>3. /\ [NothingDerived EXCEPT !.acct = XAccount[s.lo]].rxBank = <<>>
        /\ [NothingDerived EXCEPT !.acct = XAccount[s.lo]].chgBank = <<>>
    BY DEF NothingDerived
  <2>4. Primed(NothingDerived, a).rxBank = <<>> /\ Primed(NothingDerived, a).chgBank = <<>>
    BY DEF NothingDerived, Primed, BanksCleared, CachesFrom
  <2>5. QED BY <1>1, <1>2, <2>1, <2>2, <2>3, <2>4 DEF BanksKept
<1>15. CASE WipeSecrets
  BY <1>3, <1>15 DEF WipeSecrets
<1>16. CASE OpenAddress
  <2>1. BanksKept(drv', drv)
    BY <1>0, <1>16 DEF OpenAddress, CachesFrom, Derived, BanksKept
  <2>2. QED BY <1>1, <2>1
<1>4a. CASE PumpExt
  BY <1>4a, PumpGrows
<1>18. CASE SignP2pk
  BY <1>18, SignGrows
<1>19. CASE \/ \E wc \in MnemonicKinds : StartImport(wc) \/ StartTouch(wc)
            \/ TypeWords \/ FinishImport \/ LeaveImport \/ Generate \/ TouchDone
            \/ PassphraseBack \/ HomeFromEntry \/ ToggleChain
            \/ \E i \in Indices : ViewIndex(i)
            \/ \E home \in BOOLEAN : LeaveAddress(home)
            \/ UNCHANGED vars
  BY <1>2, <1>19 DEF StartImport, StartTouch, TypeWords, FinishImport, LeaveImport, Generate,
       TouchDone, PassphraseBack, HomeFromEntry, ToggleChain, ViewIndex, LeaveAddress, vars
<1>20. QED BY <1>8, <1>9, <1>10, <1>11, <1>12, <1>13, <1>14, <1>15, <1>16, <1>4a, <1>18, <1>19
       DEF Next

(* A key that enters a bank is one of the account key held at that moment:   *)
(* the chain cache of another wallet never supplies one.                     *)
THEOREM BanksGrowOnlyFromAccount == Spec => BanksGrowFromAccount
<1>1. IInv /\ [Next]_vars =>
        [/\ Len(drv'.rxBank) > Len(drv.rxBank) => drv'.rxBank[Len(drv'.rxBank)] = drv'.acct
         /\ Len(drv'.chgBank) > Len(drv.chgBank) => drv'.chgBank[Len(drv'.chgBank)] = drv'.acct]_vars
  BY StepGrows DEF GrowsFrom
<1>2. QED BY <1>1, Inductive, PTL DEF Spec, BanksGrowFromAccount

-----------------------------------------------------------------------------
(* On the straight paths.                                                  *)

(* A slot's fingerprint is its wallet's, an imported key has one from the  *)
(* start, twelve words have no tail, and no two filled slots of a kind     *)
(* hold the same wallet.                                                   *)
FpTrue(s) == /\ s.fp # NoAcct => s.fp = AccountOf(s)
             /\ s.wc \in {1, 2} => s.fp = AccountOf(s) /\ s.hi = Zero /\ s.pp = NoPass
             /\ s.wc = 12 => s.hi = Zero
Twins(s, t) == s.wc = t.wc /\ AccountOf(s) = AccountOf(t)
SlotsTrue(sl) == /\ \A i \in Slots : FpTrue(sl[i])
                 /\ \A i, j \in Filled(sl) : Twins(sl[i], sl[j]) => i = j

(* What is derived is derived from the wallet of s. A raw key has no       *)
(* account key of its own, and a multisig pick leaves the last one.        *)
Held(d, s) ==
  /\ s.wc # 1 => d.acct = AccountOf(s)
  /\ s.wc \in MnemonicKinds => d.cached
  /\ d.cached => /\ d.rx0 = AccountOf(s)
                 /\ s.wc # 1 => d.rxRest = AccountOf(s) /\ d.chg = AccountOf(s)
  /\ s.wc # 1 => /\ \A k \in 1 .. Len(d.rxBank) : d.rxBank[k] = AccountOf(s)
                 /\ \A k \in 1 .. Len(d.chgBank) : d.chgBank[k] = AccountOf(s)

(* The session words are the selected slot's wherever they are read: back  *)
(* on the passphrase screen empties them, and no operation counts on them. *)
SessionWords == screen \notin EntryScreens =>
                 /\ wordCount \in {0, Selected.wc}
                 /\ wordCount \in MnemonicKinds => words = WordsOf(Selected)

(* Twelve words that await their passphrase have no tail either.           *)
Trimmed == screen = "PassphraseEntry" /\ wordCount = 12 => words.hi = Zero

(* The inductive invariant of the straight paths, with IInv.               *)
Straight == /\ SlotsTrue(slots)
            /\ Trimmed
            /\ seedLoaded => /\ SessionWords
                             /\ Held(drv, Selected)
                             /\ screen = "ShowAddress" => drv.cached

(* A mnemonic slot gives its account from its words; no other slot does.   *)
LEMMA MnemonicAccountOf ==
  ASSUME NEW s, SlotOK(s)
  PROVE  MnemonicAccount(WordsOf(s), s.wc, s.pp)
           = IF s.wc \in MnemonicKinds THEN AccountOf(s) ELSE NoAcct
<1>1. CASE s.wc \in MnemonicKinds
  BY <1>1 DEF WordsOf, AccountOf, MnemonicKinds
<1>2. CASE s.wc \notin MnemonicKinds
  BY <1>2 DEF MnemonicAccount
<1>3. QED BY <1>1, <1>2

LEMMA EmptyTrue == FpTrue(EmptySlot) /\ SlotsTrue([i \in Slots |-> EmptySlot])
  BY DEF FpTrue, SlotsTrue, EmptySlot, Filled

(* A slot whose fingerprint is refreshed gets that of its own wallet.      *)
LEMMA RefreshedTrue ==
  ASSUME NEW sl, \A i \in Slots : SlotOK(sl[i]), sl \in [Slots -> SlotRecords], SlotsTrue(sl),
         NEW n, NEW wc, NEW a \in Accounts,
         n \in Slots /\ wc \in MnemonicKinds /\ a # NoAcct => a = AccountOf(sl[n])
  PROVE  SlotsTrue(Refreshed(sl, n, wc, a))
<1> DEFINE r == Refreshed(sl, n, wc, a)
<1>1. \A i \in Slots : SameWallet(r[i], sl[i]) /\ AccountOf(r[i]) = AccountOf(sl[i])
  BY RefreshedKeeps, SameWalletAccount
<1>2. \A i \in Slots : r[i].fp \in {sl[i].fp, AccountOf(sl[i])}
  <2>1. CASE r = sl
    BY <2>1
  <2>2. CASE n \in Slots /\ r = [sl EXCEPT ![n].fp = a] /\ a = AccountOf(sl[n])
    <3>1. \A i \in Slots : r[i] = IF i = n THEN [sl[n] EXCEPT !.fp = a] ELSE sl[i]
      BY <2>2
    <3>2. [sl[n] EXCEPT !.fp = a].fp = a
      BY <2>2 DEF SlotRecords
    <3>3. QED BY <2>2, <3>1, <3>2
  <2>3. QED BY <2>1, <2>2 DEF Refreshed
<1> HIDE DEF r
<1>3. \A i \in Slots : FpTrue(r[i])
  BY <1>1, <1>2 DEF SlotsTrue, FpTrue, SameWallet
<1>4. Filled(r) = Filled(sl)
  BY <1>1 DEF Filled, SameWallet
<1>5. \A i, j \in Filled(r) : Twins(r[i], r[j]) => Twins(sl[i], sl[j])
  BY <1>1 DEF SameWallet, Twins, Filled
<1>6. QED BY <1>3, <1>4, <1>5 DEF SlotsTrue, r

(* A store that looks for its content first leaves it in one slot.         *)
LEMMA StoredTrue ==
  ASSUME IInv, SlotsTrue(slots), NEW same, same \subseteq Slots,
         NEW s, SlotOK(s), s.wc # 0, FpTrue(s), Place(same) # NoSlot,
         \A i \in same : slots[i].wc = s.wc /\ AccountOf(slots[i]) = AccountOf(s),
         \A i \in Slots : Twins(slots[i], s) => i \in same
  PROVE  /\ SlotsTrue(WithSlot(Place(same), s))
         /\ WithSlot(Place(same), s)[Place(same)].wc = s.wc
         /\ AccountOf(WithSlot(Place(same), s)[Place(same)]) = AccountOf(s)
<1> DEFINE n == Place(same)
           t == WithSlot(n, s)
<1>0. \A i \in same : slots[i].wc # 0
  OBVIOUS
<1>1. /\ n \in Slots /\ \A i \in Slots \ {n} : t[i] = slots[i]
      /\ \/ slots[n].wc = 0 /\ t[n] = s
         \/ slots[n].wc # 0 /\ t = slots
  BY <1>0, Stored
<1>2. n \in same \/ (slots[n].wc = 0 /\ same = {})
  <2>0. Slots \subseteq Nat
    BY SlotsAssumption DEF Slots
  <2>1. CASE same # {}
    <3>1. Lowest(same) \in same
      BY <2>0, <2>1, LowestIn
    <3>2. QED BY <2>1, <3>1 DEF Place
  <2>2. CASE same = {}
    BY <2>2, <1>1, PlaceIn
  <2>3. QED BY <2>1, <2>2
<1> HIDE DEF n, t
<1>3. CASE n \in same
  <2>1. t = slots
    BY <1>0, <1>1, <1>3
  <2>2. QED BY <1>3, <2>1 DEF n, t
<1>4. CASE slots[n].wc = 0 /\ same = {}
  <2>1. t[n] = s
    BY <1>1, <1>4
  <2>2. \A i \in Slots : FpTrue(t[i])
    BY <1>1, <2>1 DEF SlotsTrue
  <2>3. \A i \in Slots : ~Twins(slots[i], s) /\ ~Twins(s, slots[i])
    BY <1>4 DEF Twins
  <2>4. ASSUME NEW i \in Filled(t), NEW j \in Filled(t), Twins(t[i], t[j]) PROVE i = j
    <3>1. i \in Slots /\ j \in Slots
      BY DEF Filled
    <3>2. CASE i = n /\ j # n
      BY <1>1, <2>1, <2>3, <2>4, <3>1, <3>2
    <3>3. CASE i # n /\ j = n
      BY <1>1, <2>1, <2>3, <2>4, <3>1, <3>3
    <3>4. CASE i # n /\ j # n
      BY <1>1, <2>4, <3>1, <3>4 DEF Filled, SlotsTrue
    <3>5. QED BY <3>2, <3>3, <3>4
  <2>5. SlotsTrue(t)
    BY <2>2, <2>4 DEF SlotsTrue
  <2>6. QED BY <2>1, <2>5 DEF n, t
<1>5. QED BY <1>2, <1>3, <1>4

(* Deleting a slot brings no twin and no stale fingerprint.                *)
LEMMA DeletedTrue ==
  ASSUME IInv, SlotsTrue(slots), NEW i \in Slots
  PROVE  SlotsTrue([slots EXCEPT ![i] = EmptySlot])
<1> DEFINE left == [slots EXCEPT ![i] = EmptySlot]
<1>1. \A j \in Slots : left[j] = IF j = i THEN EmptySlot ELSE slots[j]
  BY DEF IInv, TypeOK
<1> HIDE DEF left
<1>2. EmptySlot.wc = 0
  BY DEF EmptySlot
<1>3. \A j \in Filled(left) : j # i /\ left[j] = slots[j] /\ j \in Filled(slots)
  BY <1>1, <1>2 DEF Filled
<1>4. \A j \in Slots : FpTrue(left[j])
  BY <1>1, EmptyTrue DEF SlotsTrue
<1>5. QED BY <1>3, <1>4 DEF SlotsTrue, left

(* What is filled from the words or the key of a wallet is of that wallet. *)
LEMMA PrimedFields ==
  ASSUME NEW d \in Derived, NEW a \in Accounts \ {NoAcct}
  PROVE  LET p == Primed(d, a) IN
         /\ p.acct = a /\ p.rx0 = a /\ p.rxRest = a /\ p.chg = a /\ p.cached = TRUE
         /\ p.rxBank = <<>> /\ p.chgBank = <<>>
<1> DEFINE e == BanksCleared([d EXCEPT !.acct = NoAcct])
<1>1. e \in Derived /\ e.rxBank = <<>> /\ e.chgBank = <<>>
  <2> <<>> \in Seq(Accounts)
    OBVIOUS
  <2> QED BY AccountTypes DEF BanksCleared, Derived
<1>2. Primed(d, a) = CachesFrom([e EXCEPT !.acct = a], a)
  BY DEF Primed
<1> HIDE DEF e
<1>3. QED BY <1>1, <1>2 DEF CachesFrom, Derived

LEMMA HeldPrimed ==
  ASSUME NEW d \in Derived, NEW s, SlotOK(s), s.wc \in MnemonicKinds
  PROVE  Held(Primed(d, AccountOf(s)), s)
<1>1. AccountOf(s) \in Accounts \ {NoAcct}
  BY AccountOfType DEF MnemonicKinds
<1> DEFINE p == Primed(d, AccountOf(s))
<1>2. /\ p.acct = AccountOf(s) /\ p.rx0 = AccountOf(s) /\ p.rxRest = AccountOf(s)
      /\ p.chg = AccountOf(s) /\ p.cached = TRUE /\ p.rxBank = <<>> /\ p.chgBank = <<>>
  BY <1>1, PrimedFields
<1> HIDE DEF p
<1>3. Held(p, s)
  BY <1>2 DEF Held
<1>4. QED BY <1>3 DEF p

LEMMA HeldRaw ==
  ASSUME NEW d \in Derived, NEW s, s.wc = 1
  PROVE  Held([d EXCEPT !.rx0 = AccountOf(s), !.cached = TRUE], s)
  BY DEF Held, Derived, MnemonicKinds

(* The caches filled for s with empty banks, as by a card tap.             *)
LEMMA HeldFilled ==
  ASSUME NEW d \in Derived, NEW s, SlotOK(s), s.wc # 0, s.wc = 2 => d.acct = AccountOf(s)
  PROVE  Held(FilledCaches(BanksCleared(d), WordsOf(s), s.wc, s), s)
<1> DEFINE e == BanksCleared(d)
           A == AccountOf(s)
<1>1. e \in Derived /\ e.rxBank = <<>> /\ e.chgBank = <<>> /\ e.acct = d.acct
  <2> <<>> \in Seq(Accounts)
    OBVIOUS
  <2> QED BY AccountTypes DEF BanksCleared, Derived
<1>2. A \in Accounts \ {NoAcct}
  BY AccountOfType
<1> HIDE DEF e
<1>3. CASE s.wc \in MnemonicKinds
  <2>1. FilledCaches(e, WordsOf(s), s.wc, s) = CachesFrom([e EXCEPT !.acct = A], A)
    BY <1>3, MnemonicAccountOf DEF FilledCaches, MnemonicKinds
  <2>2. Held(CachesFrom([e EXCEPT !.acct = A], A), s)
    <3> HIDE DEF A
    <3>1. LET p == CachesFrom([e EXCEPT !.acct = A], A) IN
          /\ p.acct = A /\ p.rx0 = A /\ p.rxRest = A /\ p.chg = A /\ p.cached = TRUE
          /\ p.rxBank = <<>> /\ p.chgBank = <<>>
      BY <1>1, <1>2 DEF CachesFrom, Derived
    <3>2. QED BY <3>1 DEF Held, A
  <2>3. QED BY <2>1, <2>2 DEF e
<1>4. CASE s.wc = 2
  <2>1. FilledCaches(e, WordsOf(s), s.wc, s) = CachesFrom(e, A)
    BY <1>1, <1>2, <1>4 DEF FilledCaches, MnemonicKinds
  <2>2. Held(CachesFrom(e, A), s)
    <3> HIDE DEF A
    <3>0. e.acct = A
      BY <1>1, <1>4 DEF A
    <3>1. LET p == CachesFrom(e, A) IN
          /\ p.acct = A /\ p.rx0 = A /\ p.rxRest = A /\ p.chg = A /\ p.cached = TRUE
          /\ p.rxBank = <<>> /\ p.chgBank = <<>>
      BY <1>1, <1>2, <3>0 DEF CachesFrom, Derived
    <3>2. QED BY <3>1 DEF Held, A
  <2>3. QED BY <2>1, <2>2 DEF e
<1>5. CASE s.wc = 1
  <2>1. FilledCaches(e, WordsOf(s), s.wc, s) = [e EXCEPT !.rx0 = RawAccount(s.lo), !.cached = TRUE]
    BY <1>5 DEF FilledCaches, MnemonicKinds
  <2>2. RawAccount(s.lo) = AccountOf(s)
    BY <1>5 DEF AccountOf, MnemonicKinds
  <2>3. QED BY <1>1, <1>5, <2>1, <2>2, HeldRaw DEF e
<1>6. QED BY <1>3, <1>4, <1>5 DEF SlotOK, SlotRecords, Kinds

LEMMA HeldSame ==
  ASSUME NEW s, NEW t, SameWallet(s, t), NEW d, Held(d, t)
  PROVE  Held(d, s) /\ WordsOf(s) = WordsOf(t) /\ s.wc = t.wc
<1>1. AccountOf(s) = AccountOf(t) /\ s.wc = t.wc /\ WordsOf(s) = WordsOf(t)
  BY SameWalletAccount DEF SameWallet, WordsOf
<1>2. QED BY <1>1 DEF Held

(* A bank of one account grows by keys of that account.                    *)
LEMMA ExtendedHolds ==
  ASSUME NEW b \in Seq(Accounts), NEW n \in Nat, NEW a \in Accounts,
         \A k \in 1 .. Len(b) : b[k] = a
  PROVE  \A k \in 1 .. Len(Extended(b, n, a)) : Extended(b, n, a)[k] = a
<1>1. Len(Extended(b, n, a)) = n /\ Len(b) \in Nat
  BY ExtendedType, LenProperties
<1>2. ASSUME NEW k \in 1 .. n PROVE Extended(b, n, a)[k] = a
  <2>1. Extended(b, n, a)[k] = IF k <= Len(b) THEN b[k] ELSE a
    BY DEF Extended
  <2>2. k <= Len(b) => k \in 1 .. Len(b)
    BY <1>1
  <2>3. QED BY <2>1, <2>2
<1>3. QED BY <1>1, <1>2

LEMMA HeldExtended ==
  ASSUME NEW d, DerivedOK(d), NEW s, s.wc # 1, Held(d, s),
         NEW st \in ScanStops(Len(d.rxBank), Len(d.chgBank))
  PROVE  Held([d EXCEPT !.rxBank = Extended(@, st[1], d.acct),
                        !.chgBank = Extended(@, st[2], d.acct)], s)
<1> DEFINE rx == Extended(d.rxBank, st[1], d.acct)
           chg == Extended(d.chgBank, st[2], d.acct)
           e == [d EXCEPT !.rxBank = rx, !.chgBank = chg]
<1>1. d.rxBank \in Seq(Accounts) /\ d.chgBank \in Seq(Accounts) /\ d.acct \in Accounts
  BY BanksType
<1>2. st[1] \in Nat /\ st[2] \in Nat
  BY BanksType, SizesAssumption DEF ScanStops
<1>3. /\ \A k \in 1 .. Len(d.rxBank) : d.rxBank[k] = d.acct
      /\ \A k \in 1 .. Len(d.chgBank) : d.chgBank[k] = d.acct
  BY DEF Held
<1>4. /\ \A k \in 1 .. Len(rx) : rx[k] = d.acct
      /\ \A k \in 1 .. Len(chg) : chg[k] = d.acct
  BY <1>1, <1>2, <1>3, ExtendedHolds
<1>5. /\ e.rxBank = rx /\ e.chgBank = chg /\ e.acct = d.acct /\ e.cached = d.cached
      /\ e.rx0 = d.rx0 /\ e.rxRest = d.rxRest /\ e.chg = d.chg
  <2> HIDE DEF rx, chg
  <2> QED BY DEF DerivedOK, Derived
<1> HIDE DEF rx, chg
<1>6. d.acct = AccountOf(s)
  BY DEF Held
<1>7. Held(e, s)
  <2> HIDE DEF e
  <2> QED BY <1>4, <1>5, <1>6 DEF Held
<1>8. QED BY <1>7 DEF e, rx, chg

-----------------------------------------------------------------------------
(* Every step of the straight paths keeps Straight.                        *)

LEMMA StraightStarts == Init => Straight
<1> SUFFICES ASSUME Init PROVE Straight
  OBVIOUS
<1>1. SlotsTrue(slots)
  BY EmptyTrue DEF Init
<1>2. QED BY <1>1 DEF Init, Straight, Trimmed

LEMMA KeptStraight ==
  ASSUME Straight, UNCHANGED <<slots, active, seedLoaded>>, Trimmed',
         seedLoaded => Held(drv', Selected) /\ SessionWords' /\ (screen' = "ShowAddress" => drv'.cached)
  PROVE  Straight'
<1>1. Selected' = Selected
  BY DEF Selected
<1>2. SlotsTrue(slots')
  BY DEF Straight
<1>3. QED BY <1>1, <1>2 DEF Straight

LEMMA LoadedStraight ==
  ASSUME SlotsTrue(slots'), active' \in Slots, Held(drv', slots'[active']),
         wordCount' = slots'[active'].wc,
         wordCount' \in MnemonicKinds => words' = WordsOf(slots'[active']),
         screen' = "Menu"
  PROVE  Straight'
<1>1. Selected' = slots'[active']
  BY DEF Selected
<1>2. SessionWords' /\ Trimmed'
  BY <1>1 DEF SessionWords, Trimmed
<1>3. QED BY <1>1, <1>2 DEF Straight

LEMMA EntryStraight ==
  ASSUME Detours = {}, IInv, Straight,
         \/ \E wc \in MnemonicKinds : StartImport(wc) \/ StartTouch(wc)
         \/ TypeWords \/ FinishImport \/ LeaveImport \/ Generate \/ TouchDone
         \/ PassphraseBack \/ HomeFromEntry
  PROVE  Straight'
<1>1. UNCHANGED <<slots, active, seedLoaded, drv>>
  BY DEF StartImport, StartTouch, TypeWords, FinishImport, LeaveImport, Generate, TouchDone,
         PassphraseBack, HomeFromEntry
<1>2. ~LeaveImport /\ ~HomeFromEntry
  BY DEF LeaveImport, HomeFromEntry
<1>3. screen' \in EntryScreens \/ (wordCount' = 0 /\ screen' = "Menu")
  BY <1>2 DEF StartImport, StartTouch, TypeWords, FinishImport, Generate, TouchDone,
              PassphraseBack, EntryScreens, ImportScreens
<1>4. SessionWords' /\ screen' # "ShowAddress"
  BY <1>3 DEF SessionWords, MnemonicKinds, EntryScreens, ImportScreens
<1>5. Trimmed'
  <2>1. CASE FinishImport
    BY <2>1, SeedsAssumption DEF FinishImport, Trimmed, IInv, TypeOK, Arrays
  <2>2. CASE Generate \/ TouchDone
    BY <2>2 DEF Generate, TouchDone, Trimmed, TwelveWords
  <2>3. CASE PassphraseBack
    BY <2>3 DEF PassphraseBack, Trimmed
  <2>4. CASE (\E wc \in MnemonicKinds : StartImport(wc) \/ StartTouch(wc)) \/ TypeWords
    BY <2>4 DEF StartImport, StartTouch, TypeWords, Trimmed
  <2>5. QED BY <1>2, <2>1, <2>2, <2>3, <2>4
<1>6. QED BY <1>1, <1>4, <1>5, KeptStraight DEF Straight

(* What the session says while a wallet is loaded and no entry is open.    *)
LEMMA SessionFacts ==
  ASSUME IInv, Straight, seedLoaded, screen \notin EntryScreens
  PROVE  /\ SlotOK(Selected) /\ Selected.wc \in Kinds \ {0}
         /\ AccountOf(Selected) \in Accounts \ {NoAcct}
         /\ Held(drv, Selected)
         /\ wordCount \in {0, Selected.wc}
         /\ wordCount \in MnemonicKinds => words = WordsOf(Selected) /\ Selected.wc = wordCount
         /\ Selected.wc # 1 => drv.acct = AccountOf(Selected) /\ drv.acct # NoAcct
         /\ Selected.wc \in MnemonicKinds => drv.cached
<1>1. SlotOK(Selected) /\ Selected.wc \in Kinds \ {0}
  BY SelectedOK DEF SlotOK, SlotRecords
<1>2. AccountOf(Selected) \in Accounts \ {NoAcct}
  BY <1>1, AccountOfType
<1>3. SessionWords /\ Held(drv, Selected)
  BY DEF Straight
<1>4. QED BY <1>1, <1>2, <1>3 DEF SessionWords, Held, MnemonicKinds

LEMMA ViewStraight ==
  ASSUME IInv, Straight,
         \/ ToggleChain
         \/ \E i \in Indices : ViewIndex(i)
         \/ \E home \in BOOLEAN : LeaveAddress(home)
  PROVE  Straight'
<1>1. UNCHANGED <<slots, active, seedLoaded, drv, words, wordCount>>
  BY DEF ToggleChain, ViewIndex, LeaveAddress
<1>2. screen = "ShowAddress" /\ screen' \in {"ShowAddress", "Menu"}
  BY DEF ToggleChain, ViewIndex, LeaveAddress
<1>3. Selected' = Selected
  BY <1>1 DEF Selected
<1>4. seedLoaded => SessionWords /\ Held(drv, Selected) /\ drv.cached
  BY <1>2 DEF Straight
<1>5. seedLoaded => SessionWords'
  BY <1>1, <1>2, <1>3, <1>4 DEF SessionWords, EntryScreens, ImportScreens
<1>6. QED BY <1>1, <1>2, <1>4, <1>5, KeptStraight DEF Trimmed

LEMMA OpenAddressStraight == ASSUME IInv, Straight, OpenAddress PROVE Straight'
<1> DEFINE A == AccountOf(Selected)
<1>0. seedLoaded /\ screen \notin EntryScreens /\ screen' = "ShowAddress"
  BY DEF OpenAddress, EntryScreens, ImportScreens
<1>1. UNCHANGED <<slots, active, seedLoaded, words, wordCount>>
  BY DEF OpenAddress
<1>2. drv \in Derived
  BY DEF IInv, TypeOK
<1>3. /\ Held(drv, Selected) /\ Selected.wc \in Kinds \ {0} /\ A \in Accounts
      /\ Selected.wc = 2 => drv.acct = A /\ drv.acct # NoAcct
      /\ Selected.wc \in MnemonicKinds => drv.cached
  BY <1>0, SessionFacts
<1>4. Held(drv', Selected) /\ drv'.cached
  <2>1. CASE drv.cached
    <3>1. drv' = drv
      BY <2>1 DEF OpenAddress
    <3>2. QED BY <1>3, <2>1, <3>1
  <2>2. CASE ~drv.cached /\ Selected.wc = 1
    <3>1. drv' = [drv EXCEPT !.rx0 = A, !.cached = TRUE]
      BY <2>2 DEF OpenAddress, AccountOf, MnemonicKinds
    <3>2. drv'.cached
      BY <1>2, <3>1 DEF Derived
    <3>3. QED BY <1>2, <2>2, <3>1, <3>2, HeldRaw
  <2>3. CASE ~drv.cached /\ Selected.wc = 2
    <3>1. drv' = CachesFrom(drv, A)
      BY <1>3, <2>3 DEF OpenAddress
    <3> HIDE DEF A
    <3>2. /\ drv'.cached = TRUE /\ drv'.rx0 = A /\ drv'.rxRest = A /\ drv'.chg = A
          /\ drv'.acct = drv.acct /\ drv'.rxBank = drv.rxBank /\ drv'.chgBank = drv.chgBank
      BY <1>2, <1>3, <3>1 DEF CachesFrom, Derived
    <3>3. QED BY <1>3, <2>3, <3>2 DEF Held, A
  <2>4. QED BY <1>3, <2>1, <2>2, <2>3 DEF Kinds
<1>5. Selected' = Selected
  BY <1>1 DEF Selected
<1>6. SessionWords'
  BY <1>0, <1>1, <1>5 DEF Straight, SessionWords
<1>7. QED BY <1>0, <1>1, <1>4, <1>6, KeptStraight DEF Trimmed

LEMMA PumpStraight == ASSUME IInv, Straight, PumpExt PROVE Straight'
<1> DEFINE A == AccountOf(Selected)
<1>0. screen \notin EntryScreens /\ screen' = screen /\ screen = "Menu"
  BY DEF PumpExt, EntryScreens, ImportScreens
<1>1. UNCHANGED <<slots, active, seedLoaded, words, wordCount>>
  BY DEF PumpExt
<1>2. drv \in Derived /\ DerivedOK(drv)
  BY DrvOK DEF IInv, TypeOK
<1>3. Selected' = Selected
  BY <1>1 DEF Selected
<1>4. seedLoaded => SessionWords'
  BY <1>0, <1>1, <1>3 DEF Straight, SessionWords
<1>5. ASSUME seedLoaded PROVE Held(drv', Selected)
  <2>1. /\ Held(drv, Selected) /\ A \in Accounts
        /\ Selected.wc # 1 => drv.acct = A
        /\ drv.acct = NoAcct => wordCount \notin MnemonicKinds
    BY <1>0, <1>5, SessionFacts DEF MnemonicKinds
  <2>2. ChainFor(drv) = drv.acct
    BY DEF ChainFor
  <2>3. /\ drv.rxBank \in Seq(Accounts) /\ drv.chgBank \in Seq(Accounts) /\ drv.acct \in Accounts
    BY <1>2, BanksType
  <2>4. CASE drv' = [drv EXCEPT !.chain = drv.acct, !.rxBank = Append(@, drv.acct)]
    <3>1. /\ drv'.rxBank = Append(drv.rxBank, drv.acct) /\ drv'.chgBank = drv.chgBank
          /\ drv'.acct = drv.acct /\ drv'.cached = drv.cached /\ drv'.rx0 = drv.rx0
          /\ drv'.rxRest = drv.rxRest /\ drv'.chg = drv.chg
      BY <1>2, <2>4 DEF Derived
    <3>2. (\A k \in 1 .. Len(drv.rxBank) : drv.rxBank[k] = A) /\ drv.acct = A
             => \A k \in 1 .. Len(drv'.rxBank) : drv'.rxBank[k] = A
      <4> HIDE DEF A
      <4> QED BY <2>3, <3>1, AppendProperties
    <3>3. QED BY <2>1, <3>1, <3>2 DEF Held
  <2>5. CASE drv' = [drv EXCEPT !.chain = drv.acct, !.chgBank = Append(@, drv.acct)]
    <3>1. /\ drv'.chgBank = Append(drv.chgBank, drv.acct) /\ drv'.rxBank = drv.rxBank
          /\ drv'.acct = drv.acct /\ drv'.cached = drv.cached /\ drv'.rx0 = drv.rx0
          /\ drv'.rxRest = drv.rxRest /\ drv'.chg = drv.chg
      BY <1>2, <2>5 DEF Derived
    <3>2. (\A k \in 1 .. Len(drv.chgBank) : drv.chgBank[k] = A) /\ drv.acct = A
             => \A k \in 1 .. Len(drv'.chgBank) : drv'.chgBank[k] = A
      <4> HIDE DEF A
      <4> QED BY <2>3, <3>1, AppendProperties
    <3>3. QED BY <2>1, <3>1, <3>2 DEF Held
  <2>6. QED BY <2>1, <2>2, <2>4, <2>5 DEF PumpExt
<1>6. QED BY <1>0, <1>1, <1>4, <1>5, KeptStraight DEF Trimmed

LEMMA SignStraight == ASSUME IInv, Straight, SignP2pk PROVE Straight'
<1> DEFINE A == AccountOf(Selected)
           d == IF drv.cached THEN drv ELSE FilledCaches(drv, words, wordCount, Selected)
           k == IF wordCount = 2 THEN d ELSE EnsuredAccount(d)
<1>0. seedLoaded /\ screen \notin EntryScreens /\ screen' = screen /\ screen = "Menu"
  BY DEF SignP2pk, EntryScreens, ImportScreens
<1>1. /\ Held(drv, Selected) /\ Selected.wc \in Kinds \ {0} /\ A \in Accounts \ {NoAcct}
      /\ Selected.wc # 1 => drv.acct = A
      /\ Selected.wc \in MnemonicKinds => drv.cached
      /\ wordCount \in {0, Selected.wc}
      /\ words \in Arrays /\ wordCount \in Kinds /\ Selected \in SlotRecords
      /\ drv \in Derived /\ DerivedOK(drv)
  BY <1>0, SessionFacts, DrvOK, SelectedOK DEF IInv, TypeOK
<1>2. ~(~drv.cached /\ wordCount \in MnemonicKinds)
  BY <1>1 DEF MnemonicKinds
<1>3. UNCHANGED <<slots, active, words, wordCount, seedLoaded, view, screen>>
  BY <1>2 DEF SignP2pk
<1>4. Held(d, Selected) /\ DerivedOK(d)
  <2>0. DerivedOK(d)
    BY <1>1, FilledCachesType
  <2>1. CASE drv.cached
    BY <1>1, <2>0, <2>1
  <2>2. CASE ~drv.cached /\ wordCount = 1
    <3>0. Selected.wc = 1 /\ RawAccount(Selected.lo) = A
      BY <1>1, <2>2 DEF AccountOf, MnemonicKinds
    <3>1. d = [drv EXCEPT !.rx0 = RawAccount(Selected.lo), !.cached = TRUE]
      BY <2>2, <3>0 DEF FilledCaches, MnemonicKinds
    <3> HIDE DEF d
    <3>2. d = [drv EXCEPT !.rx0 = AccountOf(Selected), !.cached = TRUE]
      BY <3>0, <3>1
    <3>3. QED BY <1>1, <2>0, <3>0, <3>2, HeldRaw
  <2>3. CASE ~drv.cached /\ wordCount = 2
    <3>1. d = CachesFrom(drv, A) /\ Selected.wc = 2
      BY <1>1, <2>3 DEF FilledCaches, MnemonicKinds
    <3> HIDE DEF A, d
    <3>2. /\ d.cached = TRUE /\ d.rx0 = A /\ d.rxRest = A /\ d.chg = A
          /\ d.acct = drv.acct /\ d.rxBank = drv.rxBank /\ d.chgBank = drv.chgBank
      BY <1>1, <3>1 DEF CachesFrom, Derived
    <3>3. QED BY <1>1, <2>0, <3>1, <3>2 DEF Held, A
  <2>4. CASE ~drv.cached /\ wordCount = 0
    <3>1. d = drv
      BY <2>4 DEF FilledCaches, MnemonicKinds
    <3>2. QED BY <1>1, <3>1
  <2>5. QED BY <1>1, <1>2, <2>1, <2>2, <2>3, <2>4 DEF Kinds
<1>5. Held(drv', Selected)
  <2>1. CASE Selected.wc = 1
    <3>1. drv' = d
      BY <2>1 DEF SignP2pk
    <3>2. QED BY <1>4, <3>1
  <2>2. CASE Selected.wc # 1
    <3>1. d.acct = A
      <4> HIDE DEF d
      <4> QED BY <1>4, <2>2 DEF Held
    <3>2. k = d
      BY <1>1, <3>1 DEF EnsuredAccount
    <3>3. \E st \in ScanStops(Len(k.rxBank), Len(k.chgBank)) :
             drv' = [k EXCEPT !.rxBank = Extended(@, st[1], k.acct),
                              !.chgBank = Extended(@, st[2], k.acct)]
      BY <1>1, <2>2, <3>1, <3>2 DEF SignP2pk
    <3>4. DerivedOK(k) /\ Held(k, Selected)
      BY <1>4, <3>2
    <3> HIDE DEF k, d
    <3>5. PICK st \in ScanStops(Len(k.rxBank), Len(k.chgBank)) :
             drv' = [k EXCEPT !.rxBank = Extended(@, st[1], k.acct),
                              !.chgBank = Extended(@, st[2], k.acct)]
      BY <3>3
    <3>6. Held([k EXCEPT !.rxBank = Extended(@, st[1], k.acct),
                         !.chgBank = Extended(@, st[2], k.acct)], Selected)
      BY <2>2, <3>4, HeldExtended
    <3>7. QED BY <3>5, <3>6
  <2>3. QED BY <2>1, <2>2
<1>6. Selected' = Selected
  BY <1>3 DEF Selected
<1>7. SessionWords'
  BY <1>0, <1>3, <1>6 DEF Straight, SessionWords
<1>8. QED BY <1>0, <1>3, <1>5, <1>7, KeptStraight DEF Trimmed

LEMMA LoadMnemonicStraight ==
  ASSUME IInv, Straight, NEW w \in Arrays, NEW wc \in MnemonicKinds, NEW pp \in Passphrases,
         LoadMnemonic(w, wc, pp), words' = w, wordCount' = wc, screen' = "Menu",
         wc = 12 => w.hi = Zero
  PROVE  Straight'
<1> DEFINE same == Matching(w, wc, pp)
           n == Place(same)
           a == MnemonicAccount(w, wc, pp)
           s == [wc |-> wc, lo |-> w.lo, hi |-> w.hi, pp |-> pp, fp |-> NoAcct]
           t == WithSlot(n, s)
<1>1. a \in Accounts /\ NoAcct \in Accounts
  BY AccountTypes DEF Kinds
<1>2. SlotOK(s) /\ s.wc # 0 /\ s.wc = wc
  BY <1>1 DEF SlotOK, SlotRecords, MnemonicKinds, Kinds, Arrays, Bodies
<1>3. /\ same \subseteq Slots /\ \A i \in same : SameWallet(slots[i], s)
      /\ \A i \in Slots : SameWallet(slots[i], s) => i \in same
  BY DEF Matching, SameWallet
<1>4a. ASSUME NEW i \in Slots, Twins(slots[i], s) PROVE i \in same
  <2>1. slots[i].wc = wc /\ FpTrue(slots[i])
    BY <1>4a DEF Twins, Straight, SlotsTrue
  <2>2. MnemonicAccount([lo |-> slots[i].lo, hi |-> slots[i].hi], wc, slots[i].pp)
          = MnemonicAccount([lo |-> w.lo, hi |-> w.hi], wc, pp)
    <3>1. AccountOf(slots[i]) = MnemonicAccount([lo |-> slots[i].lo, hi |-> slots[i].hi], wc, slots[i].pp)
      BY <2>1 DEF AccountOf, MnemonicKinds
    <3>2. AccountOf(s) = MnemonicAccount([lo |-> w.lo, hi |-> w.hi], wc, pp)
      BY DEF AccountOf, MnemonicKinds
    <3>3. QED BY <1>4a, <3>1, <3>2 DEF Twins
  <2>3. slots[i].lo = w.lo /\ slots[i].pp = pp /\ (wc = 24 => slots[i].hi = w.hi)
    BY <2>2 DEF MnemonicAccount, MnemonicKinds
  <2>4. slots[i].hi = w.hi
    BY <2>1, <2>3 DEF FpTrue, MnemonicKinds
  <2>5. QED BY <2>1, <2>3, <2>4 DEF Matching
<1>4. WordsOf(s) = w /\ AccountOf(s) = a /\ FpTrue(s)
  BY DEF WordsOf, AccountOf, FpTrue, Arrays, MnemonicKinds
<1>5. /\ n # NoSlot /\ slots' = Refreshed(t, n, wc, a) /\ active' = n /\ seedLoaded' = TRUE
      /\ drv' = Primed([drv EXCEPT !.cached = FALSE], a)
  BY DEF LoadMnemonic
<1> HIDE DEF same, a, s
<1>6. \A i \in same : slots[i].wc = s.wc /\ AccountOf(slots[i]) = AccountOf(s)
  BY <1>3, SameWalletAccount DEF SameWallet
<1>7. SlotsTrue(slots)
  BY DEF Straight
<1>8. SlotsTrue(t) /\ t[n].wc = wc /\ AccountOf(t[n]) = a
  BY <1>2, <1>3, <1>4, <1>5, <1>6, <1>7, <1>4a, StoredTrue
<1>9. /\ n \in Slots /\ t \in [Slots -> SlotRecords] /\ \A i \in Slots : SlotOK(t[i])
      /\ \/ slots[n].wc = 0 /\ t[n] = s
         \/ slots[n].wc # 0 /\ t = slots
  BY <1>2, <1>3, <1>5, <1>6, Stored
<1>10. WordsOf(t[n]) = w
  <2>1. CASE t[n] = s
    BY <1>4, <2>1
  <2>2. CASE slots[n].wc # 0 /\ t = slots
    <3>2. n \in same
      BY <1>3, <1>5, <2>2, PlaceIn
    <3>3. SameWallet(t[n], s)
      BY <1>3, <2>2, <3>2
    <3>4. QED BY <1>4, <3>3 DEF SameWallet, WordsOf
  <2>3. QED BY <1>9, <2>1, <2>2
<1> HIDE DEF n, t
<1>11. SlotsTrue(slots')
  BY <1>1, <1>5, <1>8, <1>9, RefreshedTrue
<1>12. SameWallet(slots'[n], t[n]) /\ SlotOK(slots'[n])
  BY <1>1, <1>5, <1>9, RefreshedKeeps
<1>13. AccountOf(slots'[n]) = a /\ slots'[n].wc = wc /\ WordsOf(slots'[n]) = w
  BY <1>8, <1>10, <1>12, SameWalletAccount DEF SameWallet, WordsOf
<1>14. [drv EXCEPT !.cached = FALSE] \in Derived
  BY DEF IInv, TypeOK, Derived
<1>15. Held(drv', slots'[n])
  BY <1>5, <1>12, <1>13, <1>14, HeldPrimed
<1>16. QED BY <1>5, <1>9, <1>11, <1>13, <1>15, LoadedStraight

LEMMA LoadingStraight ==
  ASSUME Detours = {}, IInv, Straight,
         (\E pp \in Passphrases : PassphraseOk(pp)) \/ Bip85Child
  PROVE  Straight'
<1>1. ASSUME NEW pp \in Passphrases, PassphraseOk(pp) PROVE Straight'
  <2>1. /\ words \in Arrays /\ wordCount \in MnemonicKinds
        /\ LoadMnemonic(words, wordCount, pp)
        /\ UNCHANGED <<words, wordCount>> /\ screen' = "Menu"
        /\ wordCount = 12 => words.hi = Zero
    BY <1>1 DEF PassphraseOk, DeviceFull, IInv, TypeOK, Straight, Trimmed
  <2>2. QED BY <2>1, LoadMnemonicStraight
<1>2. CASE Bip85Child
  <2>1. /\ words' \in Arrays /\ wordCount' \in MnemonicKinds /\ NoPass \in Passphrases
        /\ screen' = "Menu" /\ LoadMnemonic(words', wordCount', NoPass)
    BY <1>2, EntryTypes, SeedsAssumption DEF Bip85Child, DeviceFull, MnemonicKinds
  <2>3. wordCount' = 12 => words'.hi = Zero
    BY <1>2 DEF Bip85Child, TwelveWords
  <2>2. QED BY <2>1, <2>3, LoadMnemonicStraight
<1>3. QED BY <1>1, <1>2

(* A key found by its fingerprint is the key imported.                     *)
LEMMA KeyStored ==
  ASSUME IInv, Straight, NEW wc \in {1, 2}, NEW s, SlotOK(s), s.wc = wc, FpTrue(s),
         Place(ByFingerprint(s.fp, wc)) # NoSlot
  PROVE  LET n == Place(ByFingerprint(s.fp, wc)) IN
         /\ n \in Slots /\ SlotsTrue(WithSlot(n, s)) /\ WithSlot(n, s)[n].wc = wc
         /\ SlotOK(WithSlot(n, s)[n])
         /\ AccountOf(WithSlot(n, s)[n]) = AccountOf(s)
<1> DEFINE same == ByFingerprint(s.fp, wc)
<1>1. s.fp = AccountOf(s) /\ s.fp # NoAcct
  BY AccountOfType DEF FpTrue
<1>2. same \subseteq Slots /\ \A i \in same : slots[i].wc = s.wc /\ slots[i].fp = s.fp
  BY DEF ByFingerprint
<1>3. \A i \in Slots : FpTrue(slots[i])
  BY DEF Straight, SlotsTrue
<1>4. \A i \in same : AccountOf(slots[i]) = AccountOf(s)
  BY <1>1, <1>2, <1>3 DEF FpTrue
<1>5. ASSUME NEW i \in Slots, Twins(slots[i], s) PROVE i \in same
  <2>1. slots[i].wc = wc /\ slots[i].fp = AccountOf(slots[i])
    BY <1>3, <1>5 DEF Twins, FpTrue
  <2>2. AccountOf(slots[i]) = AccountOf(s)
    BY <1>5 DEF Twins
  <2>3. QED BY <1>1, <2>1, <2>2 DEF ByFingerprint
<1>6. SlotsTrue(slots) /\ s.wc # 0 /\ \A i \in same : slots[i].wc # 0
  BY <1>2 DEF Straight
<1> HIDE DEF same
<1>7. Place(same) # NoSlot
  BY DEF same
<1>8. /\ SlotsTrue(WithSlot(Place(same), s))
      /\ WithSlot(Place(same), s)[Place(same)].wc = s.wc
      /\ AccountOf(WithSlot(Place(same), s)[Place(same)]) = AccountOf(s)
  BY <1>2, <1>4, <1>5, <1>6, <1>7, StoredTrue
<1>9. Place(same) \in Slots /\ \A i \in Slots : SlotOK(WithSlot(Place(same), s)[i])
  BY <1>2, <1>6, <1>7, Stored
<1>10. QED BY <1>8, <1>9 DEF same

LEMMA KeyFpTrue ==
  /\ \A k \in RawKeys : /\ FpTrue(RawSlot(k)) /\ RawSlot(k).fp = RawAccount(k)
                        /\ AccountOf(RawSlot(k)) = RawAccount(k)
  /\ \A x \in XKeys : /\ FpTrue(XprvSlot(x)) /\ XprvSlot(x).fp = XAccount[x]
                      /\ AccountOf(XprvSlot(x)) = XAccount[x]
  BY DEF FpTrue, RawSlot, XprvSlot, AccountOf, MnemonicKinds

LEMMA KeyImportStraight ==
  ASSUME IInv, Straight, NEW k \in RawKeys, ImportTypedKey(k) \/ ImportKeyFile(k)
  PROVE  Straight'
<1> DEFINE n == Place(ByFingerprint(RawAccount(k), 1))
           s == RawSlot(k)
<1>1. StoreRawKey(k) /\ screen = "Menu"
  BY DEF ImportTypedKey, ImportKeyFile
<1>2. SlotOK(s) /\ s.wc = 1 /\ FpTrue(s) /\ s.fp = RawAccount(k) /\ AccountOf(s) = RawAccount(k)
  BY KeySlotsOK, KeyFpTrue DEF RawSlot
<1>3. /\ n # NoSlot /\ slots' = WithSlot(n, s) /\ active' = n /\ wordCount' = 1
      /\ screen' = "Menu"
  BY <1>1 DEF StoreRawKey
<1> HIDE DEF s
<1>4. /\ n \in Slots /\ SlotsTrue(slots') /\ slots'[n].wc = 1
      /\ AccountOf(slots'[n]) = RawAccount(k)
  BY <1>2, <1>3, KeyStored
<1>5. \E d \in Derived : drv' = [d EXCEPT !.rx0 = RawAccount(k), !.cached = TRUE]
  <2>1. drv \in Derived /\ Primed(drv, NoAcct) \in Derived
    BY DrvOK, PrimedType, AccountTypes DEF DerivedOK
  <2>2. QED BY <2>1 DEF ImportTypedKey, ImportKeyFile
<1> HIDE DEF n
<1>6. Held(drv', slots'[n])
  BY <1>4, <1>5, HeldRaw
<1>7. QED BY <1>3, <1>4, <1>6, LoadedStraight DEF MnemonicKinds

LEMMA ImportXprvStraight ==
  ASSUME Detours = {}, IInv, Straight, NEW x \in XKeys, ImportXprvFile(x)
  PROVE  Straight'
<1> DEFINE n == Place(ByFingerprint(XAccount[x], 2))
           s == XprvSlot(x)
           A == XAccount[x]
           keyed == [drv EXCEPT !.acct = A, !.rx0 = A, !.rxRest = A, !.chg = A]
<1>1. ~seedLoaded /\ drv = NothingDerived /\ Filled(slots) = {}
  BY DEF ImportXprvFile, IInv, NoWalletNothingDerived
<1>2. /\ SlotOK(s) /\ s.wc = 2 /\ FpTrue(s) /\ s.fp = A /\ AccountOf(s) = A /\ A \in Accounts
  BY KeySlotsOK, KeyFpTrue DEF XprvSlot
<1>3. n # NoSlot
  <2>1. ByFingerprint(A, 2) \subseteq Slots
    BY DEF ByFingerprint
  <2>2. Slots # {}
    BY SlotsAssumption DEF Slots
  <2>3. QED BY <1>1, <2>1, <2>2, PlaceFull
<1>4. /\ slots' = WithSlot(n, s) /\ active' = n /\ wordCount' = 2
      /\ drv' = [keyed EXCEPT !.cached = TRUE] /\ screen' = "Menu"
  BY <1>3 DEF ImportXprvFile
<1> HIDE DEF s
<1>5. n \in Slots /\ SlotsTrue(slots') /\ slots'[n].wc = 2 /\ AccountOf(slots'[n]) = A
  BY <1>2, <1>3, <1>4, KeyStored
<1>6. /\ drv'.acct = A /\ drv'.rx0 = A /\ drv'.rxRest = A /\ drv'.chg = A
      /\ drv'.rxBank = <<>> /\ drv'.chgBank = <<>>
  <2> HIDE DEF A
  <2> QED BY <1>1, <1>4 DEF NothingDerived
<1> HIDE DEF n, A
<1>7. Held(drv', slots'[n])
  BY <1>5, <1>6 DEF Held, MnemonicKinds
<1>8. QED BY <1>4, <1>5, <1>7, LoadedStraight DEF MnemonicKinds

LEMMA SelectStraight == ASSUME IInv, Straight, NEW i \in Slots, SelectSlot(i) PROVE Straight'
<1> DEFINE s == slots[i]
           a == MnemonicAccount(WordsOf(s), s.wc, s.pp)
           cold == [drv EXCEPT !.cached = FALSE]
<1>0. /\ SlotOK(s) /\ s.wc \in Kinds /\ a \in Accounts /\ drv \in Derived
      /\ \A j \in Slots : SlotOK(slots[j])
      /\ slots \in [Slots -> SlotRecords]
      /\ s.wc = 2 => XAccount[s.lo] \in Accounts /\ XAccount[s.lo] = AccountOf(s)
  BY SlotFacts DEF IInv, TypeOK, AccountOf, MnemonicKinds
<1>1. /\ screen = "Menu" /\ screen' = screen /\ s.wc # 0 /\ active' = i
      /\ wordCount' = s.wc /\ words' = WordsOf(s)
      /\ slots' \in {slots, Refreshed(slots, i, s.wc, a)}
      /\ \/ /\ s.wc = 2
            /\ drv' = FilledCaches(BanksCleared([cold EXCEPT !.acct = XAccount[s.lo]]),
                                   WordsOf(s), 2, s)
         \/ /\ s.wc = 1
            /\ drv' = FilledCaches(BanksCleared([cold EXCEPT !.acct = NoAcct]), WordsOf(s), 1, s)
         \/ /\ s.wc \in MnemonicKinds /\ active = i /\ drv' = [drv EXCEPT !.cached = TRUE]
         \/ /\ s.wc \in MnemonicKinds /\ drv' = Primed(cold, a)
  BY <1>0 DEF SelectSlot, MnemonicKinds, Kinds
<1>2. s.wc \in MnemonicKinds => a = AccountOf(s)
  BY <1>0, MnemonicAccountOf
<1>3. SlotsTrue(slots) /\ Selected = (IF active \in Slots THEN slots[active] ELSE EmptySlot)
  BY DEF Straight, Selected
<1>4. SlotsTrue(slots') /\ SameWallet(slots'[i], s)
  <2> HIDE DEF a
  <2>1. SlotsTrue(Refreshed(slots, i, s.wc, a))
    BY <1>0, <1>2, <1>3, RefreshedTrue
  <2>2. SameWallet(Refreshed(slots, i, s.wc, a)[i], s) /\ SameWallet(s, s)
    BY <1>0, RefreshedKeeps DEF SameWallet
  <2>3. QED BY <1>1, <1>3, <2>1, <2>2
<1>5. cold \in Derived
  BY <1>0 DEF Derived
<1> HIDE DEF a, cold
<1>6. Held(drv', s)
  <2>1. CASE s.wc = 2 /\ drv' = FilledCaches(BanksCleared([cold EXCEPT !.acct = XAccount[s.lo]]),
                                             WordsOf(s), 2, s)
    <3>1. /\ [cold EXCEPT !.acct = XAccount[s.lo]] \in Derived
          /\ [cold EXCEPT !.acct = XAccount[s.lo]].acct = AccountOf(s)
      BY <1>0, <1>5, <2>1 DEF Derived
    <3>2. Held(FilledCaches(BanksCleared([cold EXCEPT !.acct = XAccount[s.lo]]),
                            WordsOf(s), s.wc, s), s)
      BY <1>0, <1>1, <3>1, HeldFilled
    <3>3. QED BY <2>1, <3>2
  <2>2. CASE s.wc = 1 /\ drv' = FilledCaches(BanksCleared([cold EXCEPT !.acct = NoAcct]),
                                             WordsOf(s), 1, s)
    <3>1. [cold EXCEPT !.acct = NoAcct] \in Derived
      BY <1>5, AccountTypes DEF Derived
    <3>2. Held(FilledCaches(BanksCleared([cold EXCEPT !.acct = NoAcct]), WordsOf(s), s.wc, s), s)
      BY <1>0, <1>1, <2>2, <3>1, HeldFilled
    <3>3. QED BY <2>2, <3>2
  <2>3. CASE s.wc \in MnemonicKinds /\ active = i /\ drv' = [drv EXCEPT !.cached = TRUE]
    <3>1. Selected = s /\ seedLoaded
      BY <1>1, <1>3, <2>3 DEF IInv, SelectedSlotUsable
    <3>2. Held(drv, s)
      BY <3>1 DEF Straight
    <3>3. drv.cached
      BY <2>3, <3>2 DEF Held
    <3>4. [drv EXCEPT !.cached = TRUE] = drv
      BY <1>0, <3>3 DEF Derived
    <3>5. QED BY <2>3, <3>2, <3>4
  <2>4. CASE s.wc \in MnemonicKinds /\ drv' = Primed(cold, a)
    BY <1>0, <1>2, <1>5, <2>4, HeldPrimed
  <2>5. QED BY <1>1, <2>1, <2>2, <2>3, <2>4
<1>7. Held(drv', slots'[i]) /\ WordsOf(slots'[i]) = WordsOf(s) /\ slots'[i].wc = s.wc
  BY <1>4, <1>6, HeldSame
<1>8. QED BY <1>1, <1>4, <1>7, LoadedStraight

LEMMA MultisigPickStraight ==
  ASSUME IInv, Straight, NEW i \in Slots, MultisigPickSeed(i) PROVE Straight'
<1> DEFINE s == slots[i]
           a == MnemonicAccount(WordsOf(s), s.wc, s.pp)
           keyed == IF s.wc = 2 THEN [drv EXCEPT !.acct = XAccount[s.lo]] ELSE drv
<1>0. /\ SlotOK(s) /\ s.wc \in Kinds /\ a \in Accounts /\ drv \in Derived
      /\ \A j \in Slots : SlotOK(slots[j])
      /\ slots \in [Slots -> SlotRecords]
      /\ s.wc = 2 => XAccount[s.lo] \in Accounts /\ XAccount[s.lo] = AccountOf(s)
  BY SlotFacts DEF IInv, TypeOK, AccountOf, MnemonicKinds
<1>1. /\ screen' = "Menu" /\ s.wc # 0 /\ active' = i
      /\ wordCount' = s.wc /\ words' = WordsOf(s)
      /\ slots' = Refreshed(slots, i, s.wc, a)
      /\ drv' = FilledCaches(BanksCleared(keyed), WordsOf(s), s.wc, s)
  BY DEF MultisigPickSeed
<1>2. s.wc \in MnemonicKinds => a = AccountOf(s)
  BY <1>0, MnemonicAccountOf
<1>3. keyed \in Derived /\ (s.wc = 2 => keyed.acct = AccountOf(s))
  BY <1>0 DEF Derived
<1> HIDE DEF a, keyed
<1>4. SlotsTrue(slots') /\ SameWallet(slots'[i], s)
  BY <1>0, <1>1, <1>2, RefreshedTrue, RefreshedKeeps DEF Straight
<1>5. Held(drv', s)
  BY <1>0, <1>1, <1>3, HeldFilled
<1>6. Held(drv', slots'[i]) /\ WordsOf(slots'[i]) = WordsOf(s) /\ slots'[i].wc = s.wc
  BY <1>4, <1>5, HeldSame
<1>7. QED BY <1>1, <1>4, <1>6, LoadedStraight

LEMMA DeleteStraight == ASSUME IInv, Straight, NEW i \in Slots, DeleteSlot(i) PROVE Straight'
<1> DEFINE left == [slots EXCEPT ![i] = EmptySlot]
           j == Lowest(Filled(left))
           s == left[j]
           a == MnemonicAccount(WordsOf(s), s.wc, s.pp)
<1>0. /\ slots \in [Slots -> SlotRecords] /\ \A k \in Slots : SlotOK(slots[k])
      /\ SlotsTrue(slots) /\ screen = "Menu" /\ screen' = screen
  BY DEF IInv, TypeOK, Straight, DeleteSlot
<1>1. /\ left \in [Slots -> SlotRecords] /\ \A k \in Slots : SlotOK(left[k])
      /\ \A k \in Slots : left[k] = IF k = i THEN EmptySlot ELSE slots[k]
  BY <1>0, EmptySlotOK
<1>2. SlotsTrue(left)
  BY <1>0, DeletedTrue
<1>3. CASE active # i
  <2>1. slots' = left /\ UNCHANGED <<active, words, wordCount, seedLoaded, drv, screen>>
    BY <1>0, <1>3 DEF DeleteSlot
  <2> HIDE DEF left
  <2>2. Selected' = Selected
    BY <1>1, <1>3, <2>1 DEF Selected
  <2>3. SessionWords => SessionWords'
    BY <2>1, <2>2 DEF SessionWords
  <2>4. QED BY <1>0, <1>2, <2>1, <2>2, <2>3 DEF Straight, Trimmed
<1>4. CASE active = i /\ Filled(left) = {}
  <2>1. slots' = left /\ ~seedLoaded'
    BY <1>4 DEF DeleteSlot
  <2>2. QED BY <1>0, <1>2, <2>1 DEF Straight, Trimmed
<1>5. CASE active = i /\ Filled(left) # {}
  <2>1. /\ slots' = Refreshed(left, j, s.wc, a) /\ active' = j /\ wordCount' = s.wc
        /\ words' = WordsOf(s)
        /\ drv' = IF s.wc = 2 THEN [NothingDerived EXCEPT !.acct = XAccount[s.lo]]
                  ELSE Primed(NothingDerived, a)
    BY <1>5 DEF DeleteSlot
  <2> HIDE DEF left
  <2>2. j \in Slots /\ s.wc # 0
    <3>1. Filled(left) \subseteq Nat
      BY SlotsAssumption DEF Filled, Slots
    <3>2. j \in Filled(left)
      BY <1>5, <3>1, LowestIn
    <3>3. QED BY <3>2 DEF Filled
  <2> HIDE DEF j
  <2>3. SlotOK(s) /\ s.wc \in Kinds
    BY <1>1, <2>2 DEF SlotOK, SlotRecords
  <2>4. a \in Accounts /\ (a = IF s.wc \in MnemonicKinds THEN AccountOf(s) ELSE NoAcct)
    BY <2>3, AccountOfType, MnemonicAccountOf
  <2> HIDE DEF s, a
  <2>5. SlotsTrue(slots') /\ SameWallet(slots'[j], s)
    BY <1>1, <1>2, <2>1, <2>2, <2>4, RefreshedTrue, RefreshedKeeps DEF s
  <2>6. Held(drv', s)
    <3>0. NothingDerived \in Derived
      BY NothingDerivedOK DEF DerivedOK
    <3>1. CASE s.wc \in MnemonicKinds
      <4>1. drv' = Primed(NothingDerived, AccountOf(s))
        BY <2>1, <2>4, <3>1 DEF MnemonicKinds
      <4>2. QED BY <2>3, <3>0, <3>1, <4>1, HeldPrimed
    <3>2. CASE s.wc = 2
      <4>1. AccountOf(s) = XAccount[s.lo]
        BY <3>2 DEF AccountOf, MnemonicKinds
      <4>2. /\ drv'.acct = AccountOf(s) /\ drv'.cached = FALSE
            /\ drv'.rxBank = <<>> /\ drv'.chgBank = <<>>
        BY <2>1, <3>2, <4>1 DEF NothingDerived
      <4>3. QED BY <3>2, <4>2 DEF Held, MnemonicKinds
    <3>3. CASE s.wc = 1
      <4>1. drv' = BanksCleared([NothingDerived EXCEPT !.acct = NoAcct])
        BY <2>1, <2>4, <3>3 DEF Primed, MnemonicKinds
      <4>2. drv'.cached = FALSE
        BY <4>1 DEF BanksCleared, NothingDerived
      <4>3. QED BY <3>3, <4>2 DEF Held, MnemonicKinds
    <3>4. QED BY <2>2, <2>3, <3>1, <3>2, <3>3 DEF Kinds, s
  <2>7. Held(drv', slots'[j]) /\ WordsOf(slots'[j]) = WordsOf(s) /\ slots'[j].wc = s.wc
    BY <2>5, <2>6, HeldSame
  <2>8. QED BY <1>0, <2>1, <2>2, <2>5, <2>7, LoadedStraight
<1>6. QED BY <1>3, <1>4, <1>5

LEMMA WipeStraight == ASSUME WipeSecrets PROVE Straight'
<1>1. SlotsTrue(slots') /\ ~seedLoaded'
  BY EmptyTrue DEF WipeSecrets
<1>2. screen' = "Menu"
  BY DEF WipeSecrets
<1>3. QED BY <1>1, <1>2 DEF Straight, Trimmed

LEMMA StraightStep == Detours = {} /\ IInv /\ Straight /\ [Next]_vars => Straight'
<1> SUFFICES ASSUME Detours = {}, IInv, Straight, [Next]_vars PROVE Straight'
  OBVIOUS
<1>1. CASE \/ \E wc \in MnemonicKinds : StartImport(wc) \/ StartTouch(wc)
           \/ TypeWords \/ FinishImport \/ LeaveImport \/ Generate \/ TouchDone
           \/ PassphraseBack \/ HomeFromEntry
  BY <1>1, EntryStraight
<1>2. CASE (\E pp \in Passphrases : PassphraseOk(pp)) \/ Bip85Child
  BY <1>2, LoadingStraight
<1>3. CASE \E k \in RawKeys : ImportTypedKey(k) \/ ImportKeyFile(k)
  BY <1>3, KeyImportStraight
<1>4. CASE \E x \in XKeys : ImportXprvFile(x)
  BY <1>4, ImportXprvStraight
<1>5. CASE \E i \in Slots : SelectSlot(i)
  BY <1>5, SelectStraight
<1>6. CASE \E i \in Slots : MultisigPickSeed(i)
  BY <1>6, MultisigPickStraight
<1>7. CASE \E i \in Slots : DeleteSlot(i)
  BY <1>7, DeleteStraight
<1>8. CASE WipeSecrets
  BY <1>8, WipeStraight
<1>9. CASE OpenAddress
  BY <1>9, OpenAddressStraight
<1>10. CASE \/ ToggleChain
            \/ \E i \in Indices : ViewIndex(i)
            \/ \E home \in BOOLEAN : LeaveAddress(home)
  BY <1>10, ViewStraight
<1>11. CASE PumpExt
  BY <1>11, PumpStraight
<1>12. CASE SignP2pk
  BY <1>12, SignStraight
<1>13. CASE UNCHANGED vars
  <2>1. UNCHANGED <<slots, active, words, wordCount, seedLoaded, drv, view, screen>>
    BY <1>13 DEF vars
  <2>2. Selected' = Selected
    BY <2>1 DEF Selected
  <2>3. QED BY <2>1, <2>2 DEF Straight, SessionWords, Trimmed
<1>14. QED
  BY <1>1, <1>2, <1>3, <1>4, <1>5, <1>6, <1>7, <1>8, <1>9, <1>10, <1>11, <1>12, <1>13
  DEF Next

(* While no detour is taken, the selected slot, the session words and what *)
(* was derived belong to one wallet, no wallet sits in two slots of a      *)
(* kind, and no 12-word mnemonic is stored with the tail of a longer one.  *)
THEOREM OneWalletThroughout == ASSUME Detours = {} PROVE Spec => []Straight
<1>1. Init => Straight
  BY StraightStarts
<1>2. IInv /\ Straight /\ [Next]_vars => Straight'
  BY StraightStep
<1>3. QED BY <1>1, <1>2, Inductive, PTL DEF Spec

(* What signs, what a word-based operation derives and what the banks hold *)
(* is of the selected wallet.                                              *)
THEOREM SignsForSelectedAlways == ASSUME Detours = {} PROVE Spec => []SignsForSelected
<1>1. ASSUME IInv, Straight PROVE SignsForSelected
  <2>1. SUFFICES ASSUME seedLoaded PROVE SignsForSelected
    BY DEF SignsForSelected
  <2>2. Held(drv, Selected)
    BY <2>1, <1>1 DEF Straight
  <2>3. ASSUME screen = "Menu"
        PROVE  /\ P2pkSigner = AccountOf(Selected)
               /\ SessionAccount \in {NoAcct, AccountOf(Selected)}
    <3>1. screen \notin EntryScreens
      BY <2>3 DEF EntryScreens, ImportScreens
    <3>2. P2pkSigner = AccountOf(Selected)
      BY <1>1, <2>1, <3>1, SessionFacts DEF P2pkSigner
    <3>3. CASE wordCount \in MnemonicKinds
      <4>1. SessionAccount = MnemonicAccount(WordsOf(Selected), Selected.wc, Selected.pp)
        BY <1>1, <2>1, <3>1, <3>3, SessionFacts DEF SessionAccount
      <4>2. SlotOK(Selected) /\ Selected.wc \in MnemonicKinds
        BY <1>1, <2>1, <3>1, <3>3, SessionFacts
      <4>3. QED BY <3>2, <4>1, <4>2, MnemonicAccountOf
    <3>4. CASE wordCount \notin MnemonicKinds
      BY <3>2, <3>4 DEF SessionAccount, MnemonicAccount
    <3>5. QED BY <3>2, <3>3, <3>4
  <2>4. QED BY <2>2, <2>3 DEF SignsForSelected, Held
<1>2. QED BY <1>1, Inductive, OneWalletThroughout, PTL

(* Caches flagged valid hold addresses of the selected wallet, and the     *)
(* address screen shows them at every index the caches cover. (An address  *)
(* derived on demand can be another wallet's: NoForeignAddress.)           *)
THEOREM ShowsSelectedAlways == ASSUME Detours = {} PROVE Spec => []ShowsSelected
<1>1. ASSUME IInv, Straight PROVE ShowsSelected
  <2>1. SUFFICES ASSUME seedLoaded PROVE ShowsSelected
    BY DEF ShowsSelected
  <2>2. Held(drv, Selected) /\ (screen = "ShowAddress" => drv.cached)
    BY <2>1, <1>1 DEF Straight
  <2>3. ASSUME screen = "ShowAddress", Selected.wc # 1,
               view.index < (IF view.change THEN ChgCached ELSE RxCached)
        PROVE  ShownAccount = AccountOf(Selected)
    <3>1. view.index \in Nat /\ view.change \in BOOLEAN /\ ChgCached \in Nat
      BY <1>1, SizesAssumption DEF IInv, TypeOK, Views, Indices
    <3>2. /\ drv.rx0 = AccountOf(Selected) /\ drv.rxRest = AccountOf(Selected)
          /\ drv.chg = AccountOf(Selected)
      BY <2>2, <2>3 DEF Held
    <3>3. CASE view.change
      BY <2>3, <3>1, <3>2, <3>3 DEF ShownAccount
    <3>4. CASE ~view.change /\ view.index = 0
      <4>1. RxCached \in Nat /\ ~(view.index >= RxCached)
        BY <2>3, <3>1, <3>4, SizesAssumption
      <4>2. ShownAccount = drv.rx0
        BY <3>4, <4>1 DEF ShownAccount
      <4>3. QED BY <3>2, <4>2
    <3>5. CASE ~view.change /\ view.index # 0
      <4>1. view.index < RxCached /\ RxCached \in Nat /\ ~(view.index >= RxCached)
        BY <2>3, <3>1, <3>5, SizesAssumption
      <4>2. ShownAccount = drv.rxRest
        BY <3>5, <4>1 DEF ShownAccount
      <4>3. QED BY <3>2, <4>2
    <3>6. QED BY <3>1, <3>3, <3>4, <3>5
  <2>4. QED BY <2>2, <2>3 DEF ShowsSelected, Held
<1>2. QED BY <1>1, Inductive, OneWalletThroughout, PTL

(* No wallet sits in two slots of a kind, and a fingerprint is that of the *)
(* wallet its slot holds: find_matching and find_by_fingerprint find what  *)
(* is loaded again.                                                        *)
THEOREM NoTwinsEver == ASSUME Detours = {} PROVE Spec => []NoTwins
<1>1. Straight => NoTwins
  BY DEF Straight, SlotsTrue, FpTrue, Twins, NoTwins
<1>2. QED BY <1>1, OneWalletThroughout, PTL
=============================================================================
