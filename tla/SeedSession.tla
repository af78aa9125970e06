---------------------------- MODULE SeedSession ----------------------------
(***************************************************************************)
(* The wallet session of the signing device: the seed slots of             *)
(* ui/seed_manager.rs, the session copy of the selected seed in AppData    *)
(* (mnemonic_indices, word_count), and everything derived from it that     *)
(* later operations trust: the account key, the display caches, the        *)
(* extended pubkey banks, the chain cache and the on-demand address keys.  *)
(*                                                                         *)
(* A derived value is represented by the ACCOUNT it belongs to. What is    *)
(* written to the slot, to the session words, to each cache and to each    *)
(* counter is kept step by step, because every hazard here is one of them  *)
(* belonging to another wallet than the selected one.                      *)
(*                                                                         *)
(* A word array (mnemonic_indices, [u16; 24]) is kept as its two halves,   *)
(* lo = words 0..11 and hi = words 12..23.                                 *)
(***************************************************************************)
EXTENDS Integers, FiniteSets, Sequences

CONSTANTS
  NSlots,       \* MAX_SLOTS of ui/seed_manager.rs (16 on the device)
  Halves,       \* the values twelve consecutive words can have
  Twelve,       \* the halves that are valid 12-word mnemonics
  TwentyFour,   \* the pairs of halves that are valid 24-word mnemonics
  Zero,         \* the half whose words are all 0
  Junk,         \* a half left half-typed: no mnemonic has it
  Passphrases,  \* BIP39 passphrases, NoPass among them
  NoPass,
  XKeys,        \* account-level xprvs that can be imported
  XAccount,     \* the account each xprv is the key of
  RawKeys,      \* single private keys that can be imported
  Depth,        \* EXT_BANK_DEPTH: capacity of each extended bank
  RxCached,     \* receive keys in pubkey_cache (20)
  ChgCached,    \* change keys in change_pubkey_cache (5)
  MaxIndex,     \* bound: largest address index the user looks at
  Detours       \* user behaviours admitted, see DetourKinds

Slots == 0 .. NSlots - 1
NoSlot == 255           \* seed_mgr.active == 0xFF
NoIndex == 65535        \* extra_pubkey_index == 0xFFFF
MnemonicKinds == {12, 24}
Kinds == {0, 1, 2} \cup MnemonicKinds

(* Behaviours outside the straight paths. LeaveEntry: an entry screen is   *)
(* left by the home button, back or cancel, or the checksum is wrong.      *)
(* FullDevice: a mnemonic is loaded while every slot is taken.             *)
(* SdKeyImport: an xprv or hex key file is imported while a wallet is      *)
(* loaded. TailLeft: a 12-word mnemonic is typed in over 24 words.         *)
DetourKinds == {"LeaveEntry", "FullDevice", "SdKeyImport", "TailLeft"}

Arrays == [lo : Halves, hi : Halves]
ZeroWords == [lo |-> Zero, hi |-> Zero]
TwelveWords(h) == [lo |-> h, hi |-> Zero]

Bodies == Halves \cup XKeys \cup RawKeys
Accounts == [wc : Kinds, lo : Bodies, hi : Bodies, pp : Passphrases]
NoAcct == [wc |-> 0, lo |-> Zero, hi |-> Zero, pp |-> NoPass]

(* The account derived from a word array. Words 12..23 are not read for a  *)
(* 12-word seed; any other count derives nothing.                          *)
MnemonicAccount(w, wc, pp) ==
  IF wc \in MnemonicKinds
  THEN [wc |-> wc, lo |-> w.lo, hi |-> IF wc = 12 THEN Zero ELSE w.hi, pp |-> pp]
  ELSE NoAcct

RawAccount(k) == [wc |-> 1, lo |-> k, hi |-> Zero, pp |-> NoPass]

SlotRecords == [wc : Kinds, lo : Bodies, hi : Bodies, pp : Passphrases, fp : Accounts]
EmptySlot == [wc |-> 0, lo |-> Zero, hi |-> Zero, pp |-> NoPass, fp |-> NoAcct]
WordsOf(s) == IF s.wc \in MnemonicKinds THEN [lo |-> s.lo, hi |-> s.hi] ELSE ZeroWords

(* The wallet a slot holds. *)
AccountOf(s) ==
  CASE s.wc \in MnemonicKinds -> MnemonicAccount([lo |-> s.lo, hi |-> s.hi], s.wc, s.pp)
    [] s.wc = 2 -> XAccount[s.lo]
    [] s.wc = 1 -> RawAccount(s.lo)
    [] OTHER -> NoAcct

ASSUME SlotsAssumption == NSlots \in 1 .. 200
ASSUME SizesAssumption == Depth \in Nat /\ RxCached \in Nat /\ ChgCached \in Nat
                          /\ MaxIndex \in 0 .. NoIndex - 1
ASSUME SeedsAssumption == /\ {Zero, Junk} \cup Twelve \subseteq Halves
                          /\ TwentyFour \subseteq Arrays
                          /\ NoPass \in Passphrases
ASSUME XAccountAssumption == XAccount \in [XKeys -> Accounts \ {NoAcct}]
ASSUME DetoursAssumption == Detours \subseteq DetourKinds

VARIABLES
  slots,       \* seed_mgr.slots
  active,      \* seed_mgr.active
  words,       \* mnemonic_indices
  wordCount,   \* word_count: slot kind, or words being entered
  seedLoaded,  \* seed_loaded
  drv,         \* what was derived, see Derived
  view,        \* the address view, see Views
  screen       \* AppState, all menus taken as one

vars == <<slots, active, words, wordCount, seedLoaded, drv, view, screen>>

(* acct is acct_key_raw, cached pubkeys_cached, rx0 pubkey_cache[0] and    *)
(* rxRest the rest of it, chg change_pubkey_cache, rxBank and chgBank the  *)
(* filled parts of ext_recv and ext_chg, chain the key chain_cache is of.  *)
Derived == [acct : Accounts, cached : BOOLEAN, rx0 : Accounts, rxRest : Accounts,
            chg : Accounts, rxBank : Seq(Accounts), chgBank : Seq(Accounts),
            chain : Accounts]
NothingDerived == [acct |-> NoAcct, cached |-> FALSE, rx0 |-> NoAcct, rxRest |-> NoAcct,
                   chg |-> NoAcct, rxBank |-> <<>>, chgBank |-> <<>>, chain |-> NoAcct]

(* current_addr_index, addr_view_is_change and the two on-demand keys.     *)
Indices == 0 .. MaxIndex
Views == [index : Indices, change : BOOLEAN,
          rxIdx : Indices \cup {NoIndex}, rxKey : Accounts,
          chgIdx : Indices \cup {NoIndex}, chgKey : Accounts]
FreshView == [index |-> 0, change |-> FALSE, rxIdx |-> NoIndex, rxKey |-> NoAcct,
              chgIdx |-> NoIndex, chgKey |-> NoAcct]

ImportScreens == {"ImportWord12", "ImportWord24"}
EntryScreens == ImportScreens \cup {"TouchEntropy", "PassphraseEntry"}
Screens == {"Menu", "ShowAddress"} \cup EntryScreens

TypeOK == /\ slots \in [Slots -> SlotRecords]
          /\ active \in Slots \cup {NoSlot}
          /\ words \in Arrays
          /\ wordCount \in Kinds
          /\ seedLoaded \in BOOLEAN
          /\ drv \in Derived
          /\ view \in Views
          /\ screen \in Screens

Init == /\ slots = [i \in Slots |-> EmptySlot]
        /\ active = NoSlot
        /\ words = ZeroWords
        /\ wordCount = 0
        /\ seedLoaded = FALSE
        /\ drv = NothingDerived
        /\ view = FreshView
        /\ screen = "Menu"

-----------------------------------------------------------------------------
(* The slot table. *)

Filled(sl) == {i \in Slots : sl[i].wc # 0}
Lowest(S) == CHOOSE i \in S : \A j \in S : i <= j

(* active_slot(): the selected slot, an empty one when there is none. *)
Selected == IF active \in Slots THEN slots[active] ELSE EmptySlot

(* Mutant: only 12-word slots are compared. *)
MutMatching(w, wc, pp) ==
  {i \in Slots : /\ wc = 12 /\ slots[i].wc = 12
                 /\ slots[i].lo = w.lo /\ slots[i].hi = w.hi /\ slots[i].pp = pp}

(* find_matching: the whole 24-entry array is compared. *)
Matching(w, wc, pp) ==
  {i \in Slots : /\ slots[i].wc = wc /\ slots[i].lo = w.lo /\ slots[i].hi = w.hi
                 /\ slots[i].pp = pp}

(* find_by_fingerprint: only slots of the kind asked for. *)
ByFingerprint(fp, wc) ==
  {i \in Slots : slots[i].wc = wc /\ slots[i].fp = fp /\ fp # NoAcct}

(* The slot a store ends in: one that holds it already, else the first     *)
(* free one, else none.                                                    *)
Place(same) == IF same # {} THEN Lowest(same)
               ELSE IF Filled(slots) # Slots THEN Lowest(Slots \ Filled(slots)) ELSE NoSlot

WithSlot(i, s) == IF slots[i].wc = 0 THEN [slots EXCEPT ![i] = s] ELSE slots

(* refresh_active_fingerprint, the account key being a's. *)
Refreshed(sl, i, wc, a) ==
  IF i \in Slots /\ wc \in MnemonicKinds /\ a # NoAcct /\ sl[i].wc # 0
  THEN [sl EXCEPT ![i].fp = a] ELSE sl

-----------------------------------------------------------------------------
(* Derivation. Each operator is the value of drv after the function ran.   *)

CachesFrom(d, a) == [d EXCEPT !.rx0 = a, !.rxRest = a, !.chg = a, !.cached = TRUE]

BanksCleared(d) == [d EXCEPT !.rxBank = <<>>, !.chgBank = <<>>, !.chain = NoAcct]

(* prime_after_seed_load: for a mnemonic a is its account, else NoAcct and *)
(* the function stops after the wipe.                                      *)
Primed(d, a) ==
  LET wiped == BanksCleared([d EXCEPT !.acct = NoAcct])
  IN  IF a = NoAcct THEN wiped ELSE CachesFrom([wiped EXCEPT !.acct = a], a)

(* Mutant: for an xprv only the receive cache is filled. *)
MutFilledCaches(d, w, wc, s) ==
  LET a == MnemonicAccount(w, wc, s.pp)
  IN  CASE wc \in MnemonicKinds -> CachesFrom([d EXCEPT !.acct = a], a)
        [] wc = 2 /\ d.acct # NoAcct ->
             [d EXCEPT !.rx0 = d.acct, !.rxRest = d.acct, !.cached = TRUE]
        [] wc = 1 /\ s.wc = 1 -> [d EXCEPT !.rx0 = RawAccount(s.lo), !.cached = TRUE]
        [] OTHER -> d

(* fill_display_caches, dispatching on word_count, s being the active slot *)
FilledCaches(d, w, wc, s) ==
  LET a == MnemonicAccount(w, wc, s.pp)
  IN  CASE wc \in MnemonicKinds -> CachesFrom([d EXCEPT !.acct = a], a)
        [] wc = 2 /\ d.acct # NoAcct -> CachesFrom(d, d.acct)
        [] wc = 1 /\ s.wc = 1 -> [d EXCEPT !.rx0 = RawAccount(s.lo), !.cached = TRUE]
        [] OTHER -> d

(* What derive_seed gives a word-based operation: message signing, kpub,   *)
(* xprv and 45' key export, BIP85, stealth scan, decryption.               *)
SessionAccount == MnemonicAccount(words, wordCount, Selected.pp)

(* ensure_session_account_key. *)
EnsuredAccount(d) == IF d.acct # NoAcct THEN d ELSE [d EXCEPT !.acct = SessionAccount]

-----------------------------------------------------------------------------
(* Entering a mnemonic. It reaches the session words first and is stored   *)
(* only when the passphrase is confirmed.                                  *)

(* load_active_mnemonic when a slot takes the mnemonic.                    *)
LoadMnemonic(w, wc, pp) ==
  LET i == Place(Matching(w, wc, pp))
      a == MnemonicAccount(w, wc, pp)
      s == [wc |-> wc, lo |-> w.lo, hi |-> w.hi, pp |-> pp, fp |-> NoAcct]
  IN  /\ i # NoSlot
      /\ slots' = Refreshed(WithSlot(i, s), i, wc, a)
      /\ active' = i
      /\ seedLoaded' = TRUE
      /\ drv' = Primed([drv EXCEPT !.cached = FALSE], a)
      /\ view' = [view EXCEPT !.index = 0, !.rxIdx = NoIndex]

(* load_active_mnemonic with every slot taken: only the keyboard is reset. *)
DeviceFull(w, wc, pp) ==
  /\ "FullDevice" \in Detours
  /\ Place(Matching(w, wc, pp)) = NoSlot
  /\ UNCHANGED <<slots, active, seedLoaded, drv, view>>

(* Import Words and Calc Last Word write word by word into the array.      *)
StartImport(wc) ==
  /\ screen = "Menu"
  /\ screen' = IF wc = 12 THEN "ImportWord12" ELSE "ImportWord24"
  /\ UNCHANGED <<slots, active, words, wordCount, seedLoaded, drv, view>>

TypeWords ==
  /\ \/ /\ screen = "ImportWord12"
        /\ words' = [words EXCEPT !.lo = Junk]
     \/ /\ screen = "ImportWord24"
        /\ words' \in {[words EXCEPT !.lo = Junk], [lo |-> Junk, hi |-> Junk]}
  /\ UNCHANGED <<slots, active, wordCount, seedLoaded, drv, view, screen>>

FinishImport ==
  /\ \/ /\ screen = "ImportWord12"
        /\ words.hi # Zero => "TailLeft" \in Detours
        /\ \E h \in Twelve : words' = [words EXCEPT !.lo = h]
        /\ wordCount' = 12
     \/ /\ screen = "ImportWord24"
        /\ words' \in TwentyFour
        /\ wordCount' = 24
  /\ screen' = "PassphraseEntry"
  /\ UNCHANGED <<slots, active, seedLoaded, drv, view>>

(* Back, cancel, or an invalid checksum after the last word. *)
LeaveImport == /\ screen \in ImportScreens
               /\ "LeaveEntry" \in Detours
               /\ screen' = "Menu"
               /\ UNCHANGED <<slots, active, words, wordCount, seedLoaded, drv, view>>

(* Dice, hardware entropy, SeedQR, SD restore and stego recovery all write *)
(* a whole zero-padded array.                                              *)
Generate ==
  /\ screen = "Menu"
  /\ \/ \E h \in Twelve : words' = TwelveWords(h) /\ wordCount' = 12
     \/ \E w \in TwentyFour : words' = w /\ wordCount' = 24
  /\ screen' = "PassphraseEntry"
  /\ UNCHANGED <<slots, active, seedLoaded, drv, view>>

(* Touch Seed keeps the chosen length in word_count while collecting.      *)
StartTouch(wc) ==
  /\ screen = "Menu"
  /\ wordCount' = wc
  /\ screen' = "TouchEntropy"
  /\ UNCHANGED <<slots, active, words, seedLoaded, drv, view>>

TouchDone ==
  /\ screen = "TouchEntropy"
  /\ words' \in IF wordCount = 24 THEN TwentyFour ELSE {TwelveWords(h) : h \in Twelve}
  /\ wordCount' = IF wordCount = 24 THEN 24 ELSE 12
  /\ screen' = "PassphraseEntry"
  /\ UNCHANGED <<slots, active, seedLoaded, drv, view>>

PassphraseBack == /\ screen = "PassphraseEntry"
                  /\ words' = ZeroWords
                  /\ wordCount' = 0
                  /\ screen' = "Menu"
                  /\ UNCHANGED <<slots, active, seedLoaded, drv, view>>

PassphraseOk(pp) ==
  /\ screen = "PassphraseEntry"
  /\ \/ LoadMnemonic(words, wordCount, pp)
     \/ DeviceFull(words, wordCount, pp)
  /\ screen' = "Menu"
  /\ UNCHANGED <<words, wordCount>>

(* The home button leaves any entry screen and clears nothing. *)
HomeFromEntry == /\ screen \in EntryScreens
                 /\ "LeaveEntry" \in Detours
                 /\ screen' = "Menu"
                 /\ UNCHANGED <<slots, active, words, wordCount, seedLoaded, drv, view>>

(* BIP85: the child is published to the session, then loaded. *)
Bip85Child ==
  /\ screen = "Menu" /\ seedLoaded /\ wordCount \in MnemonicKinds
  /\ \/ \E h \in Twelve : words' = TwelveWords(h) /\ wordCount' = 12
     \/ \E w \in TwentyFour : words' = w /\ wordCount' = 24
  /\ \/ LoadMnemonic(words', wordCount', NoPass)
     \/ DeviceFull(words', wordCount', NoPass)
  /\ UNCHANGED screen

-----------------------------------------------------------------------------
(* Importing keys. *)

RawSlot(k) == [wc |-> 1, lo |-> k, hi |-> Zero, pp |-> NoPass, fp |-> RawAccount(k)]
XprvSlot(x) == [wc |-> 2, lo |-> x, hi |-> Zero, pp |-> NoPass, fp |-> XAccount[x]]

(* store_raw_key and activate, common to the keyboard and the card.        *)
StoreRawKey(k) ==
  LET i == Place(ByFingerprint(RawAccount(k), 1))
  IN  /\ i # NoSlot
      /\ slots' = WithSlot(i, RawSlot(k))
      /\ active' = i
      /\ seedLoaded' = TRUE
      /\ wordCount' = 1
      /\ view' = [view EXCEPT !.index = 0, !.rxIdx = NoIndex]
      /\ UNCHANGED <<words, screen>>

ImportTypedKey(k) ==
  /\ screen = "Menu"
  /\ StoreRawKey(k)
  /\ drv' = [Primed(drv, NoAcct) EXCEPT !.rx0 = RawAccount(k), !.cached = TRUE]

(* A hex key file: nothing of the previous wallet is wiped. *)
ImportKeyFile(k) ==
  /\ screen = "Menu"
  /\ seedLoaded => "SdKeyImport" \in Detours
  /\ StoreRawKey(k)
  /\ drv' = [drv EXCEPT !.rx0 = RawAccount(k), !.cached = TRUE]

(* An xprv file, plain or encrypted. The account key and the display       *)
(* caches are overwritten before a slot is looked for.                     *)
ImportXprvFile(x) ==
  LET i == Place(ByFingerprint(XAccount[x], 2))
      keyed == [drv EXCEPT !.acct = XAccount[x], !.rx0 = XAccount[x],
                           !.rxRest = XAccount[x], !.chg = XAccount[x]]
  IN  /\ screen = "Menu"
      /\ seedLoaded => "SdKeyImport" \in Detours
      /\ \/ /\ i # NoSlot
            /\ slots' = WithSlot(i, XprvSlot(x))
            /\ active' = i
            /\ seedLoaded' = TRUE
            /\ wordCount' = 2
            /\ drv' = [keyed EXCEPT !.cached = TRUE]
            /\ view' = [view EXCEPT !.index = 0, !.rxIdx = NoIndex]
         \/ /\ i = NoSlot
            /\ drv' = keyed
            /\ UNCHANGED <<slots, active, seedLoaded, wordCount, view>>
      /\ UNCHANGED <<words, screen>>

-----------------------------------------------------------------------------
(* Selecting and deleting slots. *)

(* Mutant: any account key held counts as the one of the tapped slot.      *)
MutSelectSlot(i) ==
  LET s == slots[i]
      warm == drv.acct # NoAcct
      cold == [drv EXCEPT !.cached = FALSE]
      a == MnemonicAccount(WordsOf(s), s.wc, s.pp)
  IN  /\ screen = "Menu" /\ s.wc # 0
      /\ active' = i
      /\ wordCount' = s.wc
      /\ words' = WordsOf(s)
      /\ seedLoaded' = TRUE
      /\ view' = [view EXCEPT !.index = 0, !.rxIdx = NoIndex]
      /\ CASE s.wc = 2 ->
                /\ drv' = FilledCaches(BanksCleared([cold EXCEPT !.acct = XAccount[s.lo]]),
                                       WordsOf(s), 2, s)
                /\ UNCHANGED slots
           [] s.wc = 1 ->
                /\ drv' = FilledCaches(BanksCleared([cold EXCEPT !.acct = NoAcct]),
                                       WordsOf(s), 1, s)
                /\ UNCHANGED slots
           [] s.wc \in MnemonicKinds /\ warm ->
                /\ drv' = [drv EXCEPT !.cached = TRUE]
                /\ UNCHANGED slots
           [] OTHER ->
                /\ drv' = Primed(cold, a)
                /\ slots' = Refreshed(slots, i, s.wc, a)
      /\ UNCHANGED screen

(* A tap on a card of the seed list. *)
SelectSlot(i) ==
  LET s == slots[i]
      warm == active = i /\ drv.acct # NoAcct
      cold == [drv EXCEPT !.cached = FALSE]
      a == MnemonicAccount(WordsOf(s), s.wc, s.pp)
  IN  /\ screen = "Menu" /\ s.wc # 0
      /\ active' = i
      /\ wordCount' = s.wc
      /\ words' = WordsOf(s)
      /\ seedLoaded' = TRUE
      /\ view' = [view EXCEPT !.index = 0, !.rxIdx = NoIndex]
      /\ CASE s.wc = 2 ->
                /\ drv' = FilledCaches(BanksCleared([cold EXCEPT !.acct = XAccount[s.lo]]),
                                       WordsOf(s), 2, s)
                /\ UNCHANGED slots
           [] s.wc = 1 ->
                /\ drv' = FilledCaches(BanksCleared([cold EXCEPT !.acct = NoAcct]),
                                       WordsOf(s), 1, s)
                /\ UNCHANGED slots
           [] s.wc \in MnemonicKinds /\ warm ->
                /\ drv' = [drv EXCEPT !.cached = TRUE]
                /\ UNCHANGED slots
           [] OTHER ->
                /\ drv' = Primed(cold, a)
                /\ slots' = Refreshed(slots, i, s.wc, a)
      /\ UNCHANGED screen

(* A tap on a card of the multisig seed picker. Nothing is reloaded for    *)
(* the active slot while the caches are flagged valid.                     *)
MultisigPickSeed(i) ==
  LET s == slots[i]
      keyed == IF s.wc = 2 THEN [drv EXCEPT !.acct = XAccount[s.lo]] ELSE drv
      a == MnemonicAccount(WordsOf(s), s.wc, s.pp)
  IN  /\ screen = "Menu" /\ s.wc # 0
      /\ ~(active = i /\ drv.cached)
      /\ active' = i
      /\ wordCount' = s.wc
      /\ words' = WordsOf(s)
      /\ seedLoaded' = TRUE
      /\ drv' = FilledCaches(BanksCleared(keyed), WordsOf(s), s.wc, s)
      /\ slots' = Refreshed(slots, i, s.wc, a)
      /\ UNCHANGED <<view, screen>>

(* Hold-to-delete. Deleting the active slot wipes what was derived, then   *)
(* falls back to the first slot still filled.                              *)
DeleteSlot(i) ==
  LET left == [slots EXCEPT ![i] = EmptySlot]
      j == Lowest(Filled(left))
      s == left[j]
      a == MnemonicAccount(WordsOf(s), s.wc, s.pp)
  IN  /\ screen = "Menu" /\ slots[i].wc # 0
      /\ \/ /\ active # i
            /\ slots' = left
            /\ UNCHANGED <<active, words, wordCount, seedLoaded, drv, view>>
         \/ /\ active = i /\ Filled(left) = {}
            /\ slots' = left
            /\ active' = NoSlot
            /\ seedLoaded' = FALSE
            /\ drv' = NothingDerived
            /\ view' = [view EXCEPT !.index = 0, !.rxIdx = NoIndex, !.rxKey = NoAcct]
            /\ UNCHANGED <<words, wordCount>>
         \/ /\ active = i /\ Filled(left) # {}
            /\ slots' = Refreshed(left, j, s.wc, a)
            /\ active' = j
            /\ seedLoaded' = TRUE
            /\ wordCount' = s.wc
            /\ words' = WordsOf(s)
            /\ drv' = IF s.wc = 2 THEN [NothingDerived EXCEPT !.acct = XAccount[s.lo]]
                      ELSE Primed(NothingDerived, a)
            /\ view' = [view EXCEPT !.index = 0, !.rxIdx = NoIndex, !.rxKey = NoAcct]
      /\ UNCHANGED screen

(* Mutant: the wipe leaves what was derived. *)
MutWipeSecrets ==
  /\ seedLoaded \/ screen = "Menu"
  /\ slots' = [i \in Slots |-> EmptySlot]
  /\ active' = NoSlot
  /\ words' = ZeroWords
  /\ wordCount' = 0
  /\ seedLoaded' = FALSE
  /\ screen' = "Menu"
  /\ UNCHANGED <<drv, view>>

(* wipe_secrets, by the idle timer on any screen or by the duress corner.  *)
WipeSecrets ==
  /\ seedLoaded \/ screen = "Menu"
  /\ slots' = [i \in Slots |-> EmptySlot]
  /\ active' = NoSlot
  /\ words' = ZeroWords
  /\ wordCount' = 0
  /\ seedLoaded' = FALSE
  /\ drv' = NothingDerived
  /\ screen' = "Menu"
  /\ UNCHANGED view

-----------------------------------------------------------------------------
(* Using the session. *)

(* Address, from the seed list or the tools menu: the caches are filled    *)
(* from the slot when they are not valid, the view is not reset.           *)
OpenAddress ==
  LET a == MnemonicAccount(words, IF wordCount = 12 THEN 12 ELSE 24, Selected.pp)
  IN  /\ screen = "Menu" /\ seedLoaded
      /\ drv' = CASE drv.cached -> drv
                  [] ~drv.cached /\ Selected.wc = 1 ->
                       [drv EXCEPT !.rx0 = RawAccount(Selected.lo), !.cached = TRUE]
                  [] ~drv.cached /\ Selected.wc = 2 ->
                       IF drv.acct = NoAcct THEN [drv EXCEPT !.cached = TRUE]
                       ELSE CachesFrom(drv, drv.acct)
                  [] OTHER -> CachesFrom([drv EXCEPT !.acct = a], a)
      /\ screen' = "ShowAddress"
      /\ UNCHANGED <<slots, active, words, wordCount, seedLoaded, view>>

SingleAddress == wordCount = 1

ToggleChain == /\ screen = "ShowAddress" /\ ~SingleAddress
               /\ view' = [view EXCEPT !.change = ~view.change, !.index = 0]
               /\ UNCHANGED <<slots, active, words, wordCount, seedLoaded, drv, screen>>

(* Next, previous, or an index typed in: a key beyond the cache is derived *)
(* on demand unless the on-demand slot is already marked with that index.  *)
ViewIndex(i) ==
  LET wantChg == view.change /\ i >= ChgCached /\ view.chgIdx # i
      wantRx == ~view.change /\ i >= RxCached /\ view.rxIdx # i
  IN  /\ screen = "ShowAddress" /\ ~SingleAddress
      /\ view' = [view EXCEPT !.index = i,
                              !.chgIdx = IF wantChg THEN i ELSE @,
                              !.chgKey = IF wantChg THEN drv.acct ELSE @,
                              !.rxIdx = IF wantRx THEN i ELSE @,
                              !.rxKey = IF wantRx THEN drv.acct ELSE @]
      /\ UNCHANGED <<slots, active, words, wordCount, seedLoaded, drv, screen>>

(* The back button resets the chain shown, the home button does not.       *)
LeaveAddress(home) ==
  /\ screen = "ShowAddress"
  /\ view' = IF home THEN view ELSE [view EXCEPT !.change = FALSE]
  /\ screen' = "Menu"
  /\ UNCHANGED <<slots, active, words, wordCount, seedLoaded, drv>>

(* The account whose key the address screen encodes.                       *)
ShownAccount ==
  CASE view.change /\ view.index < ChgCached -> drv.chg
    [] view.change /\ view.index >= ChgCached /\ view.chgIdx = view.index -> view.chgKey
    [] ~view.change /\ view.index = 0 -> drv.rx0
    [] ~view.change /\ view.index # 0 /\ view.index < RxCached -> drv.rxRest
    [] ~view.change /\ view.index >= RxCached /\ view.rxIdx = view.index -> view.rxKey
    [] OTHER -> NoAcct

(* Mutant: a chain cache that exists is used, whatever it was built from.  *)
MutChainFor(d) == IF d.chain # NoAcct THEN d.chain ELSE d.acct

(* ensure_chain_cache: rebuilt unless it was built from this account key.  *)
ChainFor(d) == IF d.chain = d.acct THEN d.chain ELSE d.acct

(* One idle tick of pump_ext_pubkeys on the main menu. *)
PumpExt ==
  LET rx == Len(drv.rxBank)
      chg == Len(drv.chgBank)
      chain == ChainFor(drv)
  IN  /\ screen = "Menu"
      /\ \/ /\ drv.acct = NoAcct /\ seedLoaded /\ wordCount \in MnemonicKinds
            /\ drv' = EnsuredAccount(drv)
         \/ /\ drv.acct # NoAcct /\ rx <= chg /\ rx < Depth
            /\ drv' = [drv EXCEPT !.chain = chain, !.rxBank = Append(@, chain)]
         \/ /\ drv.acct # NoAcct /\ ~(rx <= chg /\ rx < Depth) /\ chg < Depth
            /\ drv' = [drv EXCEPT !.chain = chain, !.chgBank = Append(@, chain)]
      /\ UNCHANGED <<slots, active, words, wordCount, seedLoaded, view, screen>>

(* A bank extended to n entries with keys of account a. *)
Extended(bank, n, a) == [k \in 1 .. n |-> IF k <= Len(bank) THEN bank[k] ELSE a]

(* The fill fronts ext_scan_find can stop at: it derives one key at a time *)
(* of the shorter chain until the target is found or both banks are full.  *)
ScanStops(rx, chg) ==
  {st \in (rx .. Depth) \X (chg .. Depth) :
     /\ st[1] > rx => st[1] <= st[2] + 1 \/ st[2] = Depth
     /\ st[2] > chg => st[2] <= st[1] \/ st[1] = Depth}

(* The last step of signing a P2PK transaction (handle_signing_step): the  *)
(* display caches if they are not valid, then the raw key of the slot, or  *)
(* the session account key and a bank scan for each input.                 *)
SignP2pk ==
  LET d == IF drv.cached THEN drv ELSE FilledCaches(drv, words, wordCount, Selected)
      k == IF wordCount = 2 THEN d ELSE EnsuredAccount(d)
      fresh == ~drv.cached /\ wordCount \in MnemonicKinds
  IN  /\ screen = "Menu" /\ seedLoaded
      /\ slots' = IF fresh THEN Refreshed(slots, active, wordCount, d.acct) ELSE slots
      /\ \/ /\ Selected.wc = 1
            /\ drv' = d
         \/ /\ Selected.wc # 1 /\ k.acct = NoAcct
            /\ drv' = k
         \/ /\ Selected.wc # 1 /\ k.acct # NoAcct
            /\ \E st \in ScanStops(Len(k.rxBank), Len(k.chgBank)) :
                 drv' = [k EXCEPT !.rxBank = Extended(@, st[1], k.acct),
                                  !.chgBank = Extended(@, st[2], k.acct)]
      /\ UNCHANGED <<active, words, wordCount, seedLoaded, view, screen>>

(* The account whose key signs a P2PK input of that transaction.           *)
P2pkSigner == CASE Selected.wc = 1 -> AccountOf(Selected)
                [] Selected.wc # 1 /\ drv.acct # NoAcct -> drv.acct
                [] Selected.wc # 1 /\ drv.acct = NoAcct /\ wordCount # 2 -> SessionAccount
                [] OTHER -> NoAcct

-----------------------------------------------------------------------------
Next == \/ \E wc \in MnemonicKinds : StartImport(wc)
        \/ TypeWords \/ FinishImport \/ LeaveImport
        \/ Generate
        \/ \E wc \in MnemonicKinds : StartTouch(wc)
        \/ TouchDone
        \/ PassphraseBack
        \/ \E pp \in Passphrases : PassphraseOk(pp)
        \/ HomeFromEntry
        \/ Bip85Child
        \/ \E k \in RawKeys : ImportTypedKey(k)
        \/ \E k \in RawKeys : ImportKeyFile(k)
        \/ \E x \in XKeys : ImportXprvFile(x)
        \/ \E i \in Slots : SelectSlot(i)
        \/ \E i \in Slots : MultisigPickSeed(i)
        \/ \E i \in Slots : DeleteSlot(i)
        \/ WipeSecrets
        \/ OpenAddress \/ ToggleChain
        \/ \E i \in Indices : ViewIndex(i)
        \/ \E home \in BOOLEAN : LeaveAddress(home)
        \/ PumpExt \/ SignP2pk

Spec == Init /\ [][Next]_vars

-----------------------------------------------------------------------------
(* Properties: whatever the user does. *)

(* A wallet counts as loaded exactly while a filled slot is selected.      *)
(* sign_and_serialize_multisig indexes slots[active] without a check, so   *)
(* seed_loaded with active = 0xFF would panic in the middle of signing.    *)
SelectedSlotUsable == seedLoaded <=> active \in Slots /\ slots[active].wc # 0

(* With no wallet loaded no slot is filled and nothing derived survives:   *)
(* no account key, bank, chain key or valid-flag of a deleted wallet.      *)
NoWalletNothingDerived ==
  ~seedLoaded => Filled(slots) = {} /\ drv = NothingDerived

(* ext_scan_find and the idle pump keep the two bank fronts together, so a *)
(* change-chain key at index i costs at most 2i + 2 derivations.           *)
FrontsTogether == Len(drv.chgBank) \in {Len(drv.rxBank), Len(drv.rxBank) - 1}

(* A key added to a bank is always one of the account key held then, also  *)
(* when the chain cache was built for a wallet selected before.            *)
BanksGrowFromAccount ==
  [][/\ Len(drv'.rxBank) > Len(drv.rxBank) => drv'.rxBank[Len(drv'.rxBank)] = drv'.acct
     /\ Len(drv'.chgBank) > Len(drv.chgBank) => drv'.chgBank[Len(drv'.chgBank)] = drv'.acct]_vars

(* Seen from outside, the slots are a shelf of wallets: whatever was typed,*)
(* derived or cached before, a step only puts a wallet in an empty place,  *)
(* removes one, or chooses one.                                            *)
Shelf == INSTANCE WalletShelf WITH
           Places <- Slots, Wallets <- Accounts, Nothing <- NoAcct, NoPlace <- NoSlot,
           shelf <- [i \in Slots |-> AccountOf(slots[i])], chosen <- active
ShelfKept == Shelf!ShelfSpec

-----------------------------------------------------------------------------
(* Properties: on the straight paths (Detours = {}). *)

(* What signs a P2PK input is a key of the selected wallet; a word-based   *)
(* operation derives the selected wallet or refuses; and the banks the     *)
(* signer searches hold keys of the account that signs, so an input found  *)
(* there is signed with the key it pays to.                                *)
SignsForSelected ==
  seedLoaded =>
    /\ screen = "Menu" => /\ P2pkSigner = AccountOf(Selected)
                         /\ SessionAccount \in {NoAcct, AccountOf(Selected)}
    /\ Selected.wc # 1 =>
         /\ \A k \in 1 .. Len(drv.rxBank) : drv.rxBank[k] = AccountOf(Selected)
         /\ \A k \in 1 .. Len(drv.chgBank) : drv.chgBank[k] = AccountOf(Selected)

(* Caches flagged valid hold addresses of the selected wallet, and so does *)
(* the address screen when it shows one of them.                           *)
ShowsSelected ==
  seedLoaded =>
    /\ drv.cached =>
         /\ drv.rx0 = AccountOf(Selected)
         /\ Selected.wc # 1 => drv.rxRest = AccountOf(Selected) /\ drv.chg = AccountOf(Selected)
    /\ (/\ screen = "ShowAddress" /\ Selected.wc # 1
        /\ view.index < (IF view.change THEN ChgCached ELSE RxCached))
         => ShownAccount = AccountOf(Selected)

(* No wallet sits in two slots of a kind: what is loaded again is found    *)
(* again, be it compared by all its words or by its fingerprint, which is  *)
(* that of the wallet the slot holds. (A mnemonic and the xprv of its      *)
(* wallet are of two kinds and may both be there.)                         *)
NoTwins ==
  /\ \A i \in Slots : slots[i].fp # NoAcct => slots[i].fp = AccountOf(slots[i])
  /\ \A i, j \in Filled(slots) :
       slots[i].wc = slots[j].wc /\ AccountOf(slots[i]) = AccountOf(slots[j]) => i = j

-----------------------------------------------------------------------------
(* Statements of the repository that runs refute. *)

(* ui/seed_manager.rs: "the tail beyond word_count is zero in every stored *)
(* slot", which find_matching relies on.                                   *)
TailIsZero == \A i \in Slots : slots[i].wc = 12 => slots[i].hi = Zero

(* app/data.rs: the on-demand keys are marked empty by 0xFFFF, and the     *)
(* change one mirrors the receive one, which a wallet switch marks empty:  *)
(* no address of a wallet selected before is shown for the selected one.   *)
NoForeignAddress ==
  screen = "ShowAddress" /\ seedLoaded /\ Selected.wc # 1
    => ShownAccount \in {NoAcct, AccountOf(Selected)}

(* handlers/seed.rs: a seed abandoned at the passphrase screen is not left *)
(* in RAM.                                                                 *)
AbandonedSeedGone ==
  [][screen = "PassphraseEntry" /\ screen' = "Menu" /\ slots' = slots /\ active' = active
       => words' \in {ZeroWords} \cup {WordsOf(slots[i]) : i \in Slots}]_vars

(* app/signing.rs: "Standard P2PK: sign with active slot seed", also after *)
(* a key file was refused.                                                 *)
OneSlotSigns == seedLoaded /\ screen = "Menu" => P2pkSigner \in {NoAcct, AccountOf(Selected)}
=============================================================================
