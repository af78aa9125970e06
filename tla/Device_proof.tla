---------------------------- MODULE Device_proof ----------------------------
(***************************************************************************)
(* Proofs about Device and about SignRequest, the two halves of what the   *)
(* person at the signer meets.                                             *)
(***************************************************************************)
EXTENDS Device, SignRequest, NaturalsInduction, WellFoundedInduction, TLAPS

(***************************************************************************)
(* Device: the types of the fields that the proofs rest on.                *)
(***************************************************************************)
Origins == {"addr", "desc", "kpub", "tx"}
PpTypes == {"empty", "name", "text"}
SeedKinds == Kinds \cup {None}
Keys == [Cosigners -> Owners \cup {Nobody}]
AdFields ==
  {"screen", "seed", "pp", "file", "buf", "nframes", "safe", "viaDensity", "kpub", "kuser", "kn",
   "origin", "txt", "list", "first", "pickedKsp", "covb", "ms", "keyIdx", "picking", "scanHash",
   "fromFile", "text", "hash", "scanned", "addrReturn", "kpubReturn", "backupReturn",
   "deleteReturn", "owNext", "owBack"}
Content0(b) == /\ DOMAIN b = {"kind", "enc", "size"}
               /\ b.enc \in BOOLEAN /\ b.size \in 0 .. TooLong
Wallet(ms) == /\ DOMAIN ms = {"n", "keys", "active", "built"}
              /\ ms.n \in {0, NCosigners} /\ ms.keys \in Keys
              /\ ms.active \in BOOLEAN /\ ms.built \in BOOLEAN
AdTyped(a) ==
  /\ DOMAIN a = AdFields
  /\ a.seed \in SeedKinds /\ a.pp \in PpTypes /\ a.file \in {None, "KAS", "KSP", "TXT"}
  /\ Content0(a.buf) /\ a.nframes \in 0 .. TooLong /\ a.safe \in BOOLEAN
  /\ a.kpub \in {None, "kpub", "addr"} /\ a.kuser \in 0 .. 2 /\ a.kn \in 0 .. 2
  /\ a.origin \in Origins /\ a.txt \in {"addr", "desc", "kpub"} /\ a.covb \in BOOLEAN
  /\ Wallet(a.ms) /\ a.keyIdx \in Cosigners
  /\ a.addrReturn \in {"SeedList", "SeedToolsMenu"} /\ a.kpubReturn = "WatchOnlyMenu"
  /\ a.backupReturn \in {"SeedList", "SeedToolsMenu", "SeedBackupMenu"}
  /\ a.deleteReturn \in {"MainMenu", "SdKpubFileList"}
HistFields == {"theme", "visits", "named", "exists", "agreed", "secret", "written"}
HistTyped(h) == /\ DOMAIN h = HistFields
                /\ h.theme \in Themes
                /\ h.exists \in BOOLEAN /\ h.agreed \in BOOLEAN /\ h.secret \in BOOLEAN

(***************************************************************************)
(* What holds of the fields on the screens that need it.                   *)
(***************************************************************************)
\* The places below the one asked for have keys, no key is there twice, and a
\* wallet in use has all of them and its script.
Filled(ms) == \A i \in Cosigners : ms.keys[i] # Nobody
Apart(ms) == \A i, j \in Cosigners : ms.keys[i] = ms.keys[j] /\ ms.keys[i] # Nobody => i = j
Below(ms, i) == ms.n > 0 => \A j \in Cosigners : j < i => ms.keys[j] # Nobody
WalletKept ==
  /\ Apart(ad.ms) /\ Below(ad.ms, ad.keyIdx)
  /\ ad.ms.active => ad.ms.built /\ Filled(ad.ms)

\* A covenant that waits for its name is in the buffer.
CovKept ==
  ad.covb => /\ ad.buf.kind = "cov"
             /\ At("CovBackupName") \/ (At("MainMenu") /\ ad.first = "typed")

(***************************************************************************)
(* The flows that end in a file: its naming screen, the screen that        *)
(* follows, the warning between them and the passphrase behind them.       *)
(***************************************************************************)
Asks == [SdSeedFilename |-> "SdBackupPassphrase", SdXprvFilename |-> "SdXprvExportPassphrase",
         SdKsptFilename |-> "SdKsptEncryptAsk", SdKpubFilename |-> "SdKpubEncryptAsk",
         SdMsAddrFilename |-> "SdMsAddrEncryptAsk", SdMsDescFilename |-> "SdMsDescEncryptAsk"]
Asked == {Asks[s] : s \in DOMAIN Asks}

Warned(naming) == At("SdOverwriteWarning") /\ ad.owBack = naming
Encrypts(ext, origins) ==
  At("SdKsptEncryptPass") /\ ad.file = ext /\ ad.origin \in origins

FrameCountFits == ad.nframes > 0 => ad.nframes = FramesOf(ad.buf, ad.safe)

SeedFlow ==
  At("SdSeedFilename") \/ Warned("SdSeedFilename") \/ At("SdBackupPassphrase")
    => hist.named = "seed"
XprvFlow ==
  At("SdXprvFilename") \/ Warned("SdXprvFilename") \/ At("SdXprvExportPassphrase")
    => hist.named = "xprv"
SigFlow == At("SdSigFilename") => hist.named = "sig"
KsptScreens ==
  \/ At("SdKsptFilename") \/ Warned("SdKsptFilename") \/ At("SdKsptEncryptAsk")
  \/ Encrypts("KSP", Origins)
KpubScreens ==
  \/ At("SdKpubFilename") \/ Warned("SdKpubFilename") \/ At("SdKpubEncryptAsk")
  \/ Encrypts("TXT", {"kpub"})
AddrScreens ==
  \/ At("SdMsAddrFilename") \/ Warned("SdMsAddrFilename") \/ At("SdMsAddrEncryptAsk")
  \/ Encrypts("TXT", {"addr", "tx"})
DescScreens ==
  \/ At("SdMsDescFilename") \/ Warned("SdMsDescFilename") \/ At("SdMsDescEncryptAsk")
  \/ Encrypts("TXT", {"desc"})
TxtAsked ==
  \/ AtOneOf({"SdKpubEncryptAsk", "SdMsAddrEncryptAsk", "SdMsDescEncryptAsk"})
  \/ Warned("SdKpubFilename") \/ Warned("SdMsAddrFilename") \/ Warned("SdMsDescFilename")

KsptFlow == KsptScreens => hist.named = ad.buf.kind /\ ~ad.buf.enc /\ FrameCountFits
KpubFlow ==
  /\ KpubScreens => hist.named = "kpub" /\ ad.kpub = "kpub"
  /\ Encrypts("TXT", {"kpub"}) => ad.buf.kind = "kpub"
AddrFlow ==
  /\ AddrScreens => hist.named = "addr" /\ ad.kpub = "addr"
  /\ Encrypts("TXT", {"addr", "tx"}) => ad.buf.kind = "addr"
DescFlow == DescScreens => hist.named = "desc" /\ ad.buf.kind = "desc" /\ ~ad.buf.enc
\* The extension is set with the name, and consent comes before the question.
Consent ==
  /\ At("SdKsptEncryptAsk") \/ Warned("SdKsptFilename") => ad.file = "KSP"
  /\ TxtAsked => ad.file = "TXT"
  /\ At("SdOverwriteWarning") => ad.owBack \in DOMAIN Asks /\ ad.owNext = Asks[ad.owBack]
  /\ AtOneOf(Asked) \/ (At("SdKsptEncryptPass") /\ Saving) => (hist.exists => hist.agreed)
  /\ At("SdKsptEncryptPass") /\ Saving => hist.secret
Flows ==
  /\ SeedFlow /\ XprvFlow /\ SigFlow /\ KsptFlow /\ KpubFlow /\ AddrFlow /\ DescFlow
  /\ Consent

\* What is shown in frames.
Shown ==
  /\ AtOneOf({"ShowQR", "ShowQrPopup", "ShowQrModeChoice"}) => FrameCountFits
  /\ AtOneOf({"ShowQR", "ShowQrPopup", "ShowQrModeChoice", "ShowQrFrameChoice",
              "ShowQrDensityChoice"}) => ~ad.buf.enc
  /\ AtOneOf({"ExportKpub", "ExportKpubPopup", "ExportKpubModeChoice",
              "ExportKpubFrameCount", "KpubScannedPopup"}) => ad.kpub = "kpub"
  /\ AtOneOf({"ExportKpub", "ExportKpubPopup", "ExportKpubModeChoice"}) => ad.kn = ad.kuser
  /\ At("ExportKpubFrameCount") => ad.kn = 0

\* The text on the screen is hashed, also one screen later if back leads here.
TextKept ==
  /\ At("SignMsgPreview") => ad.text = ad.hash
  /\ At("SignMsgHashPreview") /\ ad.fromFile => ad.text = ad.hash

\* Screens with a condition on them.

Watched ==
  {"CovBackupName", "SdSeedFilename", "SdXprvFilename", "SdSigFilename", "SdKsptFilename",
   "SdKpubFilename", "SdMsAddrFilename", "SdMsDescFilename", "SdBackupPassphrase",
   "SdXprvExportPassphrase", "SdKsptEncryptAsk", "SdKpubEncryptAsk", "SdMsAddrEncryptAsk",
   "SdMsDescEncryptAsk", "SdOverwriteWarning", "SdKsptEncryptPass", "ShowQR", "ShowQrPopup",
   "ShowQrModeChoice", "ShowQrFrameChoice", "ShowQrDensityChoice", "ExportKpub",
   "ExportKpubPopup", "ExportKpubModeChoice", "ExportKpubFrameCount", "KpubScannedPopup",
   "SignMsgPreview", "SignMsgHashPreview"}
Free(s) == s \notin Watched

ScreenKept == CovKept /\ Flows /\ Shown /\ TextKept
Good == AdTyped(ad) /\ HistTyped(hist) /\ WalletKept /\ ScreenKept /\ SavedIsAsked

(***************************************************************************)
(* Steps to a screen without a condition, no covenant waiting, that leave  *)
(* the multisig wallet alone.  What else they write does not matter.       *)
(***************************************************************************)
Quiet == ~ad.covb /\ UNCHANGED hist
Calm == ~ad'.covb /\ Free(ad'.screen)
Aside == ad'.ms = ad.ms /\ ad'.keyIdx = ad.keyIdx /\ Calm

LEMMA CalmScreen ==
  ASSUME Calm
  PROVE  ScreenKept'
<1>1. CovKept'
  BY DEF CovKept, Calm
<1>2. Flows'
  BY DEF Calm, Free, Watched, Flows, SeedFlow, XprvFlow, SigFlow, KsptFlow, KpubFlow, AddrFlow,
     DescFlow, Consent, Asked, Asks, At, AtOneOf, Encrypts, Warned, KsptScreens, KpubScreens,
     AddrScreens, DescScreens, TxtAsked
<1>3. Shown' /\ TextKept'
  BY DEF Calm, Free, Watched, Shown, TextKept, At, AtOneOf
<1> QED
  BY <1>1, <1>2, <1>3 DEF ScreenKept

LEMMA Calmed ==
  ASSUME Good, AdTyped(ad'), WalletKept', Calm, UNCHANGED hist
  PROVE  Good'
BY CalmScreen DEF Good, SavedIsAsked, HistTyped

LEMMA WalletSame ==
  ASSUME Good, ad'.ms = ad.ms, ad'.keyIdx = ad.keyIdx
  PROVE  WalletKept'
BY DEF Good, WalletKept, Apart, Below, Filled

LEMMA StepAside ==
  ASSUME Good, AdTyped(ad'), Aside, UNCHANGED hist
  PROVE  Good'
BY Calmed, WalletSame DEF Aside

LEMMA GoFree ==
  ASSUME Good, Quiet, NEW s, Free(s), Go(s)
  PROVE  Good'
BY StepAside DEF Go, Quiet, Good, AdTyped, AdFields, Aside, Calm

LEMMA MenuFree ==
  ASSUME Good, ~ad.covb, NEW back, NEW here, NEW left, NEW items,
         Free(left), \A s \in items : Free(s), Menu(back, here, left, items)
  PROVE  Good'
BY GoFree DEF Menu, Quiet

LEMMA WritesPp ==
  ASSUME Good, Quiet, NEW s, Free(s), NEW p \in PpTypes,
         ad' = [ad EXCEPT !.pp = p, !.screen = s]
  PROVE  Good'
BY StepAside DEF Quiet, Good, AdTyped, AdFields, Aside, Calm

LEMMA WritesText ==
  ASSUME Good, Quiet, NEW s, Free(s), NEW t,
         ad' = [ad EXCEPT !.text = t, !.screen = s]
  PROVE  Good'
BY StepAside DEF Quiet, Good, AdTyped, AdFields, Aside, Calm

LEMMA WritesPpText ==
  ASSUME Good, Quiet, NEW s, Free(s), NEW p \in PpTypes, NEW t,
         ad' = [ad EXCEPT !.pp = p, !.text = t, !.screen = s]
  PROVE  Good'
BY StepAside DEF Quiet, Good, AdTyped, AdFields, Aside, Calm

LEMMA WritesSeed ==
  ASSUME Good, Quiet, NEW s, Free(s), NEW k \in SeedKinds,
         ad' = [ad EXCEPT !.seed = k, !.screen = s]
  PROVE  Good'
BY StepAside DEF Quiet, Good, AdTyped, AdFields, Aside, Calm

LEMMA ListsFiles ==
  ASSUME Good, Quiet, NEW s, Free(s), NEW l, NEW f,
         ad' = [ad EXCEPT !.list = l, !.first = f, !.screen = s]
  PROVE  Good'
BY StepAside DEF Quiet, Good, AdTyped, AdFields, Aside, Calm

LEMMA ListsKsp ==
  ASSUME Good, Quiet, NEW s, Free(s), NEW l, NEW f, NEW o \in Origins,
         ad' = [ad EXCEPT !.list = l, !.first = f, !.origin = o, !.screen = s]
  PROVE  Good'
BY StepAside DEF Quiet, Good, AdTyped, AdFields, Aside, Calm

LEMMA ListsTxt ==
  ASSUME Good, Quiet, NEW s, Free(s), NEW l, NEW f, NEW x \in {"addr", "desc", "kpub"},
         ad' = [ad EXCEPT !.list = l, !.first = f, !.txt = x, !.screen = s]
  PROVE  Good'
BY StepAside DEF Quiet, Good, AdTyped, AdFields, Aside, Calm

LEMMA DropsFrames ==
  ASSUME Good, Quiet, NEW s, Free(s), NEW n \in 0 .. TooLong, NEW d \in BOOLEAN, NEW v,
         ad' = [ad EXCEPT !.nframes = n, !.safe = d, !.viaDensity = v, !.screen = s]
  PROVE  Good'
BY StepAside DEF Quiet, Good, AdTyped, AdFields, Aside, Calm

LEMMA ShowsAddress ==
  ASSUME Good, Quiet, NEW s, Free(s), NEW b, NEW r \in {"SeedList", "SeedToolsMenu"},
         ad' = [ad EXCEPT !.scanned = b, !.addrReturn = r, !.screen = s]
  PROVE  Good'
BY StepAside DEF Quiet, Good, AdTyped, AdFields, Aside, Calm

LEMMA LeavesAddress ==
  ASSUME Good, Quiet, NEW s, Free(s), NEW b,
         ad' = [ad EXCEPT !.scanned = b, !.screen = s]
  PROVE  Good'
BY StepAside DEF Quiet, Good, AdTyped, AdFields, Aside, Calm

LEMMA WritesPicking ==
  ASSUME Good, Quiet, NEW s, Free(s), NEW b,
         ad' = [ad EXCEPT !.picking = b, !.screen = s]
  PROVE  Good'
BY StepAside DEF Quiet, Good, AdTyped, AdFields, Aside, Calm

LEMMA WritesScanHash ==
  ASSUME Good, Quiet, NEW s, Free(s), NEW b,
         ad' = [ad EXCEPT !.scanHash = b, !.screen = s]
  PROVE  Good'
BY StepAside DEF Quiet, Good, AdTyped, AdFields, Aside, Calm

LEMMA WritesBackup ==
  ASSUME Good, Quiet, NEW s, Free(s), NEW r \in {"SeedList", "SeedToolsMenu",
         "SeedBackupMenu"},
         ad' = [ad EXCEPT !.backupReturn = r, !.screen = s]
  PROVE  Good'
BY StepAside DEF Quiet, Good, AdTyped, AdFields, Aside, Calm

LEMMA WritesReturn ==
  ASSUME Good, Quiet, NEW s, Free(s), NEW r \in {"MainMenu", "SdKpubFileList"},
         ad' = [ad EXCEPT !.deleteReturn = r, !.screen = s]
  PROVE  Good'
BY StepAside DEF Quiet, Good, AdTyped, AdFields, Aside, Calm

LEMMA StoresSeed ==
  ASSUME Good, Quiet, NEW s, Free(s), NEW p \in PpTypes, NEW k \in SeedKinds,
         ad' = [ad EXCEPT !.pp = p, !.seed = k, !.screen = s]
  PROVE  Good'
BY StepAside DEF Quiet, Good, AdTyped, AdFields, Aside, Calm

LEMMA ClearIs ==
  ASSUME NEW k, NEW n \in {Single, Several, TooLong}
  PROVE  Content0(Clear(k, n)) /\ ~Clear(k, n).enc /\ Clear(k, n).kind = k
BY DEF Content0, Clear, Single, Several, TooLong

(***************************************************************************)
(* The first place without a key.                                          *)
(***************************************************************************)
LEMMA Least ==
  ASSUME NEW T, T \subseteq Nat, T # {}
  PROVE  \E x \in T : \A y \in T : x <= y
<1>1. IsWellFoundedOn({ss \in Nat \X Nat : ss[1] < ss[2]}, Nat)
  BY Zenon, NatLessThanWellFounded DEF OpToRel
<1>2. PICK x \in T : \A y \in T : ~ (<<y, x>> \in {ss \in Nat \X Nat : ss[1] < ss[2]})
  BY <1>1, WFMin, Zenon
<1>3. ASSUME NEW y \in T PROVE x <= y
  <2>1. x \in Nat /\ y \in Nat /\ <<y, x>> \in Nat \X Nat
    OBVIOUS
  <2>2. ~(y < x)
    BY <1>2, <2>1, Zenon
  <2> QED
    BY <2>1, <2>2
<1> QED
  BY <1>3

LEMMA FirstEmptyIs ==
  ASSUME NEW ms, Wallet(ms)
  PROVE  FirstEmpty(ms) \in Cosigners /\ Below(ms, FirstEmpty(ms))
<1> DEFINE free == {i \in Cosigners : ms.keys[i] = Nobody}
<1>1. CASE free = {}
  BY <1>1, NCosignersAssumption DEF FirstEmpty, Cosigners, Below
<1>2. CASE free # {}
  <2>1. PICK x \in free : \A y \in free : x <= y
    <3>1. free \subseteq Nat
      BY NCosignersAssumption DEF Cosigners
    <3> HIDE DEF free
    <3> QED
      BY <1>2, <3>1, Least
  <2> HIDE DEF free
  <2>2. FirstEmpty(ms) \in free /\ \A y \in free : FirstEmpty(ms) <= y
    BY <1>2, <2>1 DEF FirstEmpty, free
  <2> QED
    BY <2>2, NCosignersAssumption DEF free, Below, Cosigners
<1> QED
  BY <1>1, <1>2

\* Asking for the first empty place is as good as asking for the next.
LEMMA AskedNext ==
  ASSUME Good, AdTyped(ad'), ad'.ms = ad.ms, ad'.keyIdx = FirstEmpty(ad.ms), Calm, UNCHANGED hist
  PROVE  Good'
<1>1. WalletKept'
  BY FirstEmptyIs DEF Good, AdTyped, WalletKept, Apart, Below, Filled
<1> QED
  BY <1>1, Calmed

LEMMA NoWalletIs == Wallet(NoWallet)
BY NCosignersAssumption DEF Wallet, NoWallet, Keys, Nobody, Cosigners

LEMMA BareKept ==
  ASSUME ad'.ms = NoWallet
  PROVE  WalletKept'
BY DEF WalletKept, NoWallet, Apart, Below, Nobody

LEMMA TouchMenusKeep ==
  ASSUME Good, ~ad.covb, NEW back \in BOOLEAN, TouchMenus(back)
  PROVE  Good'
<1>1. CASE SeedsMenu(back)
  BY <1>1, MenuFree DEF SeedsMenu, Free, Watched
<1>2. CASE ToolsMenu(back)
  BY <1>2, MenuFree DEF ToolsMenu, Free, Watched
<1>3. CASE SeedToolsMenu(back)
  <2>1. Free("ToolsMenu") /\ Free("ChooseWordCount") /\ Free("ShowAddress")
    BY DEF Free, Watched
  <2> QED
    BY <1>3, <2>1, GoFree, ShowsAddress, Zenon DEF SeedToolsMenu, OpenAddress, Quiet
<1>4. CASE ImportExportChoice(back)
  BY <1>4, MenuFree DEF ImportExportChoice, WithSeed, SeedLoaded, Free, Watched
<1>5. CASE ImportMenu(back)
  <2>1. Free("SdFileList")
    BY DEF Free, Watched
  <2>2. ASSUME Menu(back, "ImportMenu", "ImportExportChoice", {"SdImportMenu",
     "StegoImportPick", "ImportPrivKey"})
        PROVE  Good'
    BY <2>2, MenuFree DEF Free, Watched
  <2> QED
    BY <1>5, <2>1, <2>2, ListsFiles, Zenon DEF ImportMenu, Quiet
<1>6. CASE SingleSigMenu(back)
  <2>1. Free("DecryptSecretScan") /\ (\A s \in {"SignMsgChoice", "CommitRevealType"} :
     Free(s))
    BY DEF Free, Watched
  <2>2. ASSUME Menu(back, "SingleSigMenu", "ToolsMenu", {"SignTxGuide"})
        PROVE  Good'
    BY <2>2, MenuFree DEF Free, Watched
  <2> QED
    BY <1>6, <2>1, <2>2, WritesPpText, WritesText, Zenon DEF SingleSigMenu, PpTypes, Quiet
<1>7. CASE MultisigMenu(back)
  <2>1. CASE Go("ToolsMenu")
    BY <1>7, <2>1, GoFree DEF MultisigMenu, Quiet, Free, Watched
  <2>2. CASE ad' = [ad EXCEPT !.ms = NoWallet, !.screen = "MultisigChooseMN"]
    <3>1. AdTyped(ad') /\ Calm /\ ad'.ms = NoWallet
      BY <2>2, NoWalletIs DEF Good, AdTyped, AdFields, Calm, Free, Watched
    <3> QED
      BY <1>7, <3>1, BareKept, Calmed DEF MultisigMenu
  <2> QED
    BY <1>7, <2>1, <2>2 DEF MultisigMenu
<1>8. CASE DiceRoll(back)
  <2>1. Free("ToolsMenu") /\ Free("PassphraseEntry")
    BY DEF Free, Watched
  <2> QED
    BY <1>8, <2>1, GoFree, WritesPp, Zenon DEF DiceRoll, AskPassphrase, PpTypes, Quiet
<1>9. CASE TouchEntropy(back)
  <2>1. Free("PassphraseEntry")
    BY DEF Free, Watched
  <2> QED
    BY <1>9, <2>1, WritesPp, Zenon DEF TouchEntropy, AskPassphrase, PpTypes, Quiet
<1>10. CASE ChooseWordCount(back)
  <2>1. Free("ToolsMenu") /\ Free("PassphraseEntry")
    BY DEF Free, Watched
  <2>2. ASSUME Menu(back, "ChooseWordCount", "SeedToolsMenu", WordScreens)
        PROVE  Good'
    BY <2>2, MenuFree DEF Free, Watched, WordScreens, WithSeed
  <2> QED
    BY <1>10, <2>1, <2>2, GoFree, WritesPp, Zenon DEF ChooseWordCount, EntropyGate,
       AskPassphrase, PpTypes, Quiet
<1>11. CASE SettingsMenu(back)
  BY <1>11, MenuFree DEF SettingsMenu, Free, Watched
<1>12. CASE DisplaySettings(back)
  BY <1>12, MenuFree DEF DisplaySettings, Free, Watched
<1>13. CASE SdCardSettings(back)
  BY <1>13, MenuFree DEF SdCardSettings, Free, Watched
<1>14. CASE About(back)
  BY <1>14, MenuFree DEF About, Free, Watched
<1>15. CASE CameraSettings(back)
  BY <1>15, MenuFree DEF CameraSettings, Free, Watched
<1>16. CASE Rejected(back)
  BY <1>16, MenuFree DEF Rejected, Free, Watched
<1> QED
  BY <1>1, <1>2, <1>3, <1>4, <1>5, <1>6, <1>7, <1>8, <1>9, <1>10, <1>11, <1>12, <1>13,
     <1>14, <1>15, <1>16 DEF TouchMenus

LEMMA KeepsSeed ==
  ASSUME Good, Quiet, NEW k \in SeedKinds, ad' = [ad EXCEPT !.seed = k], Free(ad.screen)
  PROVE  Good'
BY StepAside DEF Quiet, Good, AdTyped, AdFields, Aside, Calm

LEMMA TouchSeedsKeep ==
  ASSUME Good, ~ad.covb, NEW back \in BOOLEAN, TouchSeeds(back)
  PROVE  Good'
<1>1. CASE Bip85Index(back)
  BY <1>1, MenuFree DEF Bip85Index, SeedLoaded, Free, Watched
<1>2. CASE Bip85ShowWord(back)
  BY <1>2, MenuFree DEF Bip85ShowWord, Free, Watched
<1>3. CASE ImportPrivKey(back)
  <2>1. Free("ImportMenu") /\ Free("SeedsMenu")
    BY DEF Free, Watched
  <2> QED
    BY <1>3, <2>1, GoFree, WritesSeed, Zenon DEF ImportPrivKey, SeedKinds, Kinds, Quiet
<1>4. CASE ImportWord(back)
  <2>1. Free("SeedToolsMenu") /\ Free("PassphraseEntry")
    BY DEF Free, Watched
  <2> QED
    BY <1>4, <2>1, GoFree, WritesPp, Zenon DEF ImportWord, WordsEntered, PpTypes, Quiet
<1>5. CASE CalcLastWord(back)
  <2>1. Free("SeedToolsMenu") /\ Free("PassphraseEntry")
    BY DEF Free, Watched
  <2> QED
    BY <1>5, <2>1, GoFree, WritesPp, Zenon DEF CalcLastWord, WordsEntered, PpTypes, Quiet
<1>6. CASE PassphraseEntry(back)
  <2>1. CASE ad' = [[ad EXCEPT !.pp = "empty"] EXCEPT !.screen = "SeedToolsMenu"]
    BY <1>6, <2>1, StepAside DEF PassphraseEntry, Good, AdTyped, AdFields, PpTypes, Aside, Calm, Free, Watched
  <2>2. CASE ad' = [[ad EXCEPT !.pp = "empty"] EXCEPT !.seed = "words", !.keyIdx = FirstEmpty(ad.ms),
                                                      !.screen = "MultisigPickSeed"]
    <3>1. FirstEmpty(ad.ms) \in Cosigners
      BY FirstEmptyIs DEF Good, AdTyped
    <3>2. AdTyped(ad') /\ ad'.ms = ad.ms /\ ad'.keyIdx = FirstEmpty(ad.ms) /\ Calm
      BY <2>2, <3>1 DEF Good, AdTyped, AdFields, PpTypes, SeedKinds, Kinds, Calm, Free, Watched
    <3> QED
      BY <1>6, <3>2, AskedNext DEF PassphraseEntry
  <2>3. CASE ad' = [[ad EXCEPT !.pp = "empty"] EXCEPT !.seed = "words", !.backupReturn = "SeedToolsMenu",
                                                      !.screen = "SeedBackup"]
    BY <1>6, <2>3, StepAside DEF PassphraseEntry, Good, AdTyped, AdFields, PpTypes, SeedKinds, Kinds, Aside, Calm, Free, Watched
  <2> QED
    BY <1>6, <2>1, <2>2, <2>3, Zenon DEF PassphraseEntry
<1>7. CASE SeedList(back)
  <2>1. Free("MainMenu") /\ Free("ToolsMenu") /\ Free("SeedToolsMenu") /\
     Free("ShowAddress") /\ Free("SeedList") /\ Free("ConfirmDeleteSeed") /\ Free(IF ad.seed
     = "raw" THEN "ExportPrivKey" ELSE "ExportChoice")
    BY DEF Free, Watched
  <2> QED
    BY <1>7, <2>1, GoFree, ShowsAddress, KeepsSeed, Zenon DEF SeedList, SeedKinds, Kinds, At,
       Quiet
<1>8. CASE ConfirmDeleteSeed(back)
  <2>1. PICK k \in SeedKinds : ad' = [ad EXCEPT !.seed = k, !.screen = "SeedList"]
    BY <1>8 DEF ConfirmDeleteSeed, Good, AdTyped, SeedKinds
  <2> QED
    BY <1>8, <2>1, WritesSeed DEF ConfirmDeleteSeed, Quiet, Free, Watched
<1> QED
  BY <1>1, <1>2, <1>3, <1>4, <1>5, <1>6, <1>7, <1>8 DEF TouchSeeds

(***************************************************************************)
(* Steps to a screen that shows a payload or a public key in frames.       *)
(***************************************************************************)
QrShown == {"ShowQR", "ShowQrPopup", "ShowQrModeChoice"}
QrAsked == {"ShowQrFrameChoice", "ShowQrDensityChoice"}
Beside == ad'.ms = ad.ms /\ ad'.keyIdx = ad.keyIdx /\ ~ad'.covb

LEMMA ShowsPayload ==
  ASSUME Good, AdTyped(ad'), Beside, UNCHANGED hist, ~ad'.buf.enc,
         \/ ad'.screen \in QrAsked
         \/ ad'.screen \in QrShown /\ (ad'.nframes > 0 => ad'.nframes = FramesOf(ad'.buf, ad'.safe))
  PROVE  Good'
<1>1. WalletKept'
  BY WalletSame DEF Beside
<1>2. CovKept'
  BY DEF CovKept, Beside
<1>3. Flows'
  BY DEF QrAsked, QrShown, Flows, SeedFlow, XprvFlow, SigFlow, KsptFlow, KpubFlow, AddrFlow,
     DescFlow, Consent, Asked, Asks, At, AtOneOf, Encrypts, Warned, KsptScreens, KpubScreens,
     AddrScreens, DescScreens, TxtAsked
<1>4. Shown' /\ TextKept'
  BY DEF QrAsked, QrShown, Shown, TextKept, FrameCountFits, At, AtOneOf
<1>5. SavedIsAsked'
  BY DEF Good, SavedIsAsked
<1> QED
  BY <1>1, <1>2, <1>3, <1>4, <1>5 DEF Good, ScreenKept, HistTyped

\* As it is drawn, a count is that of the payload drawn.
LEMMA DrawsPayload ==
  ASSUME Good, NEW a, AdTyped(a), a.ms = ad.ms, a.keyIdx = ad.keyIdx, ~a.covb,
         ~a.buf.enc, a.screen = "ShowQR", UNCHANGED hist, ad' = Redrawn(a),
         a.nframes > 0 => a.nframes = FramesOf(a.buf, a.safe)
  PROVE  Good'
<1> DEFINE n == FramesOf(a.buf, a.safe)
<1>1. ad' = RedrawnQR(a)
  BY DEF Redrawn
<1>2. CASE ad' = a
  BY <1>2, ShowsPayload DEF Beside, QrShown
<1>3. CASE ad' = [a EXCEPT !.screen = "Rejected"]
  BY <1>3, StepAside DEF AdTyped, AdFields, Aside, Calm, Free, Watched
<1>4. CASE ad' = [a EXCEPT !.screen = "ShowQrModeChoice", !.nframes = n] /\ n <= TooLong
  <2>1. n \in 0 .. TooLong
    BY <1>4 DEF AdTyped, Content0, FramesOf, TooLong
  <2> HIDE DEF n
  <2>2. AdTyped(ad') /\ Beside /\ ad'.screen = "ShowQrModeChoice" /\ ad'.buf = a.buf
        /\ ad'.safe = a.safe /\ ad'.nframes = n
    BY <1>4, <2>1 DEF AdTyped, AdFields, Beside
  <2>3. n = FramesOf(ad'.buf, ad'.safe)
    BY <2>2 DEF n
  <2> QED
    BY <2>2, <2>3, ShowsPayload DEF QrShown
<1>5. n \in Nat
  BY DEF AdTyped, Content0, FramesOf, TooLong
<1> QED
  BY <1>1, <1>2, <1>3, <1>4, <1>5 DEF RedrawnQR, TooLong

LEMMA ShowsKpub ==
  ASSUME Good, AdTyped(ad'), Beside, UNCHANGED hist, ad'.kpub = "kpub",
         \/ ad'.screen \in {"ExportKpub", "ExportKpubPopup", "ExportKpubModeChoice"}
              /\ ad'.kn = ad'.kuser
         \/ ad'.screen = "ExportKpubFrameCount" /\ ad'.kn = 0
         \/ ad'.screen = "KpubScannedPopup"
  PROVE  Good'
<1>1. WalletKept'
  BY WalletSame DEF Beside
<1>2. CovKept'
  BY DEF CovKept, Beside
<1>3. Flows'
  BY DEF Flows, SeedFlow, XprvFlow, SigFlow, KsptFlow, KpubFlow, AddrFlow,
     DescFlow, Consent, Asked, Asks, At, AtOneOf, Encrypts, Warned, KsptScreens, KpubScreens,
     AddrScreens, DescScreens, TxtAsked
<1>4. Shown' /\ TextKept'
  BY DEF Shown, TextKept, FrameCountFits, At, AtOneOf
<1>5. SavedIsAsked'
  BY DEF Good, SavedIsAsked
<1> QED
  BY <1>1, <1>2, <1>3, <1>4, <1>5 DEF Good, ScreenKept, HistTyped

\* As it is drawn, a key gets the number of frames asked for.
LEMMA DrawsKpub ==
  ASSUME Good, NEW a, AdTyped(a), a.ms = ad.ms, a.keyIdx = ad.keyIdx, ~a.covb,
         a.kpub = "kpub", a.screen = "ExportKpub", UNCHANGED hist, ad' = Redrawn(a),
         a.kn = 0 \/ a.kn = a.kuser
  PROVE  Good'
<1>1. ad' = RedrawnKpub(a)
  BY DEF Redrawn
<1>2. CASE ad' = a /\ a.kn = a.kuser
  BY <1>2, ShowsKpub DEF Beside
<1>3. CASE ad' = [a EXCEPT !.screen = "ExportKpubFrameCount"] /\ a.kn = 0
  <2>1. AdTyped(ad') /\ Beside /\ ad'.screen = "ExportKpubFrameCount" /\ ad'.kpub = "kpub" /\ ad'.kn = 0
    BY <1>3 DEF AdTyped, AdFields, Beside
  <2> QED
    BY <2>1, ShowsKpub
<1>4. CASE ad' = [a EXCEPT !.kn = 1] /\ a.kuser = 1
  <2>1. AdTyped(ad') /\ Beside /\ ad'.screen = "ExportKpub" /\ ad'.kpub = "kpub"
        /\ ad'.kn = ad'.kuser
    BY <1>4 DEF AdTyped, AdFields, Beside
  <2> QED
    BY <2>1, ShowsKpub
<1>5. CASE ad' = [a EXCEPT !.screen = "ExportKpubModeChoice", !.kn = a.kuser]
  <2>1. AdTyped(ad') /\ Beside /\ ad'.screen = "ExportKpubModeChoice" /\ ad'.kpub = "kpub"
        /\ ad'.kn = ad'.kuser
    BY <1>5 DEF AdTyped, AdFields, Beside
  <2> QED
    BY <2>1, ShowsKpub
<1> QED
  BY <1>1, <1>2, <1>3, <1>4, <1>5 DEF RedrawnKpub, None

LEMMA CovNamed ==
  ASSUME Good, NEW back \in BOOLEAN, CovBackupName(back)
  PROVE  Good'
<1>1. UNCHANGED hist
  BY DEF CovBackupName
<1>2. CASE ad' = [ad EXCEPT !.pp = "empty", !.covb = FALSE, !.screen = "MainMenu"]
  BY <1>1, <1>2, StepAside DEF Good, AdTyped, AdFields, PpTypes, Aside, Calm, Free,
     Watched
<1>3. CASE ad' = [ad EXCEPT !.first = "typed", !.pp = "empty", !.screen = "MainMenu"]
  <2>1. AdTyped(ad') /\ ad'.screen = "MainMenu" /\ ad'.first = "typed" /\ ad'.ms = ad.ms
        /\ ad'.keyIdx = ad.keyIdx /\ ad'.covb = ad.covb /\ ad'.buf = ad.buf
    BY <1>3 DEF Good, AdTyped, AdFields, PpTypes
  <2>2. CovKept'
    BY <2>1 DEF Good, ScreenKept, CovKept, At
  <2>3. Flows' /\ Shown' /\ TextKept'
    BY <2>1 DEF Flows, SeedFlow, XprvFlow, SigFlow, KsptFlow, KpubFlow, AddrFlow, DescFlow,
       Consent, Asked, Asks, At, AtOneOf, Encrypts, Warned, KsptScreens, KpubScreens,
     AddrScreens, DescScreens, TxtAsked, Shown, TextKept
  <2>4. HistTyped(hist') /\ SavedIsAsked'
    BY <1>1 DEF Good, HistTyped, SavedIsAsked
  <2> QED
    BY <2>1, <2>2, <2>3, <2>4, WalletSame DEF Good, ScreenKept
<1> QED
  BY <1>2, <1>3 DEF CovBackupName

(***************************************************************************)
(* Steps to a screen of a flow that ends in a file.                        *)
(***************************************************************************)
FlowScreens == DOMAIN Asks \cup Asked \cup {"SdSigFilename", "SdOverwriteWarning",
                                            "SdKsptEncryptPass"}

LEMMA FlowGoesOn ==
  ASSUME Good, AdTyped(ad'), Beside, HistTyped(hist'), Flows', SavedIsAsked',
         ad'.screen \in FlowScreens
  PROVE  Good'
<1>1. WalletKept'
  BY WalletSame DEF Beside
<1>2. CovKept'
  BY DEF CovKept, Beside
<1>3. Shown' /\ TextKept'
  BY DEF FlowScreens, Asks, Asked, Shown, TextKept, At, AtOneOf
<1> QED
  BY <1>1, <1>2, <1>3 DEF Good, ScreenKept

\* What the name asked for on a screen must be that of.
NameFits(a, kind) ==
  \/ a.screen = "SdSeedFilename" /\ kind = "seed"
  \/ a.screen = "SdXprvFilename" /\ kind = "xprv"
  \/ a.screen = "SdSigFilename" /\ kind = "sig"
  \/ a.screen = "SdKsptFilename" /\ kind = a.buf.kind /\ ~a.buf.enc
       /\ (a.nframes > 0 => a.nframes = FramesOf(a.buf, a.safe))
  \/ a.screen = "SdKpubFilename" /\ kind = "kpub" /\ a.kpub = "kpub"
  \/ a.screen = "SdMsAddrFilename" /\ kind = "addr" /\ a.kpub = "addr"
  \/ a.screen = "SdMsDescFilename" /\ kind = "desc" /\ a.buf.kind = "desc" /\ ~a.buf.enc

LEMMA NameAskedFor ==
  ASSUME Good, AdTyped(ad'), Beside, NEW kind, Named(kind), NameFits(ad', kind)
  PROVE  Good'
<1>1. HistTyped(hist') /\ hist'.named = kind /\ ~hist'.exists /\ hist'.written = {}
  BY DEF Good, HistTyped, HistFields, Named
<1>2. SavedIsAsked'
  BY <1>1 DEF SavedIsAsked
<1>3. Flows'
  BY <1>1 DEF NameFits, Flows, SeedFlow, XprvFlow, SigFlow, KsptFlow, KpubFlow, AddrFlow,
     DescFlow, Consent, Asked, Asks, At, AtOneOf, Encrypts, Warned, KsptScreens, KpubScreens,
     AddrScreens, DescScreens, TxtAsked, FrameCountFits
<1>4. ad'.screen \in FlowScreens
  BY DEF NameFits, FlowScreens, Asks
<1> QED
  BY <1>1, <1>2, <1>3, <1>4, FlowGoesOn

\* The name suggested and the extension are all that is written.
LEMMA NamingKeeps ==
  ASSUME Good, ~ad.covb, NEW s, NEW ext \in {None, "KAS", "KSP", "TXT"}, NEW p \in PpTypes, NEW kind,
         Naming(s, ext, p, kind), NameFits([ad EXCEPT !.screen = s], kind)
  PROVE  Good'
<1>1. ad' = [ad EXCEPT !.screen = s, !.file = ext, !.pp = p] /\ Named(kind)
  BY DEF Naming
<1>2. AdTyped(ad') /\ Beside
  BY <1>1 DEF Good, AdTyped, AdFields, Beside
<1>3. NameFits(ad', kind)
  BY <1>1 DEF Good, AdTyped, AdFields, NameFits
<1> QED
  BY <1>1, <1>2, <1>3, NameAskedFor

LEMMA TouchFramesKeep ==
  ASSUME Good, ~ad.covb, NEW back \in BOOLEAN, TouchFrames(back)
  PROVE  Good'
<1>1. CASE ShowQrFrameChoice(back)
  <2>1. At("ShowQrFrameChoice") /\ UNCHANGED hist /\ ~ad.buf.enc
    BY <1>1 DEF ShowQrFrameChoice, Good, ScreenKept, Shown, At, AtOneOf
  <2>2. CASE ad' = [ad EXCEPT !.nframes = 0, !.safe = FALSE, !.viaDensity = FALSE,
                            !.screen = "MainMenu"]
    BY <2>1, <2>2, StepAside DEF Good, AdTyped, AdFields, TooLong, Aside, Calm, Free, Watched
  <2>3. CASE ad' = Redrawn([ad EXCEPT !.nframes = 0, !.safe = FALSE, !.viaDensity = FALSE,
                                    !.screen = "ShowQR"])
    <3> DEFINE a == [ad EXCEPT !.nframes = 0, !.safe = FALSE, !.viaDensity = FALSE,
                               !.screen = "ShowQR"]
    <3>1. AdTyped(a) /\ a.ms = ad.ms /\ a.keyIdx = ad.keyIdx /\ ~a.covb /\ a.screen = "ShowQR"
          /\ a.nframes = 0 /\ a.buf = ad.buf
      BY DEF Good, AdTyped, AdFields, TooLong
    <3>2. ad' = Redrawn(a)
      BY <2>3, Zenon
    <3> HIDE DEF a
    <3> QED
      BY <2>1, <3>1, <3>2, DrawsPayload
  <2>4. CASE ad' = [ad EXCEPT !.nframes = 0, !.viaDensity = TRUE, !.screen = "ShowQrDensityChoice"]
    <3>1. AdTyped(ad') /\ Beside /\ ad'.screen = "ShowQrDensityChoice" /\ ad'.buf = ad.buf
      BY <2>4 DEF Good, AdTyped, AdFields, TooLong, Beside
    <3> QED
      BY <2>1, <3>1, ShowsPayload DEF QrAsked
  <2> QED
    BY <1>1, <2>2, <2>3, <2>4, Zenon DEF ShowQrFrameChoice
<1>2. CASE ShowQrDensityChoice(back)
  <2>1. At("ShowQrDensityChoice") /\ UNCHANGED hist /\ ~ad.buf.enc
    BY <1>2 DEF ShowQrDensityChoice, Good, ScreenKept, Shown, At, AtOneOf
  <2>2. CASE ad' = [ad EXCEPT !.nframes = 0, !.safe = FALSE, !.viaDensity = FALSE,
                              !.screen = "ShowQrFrameChoice"]
    <3>1. AdTyped(ad') /\ Beside /\ ad'.screen = "ShowQrFrameChoice" /\ ad'.buf = ad.buf
      BY <2>2 DEF Good, AdTyped, AdFields, TooLong, Beside
    <3> QED
      BY <2>1, <3>1, ShowsPayload DEF QrAsked
  <2>3. ASSUME NEW safe \in BOOLEAN,
               ad' = Redrawn([ad EXCEPT !.nframes = 0, !.safe = safe, !.screen = "ShowQR"])
        PROVE  Good'
    <3> DEFINE a == [ad EXCEPT !.nframes = 0, !.safe = safe, !.screen = "ShowQR"]
    <3>1. AdTyped(a) /\ a.ms = ad.ms /\ a.keyIdx = ad.keyIdx /\ ~a.covb /\ a.screen = "ShowQR"
          /\ a.nframes = 0 /\ a.buf = ad.buf
      BY DEF Good, AdTyped, AdFields, TooLong
    <3>2. ad' = Redrawn(a)
      BY <2>3, Zenon
    <3> HIDE DEF a
    <3> QED
      BY <2>1, <3>1, <3>2, DrawsPayload
  <2> QED
    BY <1>2, <2>2, <2>3, Zenon DEF ShowQrDensityChoice
<1>3. CASE ShowQrModeChoice(back)
  <2>1. UNCHANGED hist /\ ~ad.buf.enc /\ FrameCountFits
    BY <1>3 DEF ShowQrModeChoice, Good, ScreenKept, Shown, At, AtOneOf
  <2>2. CASE back
    <3> DEFINE s == IF ad.viaDensity THEN "ShowQrDensityChoice"
                    ELSE IF ad.ms.n > 0 THEN "MultisigDescriptor" ELSE "MainMenu"
    <3>1. ad' = [[ad EXCEPT !.nframes = 0] EXCEPT !.screen = s]
      BY <1>3, <2>2, Zenon DEF ShowQrModeChoice
    <3>2. s = "ShowQrDensityChoice" \/ Free(s)
      BY DEF Free, Watched
    <3> HIDE DEF s
    <3>3. AdTyped(ad') /\ Beside /\ ad'.screen = s /\ ad'.buf = ad.buf
      BY <3>1 DEF Good, AdTyped, AdFields, TooLong, Beside
    <3> QED
      BY <2>1, <3>2, <3>3, ShowsPayload, StepAside DEF QrAsked, Aside, Calm, Beside
  <2>3. CASE ~back
    <3> DEFINE a == [ad EXCEPT !.screen = "ShowQR"]
    <3>1. AdTyped(a) /\ a.ms = ad.ms /\ a.keyIdx = ad.keyIdx /\ ~a.covb /\ a.screen = "ShowQR"
          /\ a.nframes = ad.nframes /\ a.safe = ad.safe /\ a.buf = ad.buf
      BY DEF Good, AdTyped, AdFields
    <3>2. ad' = Redrawn(a)
      BY <1>3, <2>3, Zenon DEF ShowQrModeChoice
    <3> HIDE DEF a
    <3> QED
      BY <2>1, <3>1, <3>2, DrawsPayload DEF FrameCountFits
  <2> QED
    BY <2>2, <2>3
<1>4. CASE ShowQR(back)
  <2> DEFINE s == IF ad.buf.kind = None THEN "MainMenu" ELSE "ShowQrPopup"
  <2>1. UNCHANGED hist /\ ~ad.buf.enc /\ FrameCountFits /\ ad' = [ad EXCEPT !.screen = s]
    BY <1>4 DEF ShowQR, Good, ScreenKept, Shown, At, AtOneOf, Go
  <2>2. s = "ShowQrPopup" \/ Free(s)
    BY DEF Free, Watched
  <2> HIDE DEF s
  <2>3. AdTyped(ad') /\ Beside /\ ad'.screen = s /\ ad'.buf = ad.buf /\ ad'.nframes = ad.nframes
        /\ ad'.safe = ad.safe
    BY <2>1 DEF Good, AdTyped, AdFields, Beside
  <2> QED
    BY <2>1, <2>2, <2>3, ShowsPayload, StepAside DEF QrShown, Aside, Calm, Beside, FrameCountFits
<1>5. CASE ShowQrPopup(back)
  <2>1. ~ad.buf.enc /\ FrameCountFits
    BY <1>5 DEF ShowQrPopup, Good, ScreenKept, Shown, At, AtOneOf
  <2>2. CASE Go("ShowQrModeChoice") /\ UNCHANGED hist
    <3>1. AdTyped(ad') /\ Beside /\ ad'.screen = "ShowQrModeChoice" /\ ad'.buf = ad.buf
          /\ ad'.nframes = ad.nframes /\ ad'.safe = ad.safe
      BY <2>2 DEF Go, Good, AdTyped, AdFields, Beside
    <3> QED
      BY <2>1, <2>2, <3>1, ShowsPayload DEF QrShown, FrameCountFits
  <2>3. CASE ad.buf.kind = "desc" /\ Naming("SdMsDescFilename", "TXT", "name", ad.buf.kind)
    <3>1. NameFits([ad EXCEPT !.screen = "SdMsDescFilename"], ad.buf.kind)
      BY <2>1, <2>3 DEF NameFits, Good, AdTyped, AdFields
    <3> QED
      BY <2>3, <3>1, NamingKeeps DEF PpTypes
  <2>4. CASE Naming("SdKsptFilename", "KSP", "name", ad.buf.kind)
    <3>1. NameFits([ad EXCEPT !.screen = "SdKsptFilename"], ad.buf.kind)
      BY <2>1 DEF NameFits, Good, AdTyped, AdFields, FrameCountFits
    <3> QED
      BY <2>4, <3>1, NamingKeeps DEF PpTypes
  <2>5. CASE ad' = Redrawn([ad EXCEPT !.screen = "ShowQR"]) /\ UNCHANGED hist
    <3> DEFINE a == [ad EXCEPT !.screen = "ShowQR"]
    <3>1. AdTyped(a) /\ a.ms = ad.ms /\ a.keyIdx = ad.keyIdx /\ ~a.covb /\ a.screen = "ShowQR"
          /\ a.nframes = ad.nframes /\ a.safe = ad.safe /\ a.buf = ad.buf
      BY DEF Good, AdTyped, AdFields
    <3>2. ad' = Redrawn(a)
      BY <2>5, Zenon
    <3> HIDE DEF a
    <3> QED
      BY <2>1, <2>5, <3>1, <3>2, DrawsPayload DEF FrameCountFits
  <2> QED
    BY <1>5, <2>2, <2>3, <2>4, <2>5, Zenon DEF ShowQrPopup
<1>6. CASE CovBackupName(back)
  BY <1>6, CovNamed
<1> QED
  BY <1>1, <1>2, <1>3, <1>4, <1>5, <1>6 DEF TouchFrames

LEMMA KpubDrawnAgain ==
  ASSUME Good, ~ad.covb, UNCHANGED hist, ad.kpub = "kpub", ad.kn = ad.kuser,
         ad' = Redrawn([ad EXCEPT !.screen = "ExportKpub"])
  PROVE  Good'
<1> DEFINE a == [ad EXCEPT !.screen = "ExportKpub"]
<1>1. AdTyped(a) /\ a.ms = ad.ms /\ a.keyIdx = ad.keyIdx /\ ~a.covb
      /\ a.screen = "ExportKpub" /\ a.kpub = ad.kpub /\ a.kn = ad.kn /\ a.kuser = ad.kuser
  BY DEF Good, AdTyped, AdFields
<1>2. ad' = Redrawn(a)
  BY Zenon
<1> HIDE DEF a
<1> QED
  BY <1>1, <1>2, DrawsKpub

LEMMA TouchExportKeep ==
  ASSUME Good, ~ad.covb, NEW back \in BOOLEAN, TouchExport(back)
  PROVE  Good'
<1>1. CASE SeedBackup(back)
  <2>1. Free(ad.backupReturn)
    BY DEF Good, AdTyped, Free, Watched
  <2>2. Free(IF ad.backupReturn = "SeedToolsMenu" THEN "SeedList" ELSE ad.backupReturn)
    BY <2>1 DEF Free, Watched
  <2> QED
    BY <1>1, <2>1, <2>2, GoFree, Zenon DEF SeedBackup, Quiet
<1>2. CASE ShowAddress(back)
  <2>1. Free(ad.addrReturn) /\ Free("ShowAddressQR") /\ Free("AddrIndexPicker")
    BY DEF Good, AdTyped, Free, Watched
  <2> QED
    BY <1>2, <2>1, GoFree, LeavesAddress, Zenon DEF ShowAddress, Quiet
<1>3. CASE ShowAddressQR(back)
  BY <1>3, MenuFree DEF ShowAddressQR, Free, Watched
<1>4. CASE AddrIndexPicker(back)
  <2>1. Free(IF ad.picking THEN "MultisigShowAddress" ELSE "ShowAddress")
    BY DEF Free, Watched
  <2> QED
    BY <1>4, <2>1, WritesPicking, Zenon DEF AddrIndexPicker, Quiet
<1>5. CASE ExportSeedQR(back)
  BY <1>5, MenuFree DEF ExportSeedQR, Free, Watched
<1>6. CASE ExportCompactSeedQR(back)
  BY <1>6, MenuFree DEF ExportCompactSeedQR, Free, Watched
<1>7. CASE SeedQrGrid(back)
  BY <1>7, MenuFree DEF SeedQrGrid, Free, Watched
<1>8. CASE ExportPlainWordsQR(back)
  BY <1>8, MenuFree DEF ExportPlainWordsQR, Free, Watched
<1>9. CASE QrExportMenu(back)
  BY <1>9, MenuFree DEF QrExportMenu, Free, Watched
<1>10. CASE ExportKpub(back)
  <2>1. UNCHANGED hist /\ ad.kpub = "kpub" /\ ad.kn = ad.kuser
    BY <1>10 DEF ExportKpub, Menu, Good, ScreenKept, Shown, At, AtOneOf
  <2>2. ad' = [ad EXCEPT !.screen = "ExportKpubPopup"]
    BY <1>10 DEF ExportKpub, Menu, Go
  <2>3. AdTyped(ad') /\ Beside /\ ad'.screen = "ExportKpubPopup" /\ ad'.kpub = ad.kpub
        /\ ad'.kn = ad.kn /\ ad'.kuser = ad.kuser
    BY <2>2 DEF Good, AdTyped, AdFields, Beside
  <2> QED
    BY <2>1, <2>3, ShowsKpub
<1>11. CASE ExportKpubFrameCount(back)
  <2>1. UNCHANGED hist /\ ad.kpub = "kpub" /\ ad.kn = 0
    BY <1>11 DEF ExportKpubFrameCount, Good, ScreenKept, Shown, At, AtOneOf
  <2>2. CASE ad' = [NoKpubFrames(ad) EXCEPT !.screen = ad.kpubReturn]
    BY <2>1, <2>2, StepAside DEF NoKpubFrames, Good, AdTyped, AdFields, Aside, Calm, Free, Watched
  <2>3. ASSUME NEW n \in {1, 2}, ad' = Redrawn([ad EXCEPT !.kuser = n, !.screen = "ExportKpub"])
        PROVE  Good'
    <3> DEFINE a == [ad EXCEPT !.kuser = n, !.screen = "ExportKpub"]
    <3>1. AdTyped(a) /\ a.ms = ad.ms /\ a.keyIdx = ad.keyIdx /\ ~a.covb
          /\ a.screen = "ExportKpub" /\ a.kpub = ad.kpub /\ a.kn = ad.kn
      BY DEF Good, AdTyped, AdFields
    <3>2. ad' = Redrawn(a)
      BY <2>3, Zenon
    <3> HIDE DEF a
    <3> QED
      BY <2>1, <3>1, <3>2, DrawsKpub
  <2> QED
    BY <1>11, <2>2, <2>3, Zenon DEF ExportKpubFrameCount
<1>12. CASE ExportKpubModeChoice(back)
  <2>1. UNCHANGED hist /\ ad.kpub = "kpub" /\ ad.kn = ad.kuser
    BY <1>12 DEF ExportKpubModeChoice, Good, ScreenKept, Shown, At, AtOneOf
  <2>2. CASE ad' = [NoKpubFrames(ad) EXCEPT !.screen = "ExportKpubFrameCount"]
    <3>1. AdTyped(ad') /\ Beside /\ ad'.screen = "ExportKpubFrameCount" /\ ad'.kpub = ad.kpub
          /\ ad'.kn = 0
      BY <2>2 DEF NoKpubFrames, Good, AdTyped, AdFields, Beside
    <3> QED
      BY <2>1, <3>1, ShowsKpub
  <2>3. CASE ad' = Redrawn([ad EXCEPT !.screen = "ExportKpub"])
    BY <2>1, <2>3, KpubDrawnAgain
  <2> QED
    BY <1>12, <2>2, <2>3, Zenon DEF ExportKpubModeChoice
<1>13. CASE KpubScannedPopup(back)
  <2>1. ad.kpub = "kpub"
    BY <1>13 DEF KpubScannedPopup, Good, ScreenKept, Shown, At, AtOneOf
  <2>2. CASE Go("MainMenu") /\ UNCHANGED hist
    BY <2>2, GoFree DEF Quiet, Free, Watched
  <2>3. CASE ad' = Redrawn([NoKpubFrames(ad) EXCEPT !.screen = "ExportKpub"]) /\ UNCHANGED hist
    <3> DEFINE a == [NoKpubFrames(ad) EXCEPT !.screen = "ExportKpub"]
    <3>1. AdTyped(a) /\ a.ms = ad.ms /\ a.keyIdx = ad.keyIdx /\ ~a.covb
          /\ a.screen = "ExportKpub" /\ a.kpub = ad.kpub /\ a.kn = 0
      BY DEF NoKpubFrames, Good, AdTyped, AdFields
    <3>2. ad' = Redrawn(a)
      BY <2>3, Zenon
    <3> HIDE DEF a
    <3> QED
      BY <2>1, <2>3, <3>1, <3>2, DrawsKpub
  <2>4. CASE Naming("SdKpubFilename", ad.file, "empty", "kpub")
    <3>1. NameFits([ad EXCEPT !.screen = "SdKpubFilename"], "kpub")
      BY <2>1 DEF NameFits, Good, AdTyped, AdFields
    <3>2. ad.file \in {None, "KAS", "KSP", "TXT"}
      BY DEF Good, AdTyped
    <3> QED
      BY <2>4, <3>1, <3>2, NamingKeeps DEF PpTypes
  <2> QED
    BY <1>13, <2>2, <2>3, <2>4, Zenon DEF KpubScannedPopup
<1>14. CASE ExportKpubPopup(back)
  <2>1. ad.kpub = "kpub" /\ ad.kn = ad.kuser
    BY <1>14 DEF ExportKpubPopup, Good, ScreenKept, Shown, At, AtOneOf
  <2>2. CASE ad' = [NoKpubFrames(ad) EXCEPT !.screen = "ExportKpubFrameCount"] /\ UNCHANGED hist
    <3>1. AdTyped(ad') /\ Beside /\ ad'.screen = "ExportKpubFrameCount" /\ ad'.kpub = ad.kpub
          /\ ad'.kn = 0
      BY <2>2 DEF NoKpubFrames, Good, AdTyped, AdFields, Beside
    <3> QED
      BY <2>1, <2>2, <3>1, ShowsKpub
  <2>3. CASE Naming("SdKpubFilename", "TXT", "name", "kpub")
    <3>1. NameFits([ad EXCEPT !.screen = "SdKpubFilename"], "kpub")
      BY <2>1 DEF NameFits, Good, AdTyped, AdFields
    <3> QED
      BY <2>3, <3>1, NamingKeeps DEF PpTypes
  <2>4. CASE ad' = Redrawn([ad EXCEPT !.screen = "ExportKpub"]) /\ UNCHANGED hist
    BY <2>1, <2>4, KpubDrawnAgain
  <2> QED
    BY <1>14, <2>2, <2>3, <2>4, Zenon DEF ExportKpubPopup
<1>15. CASE ExportChoice(back)
  BY <1>15, MenuFree DEF ExportChoice, SeedLoaded, Free, Watched
<1>16. CASE SeedBackupMenu(back)
  <2>1. Free("SeedBackup")
    BY DEF Free, Watched
  <2>2. ASSUME Menu(back, "SeedBackupMenu", "ExportChoice", {"QrExportMenu",
     "SdBackupWarning"})
        PROVE  Good'
    BY <2>2, MenuFree DEF Free, Watched
  <2> QED
    BY <1>16, <2>1, <2>2, WritesBackup, Zenon DEF SeedBackupMenu, Quiet
<1>17. CASE WatchOnlyMenu(back)
  <2>1. CASE Go("ExportChoice") /\ UNCHANGED hist
    BY <2>1, GoFree DEF Quiet, Free, Watched
  <2>2. CASE KpubShown
    <3> DEFINE a == [NoKpubFrames(ad) EXCEPT !.kpub = "kpub", !.kpubReturn = "WatchOnlyMenu",
                                             !.screen = "ExportKpub"]
    <3>1. AdTyped(a) /\ a.ms = ad.ms /\ a.keyIdx = ad.keyIdx /\ ~a.covb
          /\ a.screen = "ExportKpub" /\ a.kpub = "kpub" /\ a.kn = 0
      BY DEF NoKpubFrames, Good, AdTyped, AdFields
    <3>2. ad' = Redrawn(a) /\ UNCHANGED hist
      BY <2>2, Zenon DEF KpubShown
    <3> HIDE DEF a
    <3> QED
      BY <3>1, <3>2, DrawsKpub
  <2>3. CASE KpubNamed
    <3>1. AdTyped(ad') /\ Beside /\ NameFits(ad', "kpub")
      BY <2>3 DEF KpubNamed, Good, AdTyped, AdFields, PpTypes, Beside, NameFits
    <3>2. Named("kpub")
      BY <2>3 DEF KpubNamed
    <3> QED
      BY <3>1, <3>2, NameAskedFor
  <2> QED
    BY <1>17, <2>1, <2>2, <2>3 DEF WatchOnlyMenu
<1>18. CASE SigningKeysMenu(back)
  BY <1>18, MenuFree DEF SigningKeysMenu, Free, Watched
<1>19. CASE XprvExportMenu(back)
  <2>1. CASE Menu(back, "XprvExportMenu", "SigningKeysMenu", IF Derives THEN {"ExportXprv"} ELSE {})
    BY <2>1, MenuFree DEF Free, Watched
  <2>2. CASE Naming("SdXprvFilename", "KAS", "name", "xprv")
    <3>1. NameFits([ad EXCEPT !.screen = "SdXprvFilename"], "xprv")
      BY DEF NameFits, Good, AdTyped, AdFields
    <3> QED
      BY <2>2, <3>1, NamingKeeps DEF PpTypes
  <2> QED
    BY <1>19, <2>1, <2>2 DEF XprvExportMenu
<1>20. CASE ExportXprv(back)
  BY <1>20, MenuFree DEF ExportXprv, Free, Watched
<1>21. CASE ExportPrivKeyIndex(back)
  BY <1>21, MenuFree DEF ExportPrivKeyIndex, Derives, Free, Watched
<1>22. CASE ExportPrivKey(back)
  BY <1>22, MenuFree DEF ExportPrivKey, Free, Watched
<1> QED
  BY <1>1, <1>2, <1>3, <1>4, <1>5, <1>6, <1>7, <1>8, <1>9, <1>10, <1>11, <1>12, <1>13,
     <1>14, <1>15, <1>16, <1>17, <1>18, <1>19, <1>20, <1>21, <1>22 DEF TouchExport

LEMMA TouchTxKeep ==
  ASSUME Good, ~ad.covb, Detours = {}, NEW back \in BOOLEAN, TouchTx(back)
  PROVE  Good'
<1>1. CASE SignTxGuide(back)
  <2>1. CASE Menu(back, "SignTxGuide", "SingleSigMenu", {})
    BY <2>1, MenuFree DEF Free, Watched
  <2>2. CASE ad' = [ad EXCEPT !.screen = "ScanQR"] /\ UNCHANGED hist
    BY <2>2, GoFree DEF Go, Quiet, Free, Watched
  <2> QED
    BY <1>1, <2>1, <2>2 DEF SignTxGuide
<1>2. CASE ScanQR(back)
  <2>1. UNCHANGED hist
    BY <1>2 DEF ScanQR
  <2>2. CASE ad' = [ad EXCEPT !.scanHash = FALSE, !.screen = "SignMsgChoice"]
    BY <2>1, <2>2, WritesScanHash DEF Quiet, Free, Watched
  <2>3. CASE ad' = [ad EXCEPT !.screen = "MultisigAddKey", !.keyIdx = FirstEmpty(ad.ms)]
    <3>1. FirstEmpty(ad.ms) \in Cosigners
      BY FirstEmptyIs DEF Good, AdTyped
    <3>2. AdTyped(ad') /\ ad'.ms = ad.ms /\ ad'.keyIdx = FirstEmpty(ad.ms) /\ Calm
      BY <2>3, <3>1 DEF Good, AdTyped, AdFields, Calm, Free, Watched
    <3> QED
      BY <2>1, <3>2, AskedNext
  <2>4. CASE ad' = [ad EXCEPT !.screen = "MainMenu"]
    BY <2>1, <2>4, GoFree DEF Go, Quiet, Free, Watched
  <2> QED
    BY <1>2, <2>2, <2>3, <2>4, Zenon DEF ScanQR
<1>3. CASE ReviewTx(back)
  BY <1>3, MenuFree DEF ReviewTx, Free, Watched
<1>4. CASE ReviewCovenant(back)
  BY <1>4, MenuFree DEF ReviewCovenant, Free, Watched
<1>5. CASE ConfirmTx(back)
  BY <1>5, MenuFree DEF ConfirmTx, Free, Watched
<1>6. CASE SigningShown(back)
  <2>1. UNCHANGED hist
    BY <1>6 DEF SigningShown
  <2>2. ASSUME NEW n \in {Single, Several, TooLong},
               ad' = [[ad EXCEPT !.buf = Clear("tx", n), !.nframes = 0, !.safe = FALSE]
                        EXCEPT !.screen = "ShowQrFrameChoice"]
        PROVE  Good'
    <3>1. AdTyped(ad') /\ Beside /\ ad'.screen = "ShowQrFrameChoice" /\ ~ad'.buf.enc
      BY <2>2, ClearIs DEF Good, AdTyped, AdFields, TooLong, Beside
    <3> QED
      BY <2>1, <3>1, ShowsPayload DEF QrAsked
  <2>3. ASSUME NEW n \in {Single, Several, TooLong},
               ad' = Redrawn([[ad EXCEPT !.buf = Clear("tx", n), !.nframes = 0, !.safe = FALSE]
                                EXCEPT !.viaDensity = FALSE, !.screen = "ShowQR"])
        PROVE  Good'
    <3> DEFINE a == [[ad EXCEPT !.buf = Clear("tx", n), !.nframes = 0, !.safe = FALSE]
                       EXCEPT !.viaDensity = FALSE, !.screen = "ShowQR"]
    <3>1. AdTyped(a) /\ a.ms = ad.ms /\ a.keyIdx = ad.keyIdx /\ ~a.covb
          /\ a.screen = "ShowQR" /\ a.nframes = 0 /\ ~a.buf.enc
      BY ClearIs DEF Good, AdTyped, AdFields, TooLong
    <3>2. ad' = Redrawn(a)
      BY <2>3, Zenon
    <3> HIDE DEF a
    <3> QED
      BY <2>1, <3>1, <3>2, DrawsPayload
  <2>4. CASE Go("Rejected")
    BY <2>1, <2>4, GoFree DEF Quiet, Free, Watched
  <2> QED
    BY <1>6, <2>2, <2>3, <2>4, Zenon DEF SigningShown
<1> QED
  BY <1>1, <1>2, <1>3, <1>4, <1>5, <1>6 DEF TouchTx

(***************************************************************************)
(* A key is put into a place of the wallet.                                *)
(***************************************************************************)
LEMMA KeyKept ==
  ASSUME NEW ms, Wallet(ms), Apart(ms), NEW i \in Cosigners, i < ms.n, Below(ms, i),
         ms.active => ms.built /\ Filled(ms),
         NEW o \in Owners, ~HasCosigner(ms, o),
         NEW m, Wallet(m), m.n = ms.n, m.keys = [ms.keys EXCEPT ![i] = o]
  PROVE  /\ Apart(m) /\ (\A j \in Cosigners : j < i + 1 => m.keys[j] # Nobody)
         /\ i + 1 >= m.n => Filled(m) /\ Buildable(m)
         /\ Filled(ms) => Filled(m)
<1>1. o # Nobody /\ m.n = NCosigners /\ m.keys[i] = o
  BY NCosignersAssumption DEF Owners, Nobody, Wallet, Keys, Cosigners
<1>2. \A j \in Cosigners : j # i => m.keys[j] = ms.keys[j]
  BY DEF Wallet, Keys
<1>3. \A j \in Cosigners : ms.keys[j] # o
  BY DEF HasCosigner
<1>4. Apart(m)
  BY <1>1, <1>2, <1>3 DEF Apart
<1>5. \A j \in Cosigners : j < i + 1 => m.keys[j] # Nobody
  BY <1>1, <1>2, NCosignersAssumption DEF Below, Cosigners
<1>6. i + 1 >= m.n => Filled(m)
  BY <1>1, <1>5, NCosignersAssumption DEF Filled, Cosigners
<1>7. Filled(m) => Buildable(m)
  BY <1>4 DEF Filled, Buildable, Apart
<1>8. Filled(ms) => Filled(m)
  BY <1>1, <1>2 DEF Filled
<1> QED
  BY <1>4, <1>5, <1>6, <1>7, <1>8

LEMMA KeyAddedKeeps ==
  ASSUME Good, UNCHANGED hist, NEW a, AdTyped(a), a.ms = ad.ms, ~a.covb,
         NEW i \in Cosigners, i < ad.ms.n, Below(ad.ms, i),
         NEW o \in Owners, ~HasCosigner(ad.ms, o), ad' = KeyAdded(a, i, o)
  PROVE  Good'
<1> DEFINE b == [a EXCEPT !.ms.keys[i] = o]
<1>1. AdTyped(b) /\ ~b.covb /\ b.ms.n = a.ms.n /\ b.ms.keys = [a.ms.keys EXCEPT ![i] = o]
      /\ b.ms.active = a.ms.active /\ b.ms.built = a.ms.built
  <2>1. Wallet([a.ms EXCEPT !.keys[i] = o])
    BY NCosignersAssumption DEF AdTyped, Wallet, Keys, Owners
  <2>2. b.ms = [a.ms EXCEPT !.keys[i] = o]
    BY DEF AdTyped, AdFields
  <2>3. AdTyped(b) /\ ~b.covb
    BY <2>1 DEF AdTyped, AdFields
  <2> QED
    BY <2>2, <2>3 DEF AdTyped, Wallet
<1>2. ad' = IF i + 1 >= a.ms.n
            THEN [b EXCEPT !.ms = [b.ms EXCEPT !.active = TRUE, !.built = @ \/ Buildable(b.ms)],
                           !.screen = "MultisigShowAddress"]
            ELSE [b EXCEPT !.keyIdx = i + 1, !.screen = "MultisigAddKey"]
  BY Zenon DEF KeyAdded
<1>3. /\ Apart(b.ms) /\ (\A j \in Cosigners : j < i + 1 => b.ms.keys[j] # Nobody)
      /\ i + 1 >= b.ms.n => Filled(b.ms) /\ Buildable(b.ms)
      /\ b.ms.active => b.ms.built /\ Filled(b.ms)
  BY <1>1, KeyKept DEF AdTyped, Good, WalletKept
<1> HIDE DEF b
<1>4. CASE i + 1 >= a.ms.n
  <2>1. ad' = [b EXCEPT !.ms = [b.ms EXCEPT !.active = TRUE, !.built = @ \/ Buildable(b.ms)],
                        !.screen = "MultisigShowAddress"]
    BY <1>2, <1>4, Zenon
  <2>2. Buildable(b.ms) /\ Filled(b.ms)
    BY <1>1, <1>3, <1>4
  <2>3. (b.ms.built \/ Buildable(b.ms)) = TRUE
    BY <2>2
  <2>4. ad' = [b EXCEPT !.ms = [b.ms EXCEPT !.active = TRUE, !.built = TRUE],
                         !.screen = "MultisigShowAddress"]
    BY <2>1, <2>3, Zenon
  <2> DEFINE m == [b.ms EXCEPT !.active = TRUE, !.built = TRUE]
  <2>5. Wallet(m) /\ m.n = b.ms.n /\ m.keys = b.ms.keys /\ m.active /\ m.built
    BY <1>1 DEF AdTyped, Wallet
  <2>6. ad' = [b EXCEPT !.ms = m, !.screen = "MultisigShowAddress"]
    BY <2>4, Zenon
  <2> HIDE DEF m
  <2>7. ad'.ms = m
    BY <1>1, <2>6 DEF AdTyped, AdFields
  <2>8. Wallet(ad'.ms) /\ ad'.ms.n = b.ms.n /\ ad'.ms.keys = b.ms.keys /\ ad'.ms.active
        /\ ad'.ms.built
    BY <2>5, <2>7
  <2>9. AdTyped(ad') /\ ad'.screen = "MultisigShowAddress" /\ ~ad'.covb
    BY <1>1, <2>6, <2>5 DEF AdTyped, AdFields
  <2>10. WalletKept'
    BY <1>3, <2>2, <2>8 DEF WalletKept, Apart, Filled, Below
  <2> QED
    BY <2>9, <2>10, Calmed DEF Calm, Free, Watched
<1>5. CASE ~ (i + 1 >= a.ms.n)
  <2>1. ad' = [b EXCEPT !.keyIdx = i + 1, !.screen = "MultisigAddKey"]
    BY <1>2, <1>5, Zenon
  <2>2. i + 1 \in Cosigners
    BY <1>5, NCosignersAssumption DEF AdTyped, Wallet, Cosigners
  <2>3. AdTyped(ad') /\ ad'.ms = b.ms /\ ad'.keyIdx = i + 1 /\ Calm
    BY <1>1, <2>1, <2>2 DEF AdTyped, AdFields, Calm, Free, Watched
  <2>4. WalletKept'
    BY <1>3, <2>3 DEF WalletKept, Apart, Filled, Below
  <2> QED
    BY <2>3, <2>4, Calmed
<1> QED
  BY <1>4, <1>5

LEMMA WalletLeft ==
  ASSUME Good, ~ad.covb, UNCHANGED hist, NEW s, Free(s),
         ad' = [ad EXCEPT !.ms.n = 0, !.screen = s]
  PROVE  Good'
<1> DEFINE m == [ad.ms EXCEPT !.n = 0]
<1>1. Wallet(m) /\ m.n = 0 /\ m.keys = ad.ms.keys /\ m.active = ad.ms.active
      /\ m.built = ad.ms.built
  BY DEF Good, AdTyped, Wallet
<1>2. ad'.ms = m
  BY DEF Good, AdTyped, AdFields
<1> HIDE DEF m
<1>3. AdTyped(ad') /\ Calm
  BY <1>1, <1>2 DEF Good, AdTyped, AdFields, Calm
<1>4. WalletKept'
  BY <1>1, <1>2 DEF Good, WalletKept, Apart, Below, Filled
<1> QED
  BY <1>3, <1>4, Calmed

LEMMA TouchMultisigKeep ==
  ASSUME Good, ~ad.covb, Detours = {}, NEW back \in BOOLEAN, TouchMultisig(back)
  PROVE  Good'
<1>1. CASE MultisigChooseMN(back)
  <2>1. UNCHANGED hist
    BY <1>1 DEF MultisigChooseMN
  <2>2. CASE ad' = [ad EXCEPT !.ms.n = 0, !.screen = "MultisigMenu"]
    BY <2>1, <2>2, WalletLeft DEF Free, Watched
  <2>3. CASE ad' = [ad EXCEPT !.ms = [NoWallet EXCEPT !.n = NCosigners],
                              !.keyIdx = 0, !.screen = "MultisigAddKey"]
    <3> DEFINE m == [NoWallet EXCEPT !.n = NCosigners]
    <3>1. Wallet(m) /\ Apart(m) /\ ~m.active
      BY NoWalletIs, NCosignersAssumption DEF Wallet, NoWallet, Apart, Nobody
    <3>2. 0 \in Cosigners /\ \A j \in Cosigners : ~(j < 0)
      BY NCosignersAssumption DEF Cosigners
    <3>3. ad' = [ad EXCEPT !.ms = m, !.keyIdx = 0, !.screen = "MultisigAddKey"]
      BY <2>3, Zenon
    <3> HIDE DEF m
    <3>4. AdTyped(ad') /\ ad'.ms = m /\ ad'.keyIdx = 0 /\ Calm
      BY <3>1, <3>2, <3>3 DEF Good, AdTyped, AdFields, Calm, Free, Watched
    <3>5. WalletKept'
      BY <3>1, <3>2, <3>4 DEF WalletKept, Apart, Below, Filled
    <3> QED
      BY <2>1, <3>4, <3>5, Calmed
  <2> QED
    BY <1>1, <2>2, <2>3, Zenon DEF MultisigChooseMN
<1>2. CASE MultisigAddKey(back)
  <2>1. UNCHANGED hist
    BY <1>2 DEF MultisigAddKey
  <2>2. CASE ad' = [ad EXCEPT !.ms.n = 0, !.screen = "MultisigChooseMN"]
    BY <2>1, <2>2, WalletLeft DEF Free, Watched
  <2>3. CASE ad.keyIdx > 0 /\ ad' = [ad EXCEPT !.keyIdx = ad.keyIdx - 1]
    <3>1. ad.screen = "MultisigAddKey"
      BY <1>2 DEF MultisigAddKey, At
    <3>2. ad.keyIdx - 1 \in Cosigners /\ (\A j \in Cosigners : j < ad.keyIdx - 1 => j < ad.keyIdx)
      BY <2>3, NCosignersAssumption DEF Good, AdTyped, Cosigners
    <3>3. AdTyped(ad') /\ ad'.ms = ad.ms /\ ad'.keyIdx = ad.keyIdx - 1 /\ Calm
      BY <2>3, <3>1, <3>2 DEF Good, AdTyped, AdFields, Calm, Free, Watched
    <3>4. WalletKept'
      BY <3>2, <3>3 DEF Good, WalletKept, Apart, Below, Filled
    <3> QED
      BY <2>1, <3>3, <3>4, Calmed
  <2>4. ASSUME NEW s \in {"MultisigKpubWarn", "MultisigPickSeed"}, Go(s)
        PROVE  Good'
    BY <2>1, <2>4, GoFree DEF Quiet, Free, Watched
  <2> QED
    BY <1>2, <2>2, <2>3, <2>4, Zenon DEF MultisigAddKey
<1>3. CASE MultisigKpubWarn(back)
  BY <1>3, MenuFree DEF MultisigKpubWarn, Free, Watched
<1>4. CASE MultisigPickSeed(back)
  <2>1. UNCHANGED hist /\ ad.screen = "MultisigPickSeed"
    BY <1>4 DEF MultisigPickSeed, At
  <2>2. ASSUME NEW s \in {"MultisigAddKey", "SingleSigMenu", "ConfirmDeleteSeed"}, Go(s)
        PROVE  Good'
    BY <2>1, <2>2, GoFree DEF Quiet, Free, Watched
  <2>3. ASSUME NEW k \in Kinds \ {"words"}, ad' = [ad EXCEPT !.seed = k]
        PROVE  Good'
    BY <2>1, <2>3, KeepsSeed DEF Quiet, Free, Watched, SeedKinds
  <2>4. ASSUME NEW o \in Owners, ad.keyIdx < ad.ms.n, ~HasCosigner(ad.ms, o),
               ad' = KeyAdded([ad EXCEPT !.seed = "words"], ad.keyIdx, o)
        PROVE  Good'
    <3> DEFINE a == [ad EXCEPT !.seed = "words"]
    <3>1. AdTyped(a) /\ a.ms = ad.ms /\ ~a.covb
      BY DEF Good, AdTyped, AdFields, SeedKinds, Kinds
    <3>2. ad.keyIdx \in Cosigners /\ Below(ad.ms, ad.keyIdx)
      BY DEF Good, AdTyped, WalletKept
    <3>3. ad' = KeyAdded(a, ad.keyIdx, o)
      BY <2>4, Zenon
    <3> HIDE DEF a
    <3> QED
      BY <2>1, <2>4, <3>1, <3>2, <3>3, KeyAddedKeeps
  <2>5. ASSUME OwnKeyAdded PROVE Good'
    <3>1. PICK o \in Owners :
            /\ ad.keyIdx < ad.ms.n
            /\ HasCosigner(ad.ms, o) => "one seed twice" \in Detours
            /\ ad' = KeyAdded([ad EXCEPT !.seed = "words"], ad.keyIdx, o)
      BY <2>5, Zenon DEF OwnKeyAdded
    <3>2. ~HasCosigner(ad.ms, o)
      BY <3>1
    <3> QED
      BY <2>4, <3>1, <3>2, Zenon
  <2> QED
    BY <1>4, <2>2, <2>3, <2>5, Zenon DEF MultisigPickSeed
<1>5. CASE MultisigShowAddress(back)
  <2>1. Free("MultisigShowAddressQR") /\ Free("AddrIndexPicker") /\ Free(IF ad.ms.active
     THEN "MultisigDescriptor" ELSE "SdImportMenu")
    BY DEF Free, Watched
  <2> QED
    BY <1>5, <2>1, GoFree, WritesPicking, Zenon DEF MultisigShowAddress, Quiet
<1>6. CASE MultisigShowAddressQR(back)
  BY <1>6, MenuFree DEF MultisigShowAddressQR, Free, Watched
<1>7. CASE MultisigSaveAddrAsk(back)
  <2>1. CASE Menu(back, "MultisigSaveAddrAsk", "MultisigShowAddress", {"MultisigDescriptor"})
    BY <2>1, MenuFree DEF Free, Watched
  <2>2. CASE /\ ad' = [ad EXCEPT !.kpub = "addr", !.file = "TXT", !.pp = "name",
                                 !.screen = "SdMsAddrFilename"]
             /\ Named("addr")
    <3>1. AdTyped(ad') /\ Beside /\ NameFits(ad', "addr")
      BY <2>2 DEF Good, AdTyped, AdFields, PpTypes, Beside, NameFits
    <3> QED
      BY <2>2, <3>1, NameAskedFor
  <2> QED
    BY <1>7, <2>1, <2>2 DEF MultisigSaveAddrAsk
<1>8. CASE MultisigDescriptor(back)
  <2> DEFINE c == Clear("desc", Single)
  <2>1. Content0(c) /\ ~c.enc /\ c.kind = "desc" /\ DOMAIN c = {"kind", "enc", "size"}
    BY ClearIs DEF Content0
  <2>2. CASE Go(IF ad.ms.active THEN "MultisigShowAddress" ELSE "SdImportMenu") /\ UNCHANGED hist
    <3>1. Free(IF ad.ms.active THEN "MultisigShowAddress" ELSE "SdImportMenu")
      BY DEF Free, Watched
    <3> QED
      BY <2>2, <3>1, GoFree, Zenon DEF Quiet
  <2>3. CASE /\ ad' = [[ad EXCEPT !.buf = c]
                          EXCEPT !.file = "TXT", !.pp = "name", !.screen = "SdMsDescFilename"]
             /\ Named("desc")
    <3> HIDE DEF c
    <3>1. AdTyped(ad') /\ Beside /\ NameFits(ad', "desc")
      BY <2>1, <2>3 DEF Good, AdTyped, AdFields, PpTypes, Beside, NameFits
    <3> QED
      BY <2>3, <3>1, NameAskedFor
  <2>4. ASSUME NEW n \in {Single, Several}, UNCHANGED hist,
               ad' = Redrawn([[ad EXCEPT !.buf = c] EXCEPT !.buf.size = n, !.nframes = 0,
                                                           !.screen = "ShowQR"])
        PROVE  Good'
    <3> DEFINE a == [[ad EXCEPT !.buf = c] EXCEPT !.buf.size = n, !.nframes = 0,
                                                  !.screen = "ShowQR"]
               b == [c EXCEPT !.size = n]
    <3>1. ad' = Redrawn(a)
      BY <2>4, Zenon
    <3> HIDE DEF c
    <3>2. Content0(b) /\ ~b.enc
      BY <2>1 DEF Content0, Single, Several, TooLong
    <3>3. a.buf = b
      BY DEF Good, AdTyped, AdFields
    <3> HIDE DEF b
    <3>4. AdTyped(a) /\ a.ms = ad.ms /\ a.keyIdx = ad.keyIdx /\ ~a.covb
          /\ a.screen = "ShowQR" /\ a.nframes = 0
      BY <3>2, <3>3 DEF Good, AdTyped, AdFields, TooLong
    <3> HIDE DEF a
    <3> QED
      BY <2>4, <3>1, <3>2, <3>3, <3>4, DrawsPayload
  <2> QED
    BY <1>8, <2>2, <2>3, <2>4, Zenon DEF MultisigDescriptor
<1> QED
  BY <1>1, <1>2, <1>3, <1>4, <1>5, <1>6, <1>7, <1>8 DEF TouchMultisig

(***************************************************************************)
(* Steps to a screen that shows what is hashed.                            *)
(***************************************************************************)
LEMMA ShowsText ==
  ASSUME Good, AdTyped(ad'), Beside, UNCHANGED hist,
         ad'.screen \in {"SignMsgPreview", "SignMsgHashPreview"},
         \/ ad'.text = ad'.hash
         \/ ad'.screen = "SignMsgHashPreview" /\ ~ad'.fromFile
  PROVE  Good'
<1>1. WalletKept'
  BY WalletSame DEF Beside
<1>2. CovKept'
  BY DEF CovKept, Beside
<1>3. Flows'
  BY DEF Flows, SeedFlow, XprvFlow, SigFlow, KsptFlow, KpubFlow, AddrFlow,
     DescFlow, Consent, Asked, Asks, At, AtOneOf, Encrypts, Warned, KsptScreens, KpubScreens,
     AddrScreens, DescScreens, TxtAsked
<1>4. Shown' /\ TextKept'
  BY DEF Shown, TextKept, At, AtOneOf
<1>5. SavedIsAsked'
  BY DEF Good, SavedIsAsked
<1> QED
  BY <1>1, <1>2, <1>3, <1>4, <1>5 DEF Good, ScreenKept, HistTyped

LEMMA TouchMessagesKeep ==
  ASSUME Good, ~ad.covb, NEW back \in BOOLEAN, TouchMessages(back)
  PROVE  Good'
<1>1. CASE SignMsgChoice(back)
  <2>1. Free("SingleSigMenu") /\ Free("SignMsgType") /\ Free("SignMsgFile") /\
     Free("ScanQR")
    BY DEF Free, Watched
  <2> QED
    BY <1>1, <2>1, GoFree, WritesPp, WritesScanHash, Zenon DEF SignMsgChoice, PpTypes, Quiet
<1>2. CASE SignMsgType(back)
  <2>1. UNCHANGED hist
    BY <1>2 DEF SignMsgType
  <2>2. CASE ad' = [ad EXCEPT !.pp = "empty", !.screen = "SignMsgChoice"]
    BY <2>1, <2>2, WritesPp DEF PpTypes, Quiet, Free, Watched
  <2>3. CASE ad' = [ad EXCEPT !.fromFile = FALSE, !.text = "typed", !.hash = "typed",
                              !.pp = "empty", !.screen = "SignMsgPreview"]
    <3>1. AdTyped(ad') /\ Beside /\ ad'.screen = "SignMsgPreview" /\ ad'.text = ad'.hash
      BY <2>3 DEF Good, AdTyped, AdFields, PpTypes, Beside
    <3> QED
      BY <2>1, <3>1, ShowsText
  <2> QED
    BY <1>2, <2>2, <2>3, Zenon DEF SignMsgType
<1>3. CASE SignMsgFile(back)
  <2>1. UNCHANGED hist /\ ad.screen = "SignMsgFile"
    BY <1>3 DEF SignMsgFile, At
  <2>2. CASE Go("SignMsgChoice")
    BY <2>1, <2>2, GoFree DEF Quiet, Free, Watched
  <2>3. CASE ad' = [ad EXCEPT !.fromFile = TRUE, !.text = None]
    BY <2>1, <2>3, StepAside DEF Good, AdTyped, AdFields, Aside, Calm, Free, Watched
  <2>4. CASE ad' = [ad EXCEPT !.fromFile = TRUE, !.text = "file", !.hash = "file",
                              !.screen = "SignMsgPreview"]
    <3>1. AdTyped(ad') /\ Beside /\ ad'.screen = "SignMsgPreview" /\ ad'.text = ad'.hash
      BY <2>4 DEF Good, AdTyped, AdFields, PpTypes, Beside
    <3> QED
      BY <2>1, <3>1, ShowsText
  <2> QED
    BY <1>3, <2>2, <2>3, <2>4, Zenon DEF SignMsgFile
<1>4. CASE SignMsgPreview(back)
  <2>1. UNCHANGED hist /\ ad.text = ad.hash
    BY <1>4 DEF SignMsgPreview, Menu, Good, ScreenKept, TextKept, At
  <2>2. CASE Go("SignMsgChoice")
    BY <2>1, <2>2, GoFree DEF Quiet, Free, Watched
  <2>3. CASE Go("SignMsgHashPreview")
    <3>1. AdTyped(ad') /\ Beside /\ ad'.screen = "SignMsgHashPreview" /\ ad'.text = ad'.hash
      BY <2>1, <2>3 DEF Go, Good, AdTyped, AdFields, Beside
    <3> QED
      BY <2>1, <3>1, ShowsText
  <2> QED
    BY <1>4, <2>2, <2>3 DEF SignMsgPreview, Menu
<1>5. CASE SignMsgHashPreview(back)
  <2>1. UNCHANGED hist /\ (ad.fromFile => ad.text = ad.hash)
    BY <1>5 DEF SignMsgHashPreview, Menu, Good, ScreenKept, TextKept, At
  <2>2. ASSUME NEW s \in {"SignMsgChoice", "SignMsgResult"}, Go(s)
        PROVE  Good'
    BY <2>1, <2>2, GoFree DEF Quiet, Free, Watched
  <2>3. CASE ad.fromFile /\ Go("SignMsgPreview")
    <3>1. AdTyped(ad') /\ Beside /\ ad'.screen = "SignMsgPreview" /\ ad'.text = ad'.hash
      BY <2>1, <2>3 DEF Go, Good, AdTyped, AdFields, Beside
    <3> QED
      BY <2>1, <3>1, ShowsText
  <2> QED
    BY <1>5, <2>2, <2>3 DEF SignMsgHashPreview, Menu
<1>6. CASE SignMsgResult(back)
  <2>1. CASE Menu(back, "SignMsgResult", "SingleSigMenu", {"SignMsgResultQr"})
    BY <2>1, MenuFree DEF Free, Watched
  <2>2. CASE Naming("SdSigFilename", "TXT", "name", "sig")
    <3>1. NameFits([ad EXCEPT !.screen = "SdSigFilename"], "sig")
      BY DEF NameFits, Good, AdTyped, AdFields
    <3> QED
      BY <2>2, <3>1, NamingKeeps DEF PpTypes
  <2> QED
    BY <1>6, <2>1, <2>2 DEF SignMsgResult
<1>7. CASE SignMsgResultQr(back)
  BY <1>7, MenuFree DEF SignMsgResultQr, Free, Watched
<1>8. CASE CommitRevealType(back)
  <2>1. Free("SingleSigMenu") /\ Free("CommitRevealPreview")
    BY DEF Free, Watched
  <2> QED
    BY <1>8, <2>1, WritesPp, WritesText, Zenon DEF CommitRevealType, PpTypes, Quiet
<1>9. CASE CommitRevealPreview(back)
  <2>1. UNCHANGED hist /\ ad.screen = "CommitRevealPreview"
    BY <1>9 DEF CommitRevealPreview, At
  <2>2. CASE Go("CommitRevealType")
    BY <2>1, <2>2, GoFree DEF Quiet, Free, Watched
  <2>3. ASSUME NEW s \in {"CommitRevealResult", "CommitRevealPreview"},
               ad' = [ad EXCEPT !.text = None, !.pp = "empty", !.screen = s]
        PROVE  Good'
    BY <2>1, <2>3, StepAside DEF Good, AdTyped, AdFields, PpTypes, Aside, Calm, Free, Watched
  <2>4. (IF ad.seed = "words" THEN "CommitRevealResult" ELSE ad.screen)
          \in {"CommitRevealResult", "CommitRevealPreview"}
    BY <2>1
  <2> QED
    BY <1>9, <2>2, <2>3, <2>4, Zenon DEF CommitRevealPreview
<1>10. CASE CommitRevealResult(back)
  BY <1>10, MenuFree DEF CommitRevealResult, Free, Watched
<1>11. CASE CommitRevealResultQr(back)
  BY <1>11, MenuFree DEF CommitRevealResultQr, Free, Watched
<1>12. CASE DecryptSecretScan(back)
  <2>1. Menu(back, "DecryptSecretScan", "SingleSigMenu", {})
    BY <1>12 DEF DecryptSecretScan
  <2> QED
    BY <2>1, MenuFree DEF Free, Watched
<1>13. CASE DecryptSecretResult(back)
  <2>1. Free("SingleSigMenu") /\ Free("DecryptSecretResultQr")
    BY DEF Free, Watched
  <2> QED
    BY <1>13, <2>1, GoFree, WritesText, Zenon DEF DecryptSecretResult, Quiet
<1>14. CASE DecryptSecretResultQr(back)
  BY <1>14, MenuFree DEF DecryptSecretResultQr, Free, Watched
<1> QED
  BY <1>1, <1>2, <1>3, <1>4, <1>5, <1>6, <1>7, <1>8, <1>9, <1>10, <1>11, <1>12, <1>13, <1>14
     DEF TouchMessages

(***************************************************************************)
(* Files: a name given, a passphrase wanted, a file written.               *)
(***************************************************************************)
ExtOf(s) == IF s \in {"SdSeedFilename", "SdXprvFilename"} THEN "KAS"
            ELSE IF s = "SdKsptFilename" THEN "KSP" ELSE "TXT"

LEMMA NameGivenKeeps ==
  ASSUME Good, ~ad.covb, ad.screen \in DOMAIN Asks, NEW ext, ext = ExtOf(ad.screen),
         NEW next, next = Asks[ad.screen], NameGiven(ext, next)
  PROVE  Good'
<1>1. Flows /\ ext \in {"KAS", "KSP", "TXT"} /\ HistTyped(hist) /\ AdTyped(ad)
  BY DEF Good, ScreenKept, ExtOf
<1>2. CASE /\ ad' = [ad EXCEPT !.file = ext, !.screen = next, !.pp = "empty"]
           /\ hist' = [hist EXCEPT !.exists = FALSE]
  <2>1. /\ AdTyped(ad') /\ Beside /\ ad'.screen = next /\ ad'.file = ext /\ ad'.buf = ad.buf
        /\ ad'.nframes = ad.nframes /\ ad'.safe = ad.safe /\ ad'.kpub = ad.kpub
    BY <1>1, <1>2 DEF AdTyped, AdFields, PpTypes, Beside
  <2>2. HistTyped(hist') /\ hist'.named = hist.named /\ ~hist'.exists /\ hist'.written = hist.written
    BY <1>1, <1>2 DEF HistTyped, HistFields
  <2>3. Flows'
    BY <1>1, <2>1, <2>2 DEF Flows, SeedFlow, XprvFlow, SigFlow, KsptFlow, KpubFlow, AddrFlow,
       DescFlow, Consent, Asked, Asks, At, AtOneOf, Encrypts, Warned, KsptScreens, KpubScreens,
     AddrScreens, DescScreens, TxtAsked, FrameCountFits, ExtOf
  <2>4. SavedIsAsked'
    BY <2>2 DEF Good, SavedIsAsked
  <2>5. ad'.screen \in FlowScreens
    BY <2>1 DEF FlowScreens, Asks, Asked
  <2> QED
    BY <2>1, <2>2, <2>3, <2>4, <2>5, FlowGoesOn
<1>3. CASE /\ ad' = [ad EXCEPT !.file = ext, !.screen = "SdOverwriteWarning",
                               !.owNext = next, !.owBack = ad.screen]
           /\ hist' = [hist EXCEPT !.exists = TRUE, !.agreed = FALSE]
  <2>1. /\ AdTyped(ad') /\ Beside /\ ad'.screen = "SdOverwriteWarning" /\ ad'.file = ext
        /\ ad'.buf = ad.buf /\ ad'.nframes = ad.nframes /\ ad'.safe = ad.safe
        /\ ad'.kpub = ad.kpub /\ ad'.owNext = next /\ ad'.owBack = ad.screen
    BY <1>1, <1>3 DEF AdTyped, AdFields, Beside
  <2>2. HistTyped(hist') /\ hist'.named = hist.named /\ hist'.written = hist.written
    BY <1>1, <1>3 DEF HistTyped, HistFields
  <2>3. Flows'
    BY <1>1, <2>1, <2>2 DEF Flows, SeedFlow, XprvFlow, SigFlow, KsptFlow, KpubFlow, AddrFlow,
       DescFlow, Consent, Asked, Asks, At, AtOneOf, Encrypts, Warned, KsptScreens, KpubScreens,
     AddrScreens, DescScreens, TxtAsked, FrameCountFits, ExtOf
  <2>4. SavedIsAsked'
    BY <2>2 DEF Good, SavedIsAsked
  <2>5. ad'.screen \in FlowScreens
    BY <2>1 DEF FlowScreens, Asks, Asked
  <2> QED
    BY <2>1, <2>2, <2>3, <2>4, <2>5, FlowGoesOn
<1> QED
  BY <1>2, <1>3 DEF NameGiven

LEMMA WritesFile ==
  ASSUME Good, AdTyped(ad'), Aside, NEW kind, NEW enc, NEW secret, Write(kind, enc, secret),
         kind = hist.named, enc = secret, hist.exists => hist.agreed
  PROVE  Good'
<1>1. HistTyped(hist') /\ SavedIsAsked'
  <2>1. CASE hist' = hist
    BY <2>1 DEF Good, HistTyped, SavedIsAsked
  <2>2. CASE hist' # hist
    <3> DEFINE w == [kind |-> kind, enc |-> enc, named |-> hist.named, secret |-> secret,
                     name |-> "typed", exists |-> hist.exists, agreed |-> hist.agreed]
    <3>1. hist' = [hist EXCEPT !.written = {w}]
      BY <2>2, Zenon DEF Write, Saved
    <3>2. w.kind = w.named /\ w.enc = w.secret /\ (w.exists => w.agreed)
      OBVIOUS
    <3> HIDE DEF w
    <3>3. HistTyped(hist') /\ hist'.written = {w}
      BY <3>1 DEF Good, HistTyped, HistFields
    <3> QED
      BY <3>2, <3>3 DEF SavedIsAsked
  <2> QED
    BY <2>1, <2>2
<1> QED
  BY <1>1, CalmScreen, WalletSame DEF Aside, Good

\* A file with a typed name, of a kind that is written without a question.
LEMMA WritesUnasked ==
  ASSUME Good, AdTyped(ad'), Aside, NEW kind \in UnaskedKinds, WriteAtOnce(kind, kind, "typed")
  PROVE  Good'
<1>1. HistTyped(hist') /\ SavedIsAsked'
  <2>1. CASE hist' = hist
    BY <2>1 DEF Good, HistTyped, SavedIsAsked
  <2>2. CASE hist' # hist
    <3> DEFINE w(taken) == [kind |-> kind, enc |-> FALSE, named |-> kind, secret |-> FALSE,
                            name |-> "typed", exists |-> taken, agreed |-> FALSE]
    <3>1. PICK taken \in BOOLEAN : hist' = [hist EXCEPT !.written = {w(taken)}]
      BY <2>2, Zenon DEF WriteAtOnce, Saved
    <3>2. w(taken).kind = w(taken).named /\ w(taken).enc = w(taken).secret
            /\ w(taken).named \in UnaskedKinds /\ w(taken).name = "typed"
      OBVIOUS
    <3> HIDE DEF w
    <3>3. HistTyped(hist') /\ hist'.written = {w(taken)}
      BY <3>1 DEF Good, HistTyped, HistFields
    <3> QED
      BY <3>2, <3>3 DEF SavedIsAsked
  <2> QED
    BY <2>1, <2>2
<1> QED
  BY <1>1, CalmScreen, WalletSame DEF Aside, Good

\* The passphrase is wanted: what is encrypted is what was named.
LEMMA EncryptingKeeps ==
  ASSUME Good, AdTyped(ad'), Beside, ad'.screen = "SdKsptEncryptPass",
         hist' = [hist EXCEPT !.secret = TRUE], hist.exists => hist.agreed,
         \/ ad'.file = "KSP" /\ hist.named = ad'.buf.kind /\ ~ad'.buf.enc
              /\ (ad'.nframes > 0 => ad'.nframes = FramesOf(ad'.buf, ad'.safe))
         \/ /\ ad'.file = "TXT" /\ ad'.buf.kind = hist.named
            /\ \/ ad'.origin = "kpub" /\ hist.named = "kpub" /\ ad'.kpub = "kpub"
               \/ ad'.origin = "addr" /\ hist.named = "addr" /\ ad'.kpub = "addr"
               \/ ad'.origin = "desc" /\ hist.named = "desc" /\ ~ad'.buf.enc
  PROVE  Good'
<1>1. /\ HistTyped(hist') /\ hist'.named = hist.named /\ hist'.exists = hist.exists
      /\ hist'.agreed = hist.agreed /\ hist'.secret /\ hist'.written = hist.written
  BY DEF Good, HistTyped, HistFields
<1>2. Flows'
  BY <1>1 DEF Flows, SeedFlow, XprvFlow, SigFlow, KsptFlow, KpubFlow, AddrFlow,
     DescFlow, Consent, Asked, Asks, At, AtOneOf, Encrypts, Warned, KsptScreens, KpubScreens,
     AddrScreens, DescScreens, TxtAsked, FrameCountFits
<1>3. SavedIsAsked'
  BY <1>1 DEF Good, SavedIsAsked
<1>4. ad'.screen \in FlowScreens
  BY DEF FlowScreens
<1> QED
  BY <1>1, <1>2, <1>3, <1>4, FlowGoesOn

(***************************************************************************)
(* Files read: what is at hand afterwards.                                 *)
(***************************************************************************)
LEMMA ContentIs ==
  ASSUME NEW l, NEW f \in Content(l)
  PROVE  Content0(f)
<1>1. CASE f \in KeyFiles
  <2>1. CASE f = [kind |-> "seed", enc |-> TRUE, size |-> Single]
    BY <2>1 DEF Content0, Single, TooLong
  <2>2. CASE f = [kind |-> "xprv", enc |-> TRUE, size |-> Single]
    BY <2>2 DEF Content0, Single, TooLong
  <2>3. CASE f = Clear("xprv", Single) \/ f = Clear("raw", Single)
    BY <2>3, ClearIs
  <2> QED
    BY <1>1, <2>1, <2>2, <2>3, Zenon DEF KeyFiles
<1>2. CASE f \in CovFiles
  BY <1>2, ClearIs DEF CovFiles
<1>3. CASE f \in KspFiles
  <2>1. CASE f \in [kind : {"tx"}, enc : BOOLEAN, size : Sizes]
    BY <2>1 DEF Sizes, Content0, Single, Several, TooLong
  <2>2. CASE f \in [kind : {"desc", "addr"}, enc : BOOLEAN, size : {Single}]
    BY <2>2 DEF Content0, Single, TooLong
  <2> QED
    BY <1>3, <2>1, <2>2, Zenon DEF KspFiles
<1>4. CASE f \in TxtFiles
  BY <1>4 DEF TxtFiles, Content0, Single, TooLong
<1> QED
  BY <1>1, <1>2, <1>3, <1>4 DEF Content

LEMMA LoadsDescriptor ==
  ASSUME Good, UNCHANGED hist, NEW a, AdTyped(a), ~a.covb, NEW other, Free(other),
         LoadDescriptor(a, other)
  PROVE  Good'
<1>1. PICK u \in BOOLEAN :
        ad' = [a EXCEPT !.ms = [n |-> NCosigners, keys |-> [i \in Cosigners |-> i + 1],
                                active |-> FALSE, built |-> u],
                        !.screen = IF u THEN "MultisigDescriptor" ELSE other]
  <2>1. PICK v45 \in BOOLEAN, ours \in BOOLEAN :
          LET usable == ~v45 \/ (ours /\ Resolves(v45))
          IN ad' = [a EXCEPT !.ms = [n |-> NCosigners, keys |-> [i \in Cosigners |-> i + 1],
                                     active |-> FALSE, built |-> usable],
                             !.screen = IF usable THEN "MultisigDescriptor" ELSE other]
    BY Zenon DEF LoadDescriptor
  <2>2. (~v45 \/ (ours /\ Resolves(v45))) \in BOOLEAN
    OBVIOUS
  <2> QED
    BY <2>1, <2>2, Zenon
<1> DEFINE m == [n |-> NCosigners, keys |-> [i \in Cosigners |-> i + 1],
                 active |-> FALSE, built |-> u]
           s == IF u THEN "MultisigDescriptor" ELSE other
<1>2. ad' = [a EXCEPT !.ms = m, !.screen = s]
  BY <1>1, Zenon
<1>3. [i \in Cosigners |-> i + 1] \in Keys
  BY NCosignersAssumption DEF Keys, Owners, Cosigners
<1>4. Wallet(m) /\ Apart(m) /\ Filled(m) /\ ~m.active
  BY <1>3, NCosignersAssumption DEF Wallet, Apart, Filled, Nobody, Cosigners
<1>5. Free(s)
  BY DEF Free, Watched
<1> HIDE DEF m, s
<1>6. AdTyped(ad') /\ ad'.ms = m /\ Calm
  BY <1>2, <1>4, <1>5 DEF AdTyped, AdFields, Calm
<1>7. WalletKept'
  BY <1>4, <1>6 DEF WalletKept, Apart, Filled, Below
<1> QED
  BY <1>6, <1>7, Calmed

LEMMA LoadsBadDescriptor ==
  ASSUME Good, UNCHANGED hist, NEW a, AdTyped(a), ~a.covb, NEW other, Free(other),
         LoadBadDescriptor(a, other)
  PROVE  Good'
<1>1. AdTyped(ad') /\ ad'.ms = NoWallet /\ Calm
  BY NoWalletIs DEF LoadBadDescriptor, AdTyped, AdFields, Calm
<1> QED
  BY <1>1, BareKept, Calmed

\* A single address at hand: the wallet is no longer in use.
LEMMA WalletOff ==
  ASSUME Good, UNCHANGED hist, NEW m, m = [ad.ms EXCEPT !.active = FALSE],
         AdTyped(ad'), ad'.ms = m, ad'.keyIdx = ad.keyIdx, Calm
  PROVE  Good'
<1>1. ad'.ms.n = ad.ms.n /\ ad'.ms.keys = ad.ms.keys /\ ~ad'.ms.active
  BY DEF Good, AdTyped, Wallet
<1>2. WalletKept'
  BY <1>1 DEF Good, WalletKept, Apart, Below, Filled
<1> QED
  BY <1>2, Calmed

LEMMA OffTyped ==
  ASSUME NEW m, Wallet(m)
  PROVE  Wallet([m EXCEPT !.active = FALSE])
BY DEF Wallet

LEMMA DecryptWanted ==
  ASSUME Good, UNCHANGED hist, NEW a, AdTyped(a), a.ms = ad.ms, a.keyIdx = ad.keyIdx, ~a.covb,
         NEW f, Content0(f), ad' = ToDecrypt(a, f)
  PROVE  Good'
<1>1. ad' = [a EXCEPT !.buf = f, !.file = None, !.pp = "empty", !.screen = "SdKsptEncryptPass"]
  BY DEF ToDecrypt
<1>2. AdTyped(ad') /\ Beside /\ ad'.screen = "SdKsptEncryptPass" /\ ad'.file = None
  BY <1>1 DEF AdTyped, AdFields, PpTypes, Beside
<1>3. Flows'
  BY <1>2 DEF Flows, SeedFlow, XprvFlow, SigFlow, KsptFlow, KpubFlow, AddrFlow,
     DescFlow, Consent, Saving, Asked, Asks, At, AtOneOf, Encrypts, Warned, KsptScreens, KpubScreens,
     AddrScreens, DescScreens, TxtAsked, None
<1>4. HistTyped(hist') /\ SavedIsAsked'
  BY DEF Good, HistTyped, SavedIsAsked
<1>5. ad'.screen \in FlowScreens
  BY <1>2 DEF FlowScreens
<1> QED
  BY <1>2, <1>3, <1>4, <1>5, FlowGoesOn

LEMMA AddressAtHand ==
  ASSUME Good, UNCHANGED hist, NEW b, AdTyped(b), b.ms = ad.ms, b.keyIdx = ad.keyIdx, ~b.covb,
         ad' = [b EXCEPT !.kpub = "addr", !.ms.active = FALSE, !.screen = "MultisigShowAddress"]
  PROVE  Good'
<1> DEFINE m == [ad.ms EXCEPT !.active = FALSE]
<1>1. Wallet(m)
  BY OffTyped DEF Good, AdTyped
<1>2. ad'.ms = m
  BY DEF AdTyped, AdFields
<1> HIDE DEF m
<1>3. AdTyped(ad') /\ ad'.keyIdx = ad.keyIdx /\ Calm
  BY <1>1, <1>2 DEF AdTyped, AdFields, Calm, Free, Watched
<1> QED
  BY <1>2, <1>3, WalletOff DEF m

LEMMA AddressRead ==
  ASSUME Good, UNCHANGED hist, NEW a, AdTyped(a), a.ms = ad.ms, a.keyIdx = ad.keyIdx, ~a.covb,
         NEW f, Content0(f), ReadsAddress(a, f)
  PROVE  Good'
<1> DEFINE m == [ad.ms EXCEPT !.active = FALSE]
<1>1. ad' = [a EXCEPT !.kpub = "addr", !.ms.active = FALSE, !.buf = f,
                      !.nframes = 0, !.safe = FALSE, !.screen = "MultisigShowAddress"]
  BY DEF ReadsAddress
<1>2. Wallet(m)
  BY OffTyped DEF Good, AdTyped
<1>3. ad'.ms = m
  BY <1>1 DEF AdTyped, AdFields
<1> HIDE DEF m
<1>4. /\ DOMAIN ad' = AdFields /\ ad'.buf = f /\ ad'.nframes = 0 /\ ad'.safe \in BOOLEAN
      /\ ad'.kpub = "addr" /\ ad'.screen = "MultisigShowAddress"
      /\ ad'.seed = a.seed /\ ad'.pp = a.pp /\ ad'.file = a.file /\ ad'.kuser = a.kuser
      /\ ad'.kn = a.kn /\ ad'.origin = a.origin /\ ad'.txt = a.txt /\ ad'.covb = a.covb
      /\ ad'.keyIdx = a.keyIdx /\ ad'.addrReturn = a.addrReturn
      /\ ad'.kpubReturn = a.kpubReturn /\ ad'.backupReturn = a.backupReturn
      /\ ad'.deleteReturn = a.deleteReturn
  BY <1>1 DEF AdTyped, AdFields
<1>5. AdTyped(ad')
  BY <1>2, <1>3, <1>4 DEF AdTyped, TooLong
<1>6. ad'.keyIdx = ad.keyIdx /\ Calm
  BY <1>4 DEF Calm, Free, Watched
<1> QED
  BY <1>3, <1>5, <1>6, WalletOff DEF m

LEMMA WarningAnswered ==
  ASSUME Good, ~ad.covb, NEW back \in BOOLEAN, SdOverwriteWarning(back)
  PROVE  Good'
<1>1. Flows /\ HistTyped(hist) /\ AdTyped(ad) /\ ad.screen = "SdOverwriteWarning"
  BY DEF Good, ScreenKept, SdOverwriteWarning, At
<1>2. ad.owBack \in DOMAIN Asks /\ ad.owNext = Asks[ad.owBack]
  BY <1>1 DEF Flows, Consent, At
<1>3. CASE Go(ad.owBack) /\ UNCHANGED hist
  <2>1. /\ AdTyped(ad') /\ Beside /\ ad'.screen = ad.owBack /\ ad'.file = ad.file /\ ad'.buf = ad.buf
        /\ ad'.nframes = ad.nframes /\ ad'.safe = ad.safe /\ ad'.kpub = ad.kpub
    BY <1>1, <1>3 DEF Go, AdTyped, AdFields, Beside
  <2>2. Flows'
    BY <1>1, <1>2, <1>3, <2>1 DEF Flows, SeedFlow, XprvFlow, SigFlow, KsptFlow, KpubFlow, AddrFlow,
       DescFlow, Consent, Asked, Asks, At, AtOneOf, Encrypts, Warned, KsptScreens, KpubScreens,
     AddrScreens, DescScreens, TxtAsked, FrameCountFits
  <2>3. HistTyped(hist') /\ SavedIsAsked'
    BY <1>3 DEF Good, HistTyped, SavedIsAsked
  <2>4. ad'.screen \in FlowScreens
    BY <1>2, <2>1 DEF FlowScreens
  <2> QED
    BY <2>1, <2>2, <2>3, <2>4, FlowGoesOn
<1>4. CASE /\ ad' = [ad EXCEPT !.pp = "empty", !.screen = ad.owNext]
           /\ hist' = [hist EXCEPT !.agreed = TRUE]
  <2>1. /\ AdTyped(ad') /\ Beside /\ ad'.screen = ad.owNext /\ ad'.file = ad.file /\ ad'.buf = ad.buf
        /\ ad'.nframes = ad.nframes /\ ad'.safe = ad.safe /\ ad'.kpub = ad.kpub
    BY <1>1, <1>4 DEF AdTyped, AdFields, PpTypes, Beside
  <2>2. HistTyped(hist') /\ hist'.named = hist.named /\ hist'.agreed /\ hist'.written = hist.written
    BY <1>1, <1>4 DEF HistTyped, HistFields
  <2>3. Flows'
    BY <1>1, <1>2, <2>2, <2>1 DEF Flows, SeedFlow, XprvFlow, SigFlow, KsptFlow, KpubFlow, AddrFlow,
       DescFlow, Consent, Asked, Asks, At, AtOneOf, Encrypts, Warned, KsptScreens, KpubScreens,
     AddrScreens, DescScreens, TxtAsked, FrameCountFits
  <2>4. SavedIsAsked'
    BY <2>2 DEF Good, SavedIsAsked
  <2>5. ad'.screen \in FlowScreens
    BY <1>2, <2>1 DEF FlowScreens, Asked
  <2> QED
    BY <2>1, <2>3, <2>4, <2>5, <2>2, FlowGoesOn
<1> QED
  BY <1>3, <1>4 DEF SdOverwriteWarning

(***************************************************************************)
(* The passphrase screen, for saving and for loading.                      *)
(***************************************************************************)
LEMMA SavesEncrypted ==
  ASSUME Good, ~ad.covb, At("SdKsptEncryptPass"), SaveEncrypted
  PROVE  Good'
<1> DEFINE s == IF ad.file = "KSP" THEN "MainMenu"
                ELSE IF ad.origin = "kpub" THEN "ExportChoice" ELSE "MultisigDescriptor"
<1>1. ad' = [ad EXCEPT !.pp = "empty", !.screen = s] /\ Write(ad.buf.kind, TRUE, hist.secret)
  BY Zenon DEF SaveEncrypted
<1>2. Free(s)
  BY DEF Free, Watched
<1> HIDE DEF s
<1>3. AdTyped(ad') /\ Aside
  BY <1>1, <1>2 DEF Good, AdTyped, AdFields, PpTypes, Aside, Calm
<1>4. /\ ad.buf.kind = hist.named /\ hist.secret = TRUE
      /\ hist.exists => hist.agreed
  <2>1. Saving /\ ad.origin \in Origins
    BY DEF SaveEncrypted, Good, AdTyped
  <2>2. KsptFlow /\ KpubFlow /\ AddrFlow /\ DescFlow /\ Consent
    BY DEF Good, ScreenKept, Flows
  <2>3. ad.buf.kind = hist.named
    BY <2>1, <2>2 DEF Saving, Origins, KsptFlow, KpubFlow, AddrFlow, DescFlow, Encrypts,
       KsptScreens, KpubScreens, AddrScreens, DescScreens
  <2>4. hist.secret /\ (hist.exists => hist.agreed)
    BY <2>1, <2>2 DEF Consent
  <2> QED
    BY <2>3, <2>4 DEF Good, HistTyped
<1> QED
  BY <1>1, <1>3, <1>4, WritesFile

\* What was decrypted goes where the user came from.
LEMMA OpenedKeeps ==
  ASSUME Good, UNCHANGED hist, NEW a, AdTyped(a), a.ms = ad.ms, a.keyIdx = ad.keyIdx, ~a.covb,
         ~a.buf.enc, Opened(a)
  PROVE  Good'
<1>1. Free("SdImportMenu") /\ Free("SdKsptFileList")
  BY DEF Free, Watched
<1>2. \/ LoadDescriptor(a, "SdImportMenu") \/ LoadBadDescriptor(a, "SdImportMenu")
      \/ LoadDescriptor(a, "SdKsptFileList") \/ LoadBadDescriptor(a, "SdKsptFileList")
      \/ ad' = [a EXCEPT !.screen = "SdImportMenu"]
      \/ a.buf.kind = "kpub"
           /\ ad' = Redrawn([a EXCEPT !.kpub = a.buf.kind, !.kn = 0, !.screen = "ExportKpub"])
      \/ a.buf.kind = "addr"
           /\ ad' = [a EXCEPT !.kpub = a.buf.kind, !.ms.active = FALSE,
                              !.screen = "MultisigShowAddress"]
      \/ ad' = [a EXCEPT !.screen = "ShowQrFrameChoice"]
  BY Zenon DEF Opened
<1>3. CASE ad' = [a EXCEPT !.screen = "SdImportMenu"]
  BY <1>3, StepAside DEF AdTyped, AdFields, Aside, Calm, Free, Watched
<1>4. CASE a.buf.kind = "kpub"
             /\ ad' = Redrawn([a EXCEPT !.kpub = a.buf.kind, !.kn = 0, !.screen = "ExportKpub"])
  <2> DEFINE c == [a EXCEPT !.kpub = a.buf.kind, !.kn = 0, !.screen = "ExportKpub"]
  <2>1. ad' = Redrawn(c)
    BY <1>4, Zenon
  <2>2. AdTyped(c) /\ c.ms = ad.ms /\ c.keyIdx = ad.keyIdx /\ ~c.covb
        /\ c.screen = "ExportKpub" /\ c.kpub = "kpub" /\ c.kn = 0
    BY <1>4 DEF AdTyped, AdFields
  <2> HIDE DEF c
  <2> QED
    BY <2>1, <2>2, DrawsKpub
<1>5. CASE a.buf.kind = "addr"
             /\ ad' = [a EXCEPT !.kpub = a.buf.kind, !.ms.active = FALSE,
                                !.screen = "MultisigShowAddress"]
  <2>1. ad' = [a EXCEPT !.kpub = "addr", !.ms.active = FALSE, !.screen = "MultisigShowAddress"]
    BY <1>5, Zenon
  <2> QED
    BY <2>1, AddressAtHand
<1>6. CASE ad' = [a EXCEPT !.screen = "ShowQrFrameChoice"]
  <2>1. AdTyped(ad') /\ Beside /\ ad'.screen = "ShowQrFrameChoice" /\ ~ad'.buf.enc
    BY <1>6 DEF AdTyped, AdFields, Beside
  <2> QED
    BY <2>1, ShowsPayload DEF QrAsked
<1> QED
  BY <1>1, <1>2, <1>3, <1>4, <1>5, <1>6, LoadsDescriptor, LoadsBadDescriptor, Zenon

LEMMA PassphraseTyped ==
  ASSUME Good, ~ad.covb, NEW back \in BOOLEAN, SdKsptEncryptPass(back)
  PROVE  Good'
<1>1. At("SdKsptEncryptPass")
  BY DEF SdKsptEncryptPass
<1>2. CASE SaveEncrypted
  BY <1>1, <1>2, SavesEncrypted
<1>3. CASE LoadEncrypted
  <2> DEFINE a == [ad EXCEPT !.buf.enc = FALSE, !.nframes = 0, !.safe = FALSE, !.pp = "empty"]
             b == [ad.buf EXCEPT !.enc = FALSE]
  <2>1. CASE Opened(a)
    <3>1. Content0(b) /\ ~b.enc
      BY DEF Good, AdTyped, Content0
    <3>2. a.buf = b
      BY DEF Good, AdTyped, AdFields
    <3> HIDE DEF b
    <3>3. /\ DOMAIN a = AdFields /\ a.nframes = 0 /\ a.safe \in BOOLEAN /\ a.pp = "empty"
          /\ a.seed = ad.seed /\ a.file = ad.file /\ a.kuser = ad.kuser /\ a.kpub = ad.kpub
          /\ a.kn = ad.kn /\ a.origin = ad.origin /\ a.txt = ad.txt /\ a.covb = ad.covb
          /\ a.ms = ad.ms /\ a.keyIdx = ad.keyIdx /\ a.addrReturn = ad.addrReturn
          /\ a.kpubReturn = ad.kpubReturn /\ a.backupReturn = ad.backupReturn
          /\ a.deleteReturn = ad.deleteReturn
      BY DEF Good, AdTyped, AdFields
    <3> HIDE DEF a
    <3>4. AdTyped(a) /\ ~a.covb
      BY <3>1, <3>2, <3>3 DEF Good, AdTyped, TooLong, PpTypes
    <3>5. UNCHANGED hist
      BY <1>3 DEF LoadEncrypted
    <3> QED
      BY <2>1, <3>1, <3>2, <3>3, <3>4, <3>5, OpenedKeeps
  <2>2. CASE ad' = [ad EXCEPT !.buf = Empty, !.pp = "empty", !.screen = "SdKsptFileList"]
    <3>1. Content0(Empty)
      BY DEF Content0, Empty, TooLong
    <3>2. AdTyped(ad') /\ Aside
      BY <2>2, <3>1 DEF Good, AdTyped, AdFields, PpTypes, Aside, Calm, Free, Watched
    <3> QED
      BY <1>3, <3>2, StepAside DEF LoadEncrypted
  <2> QED
    BY <1>3, <2>1, <2>2, Zenon DEF LoadEncrypted
<1>4. CASE ~SaveEncrypted /\ ~LoadEncrypted
  <2> DEFINE s == CASE ad.file = "KSP" -> "SdKsptEncryptAsk"
                    [] ad.file = "TXT" /\ ad.origin = "kpub" -> "SdKpubEncryptAsk"
                    [] ad.file = "TXT" /\ ad.origin = "desc" -> "SdMsDescEncryptAsk"
                    [] ad.file = "TXT" /\ ad.origin \notin {"kpub", "desc"} -> "SdMsAddrEncryptAsk"
                    [] OTHER -> "SdKsptFileList"
  <2>1. ad' = [ad EXCEPT !.pp = "empty", !.screen = s] /\ UNCHANGED hist
    BY <1>4, Zenon DEF SdKsptEncryptPass
  <2>2. \/ s = "SdKsptEncryptAsk" /\ ad.file = "KSP"
        \/ s = "SdKpubEncryptAsk" /\ ad.file = "TXT" /\ ad.origin = "kpub"
        \/ s = "SdMsDescEncryptAsk" /\ ad.file = "TXT" /\ ad.origin = "desc"
        \/ s = "SdMsAddrEncryptAsk" /\ ad.file = "TXT" /\ ad.origin \in {"addr", "tx"}
        \/ s = "SdKsptFileList"
    BY DEF Good, AdTyped, Origins
  <2> HIDE DEF s
  <2>3. /\ AdTyped(ad') /\ Beside /\ ad'.screen = s /\ ad'.buf = ad.buf /\ ad'.file = ad.file
        /\ ad'.nframes = ad.nframes /\ ad'.safe = ad.safe /\ ad'.kpub = ad.kpub
    BY <2>1 DEF Good, AdTyped, AdFields, PpTypes, Beside
  <2>4. Flows /\ ad.origin \in Origins
    BY DEF Good, ScreenKept, AdTyped
  <2>5. CASE s = "SdKsptFileList"
    BY <2>1, <2>3, <2>5, StepAside DEF Beside, Aside, Calm, Free, Watched
  <2>6. CASE s # "SdKsptFileList"
    <3>1. Flows'
      BY <1>1, <2>1, <2>2, <2>3, <2>4, <2>6 DEF Flows, SeedFlow, XprvFlow, SigFlow, KsptFlow, KpubFlow,
         AddrFlow, DescFlow, Consent, Saving, Asked, Asks, At, AtOneOf, Encrypts, Warned, KsptScreens, KpubScreens,
     AddrScreens, DescScreens, TxtAsked,
         FrameCountFits
    <3>2. ad'.screen \in FlowScreens
      BY <2>2, <2>3, <2>6 DEF FlowScreens, Asked, Asks
    <3>3. HistTyped(hist') /\ SavedIsAsked'
      BY <2>1 DEF Good, HistTyped, SavedIsAsked
    <3> QED
      BY <2>3, <3>1, <3>2, <3>3, FlowGoesOn
  <2> QED
    BY <2>5, <2>6
<1> QED
  BY <1>2, <1>3, <1>4

LEMMA TouchCardKeep ==
  ASSUME Good, ~ad.covb, Detours = {}, NEW back \in BOOLEAN, TouchCard(back)
  PROVE  Good'
<1>1. CASE SdBackupWarning(back)
  <2>1. CASE Go("SeedBackupMenu") /\ UNCHANGED hist
    BY <2>1, GoFree DEF Quiet, Free, Watched
  <2>2. CASE Naming("SdSeedFilename", "KAS", "name", "seed")
    <3>1. NameFits([ad EXCEPT !.screen = "SdSeedFilename"], "seed")
      BY DEF NameFits, Good, AdTyped, AdFields
    <3> QED
      BY <2>2, <3>1, NamingKeeps DEF PpTypes
  <2> QED
    BY <1>1, <2>1, <2>2 DEF SdBackupWarning
<1>2. CASE SdSeedFilename(back)
  <2>1. ad.screen = "SdSeedFilename"
    BY <1>2 DEF SdSeedFilename, NameTyped, At
  <2>2. CASE ad' = [ad EXCEPT !.pp = "empty", !.screen = "SeedBackupMenu"] /\ UNCHANGED hist
    BY <2>2, WritesPp DEF PpTypes, Quiet, Free, Watched
  <2>3. CASE NameGiven("KAS", "SdBackupPassphrase")
    BY <2>1, <2>3, NameGivenKeeps DEF Asks, ExtOf
  <2> QED
    BY <1>2, <2>2, <2>3 DEF SdSeedFilename, NameTyped
<1>3. CASE SdBackupPassphrase(back)
  <2>1. hist.named = "seed" /\ (hist.exists => hist.agreed)
    BY <1>3 DEF SdBackupPassphrase, Good, ScreenKept, Flows, SeedFlow, Consent, Asked, Asks, At, AtOneOf
  <2> DEFINE s == IF back THEN "SeedBackupMenu" ELSE "SeedList"
  <2>2. ad' = [ad EXCEPT !.pp = "empty", !.screen = s]
    BY <1>3, Zenon DEF SdBackupPassphrase
  <2>3. Free(s)
    BY DEF Free, Watched
  <2> HIDE DEF s
  <2>4. AdTyped(ad') /\ Aside
    BY <2>2, <2>3 DEF Good, AdTyped, AdFields, PpTypes, Aside, Calm
  <2>5. CASE UNCHANGED hist
    BY <2>4, <2>5, StepAside
  <2>6. CASE Write("seed", TRUE, TRUE)
    BY <2>1, <2>4, <2>6, WritesFile
  <2> QED
    BY <1>3, <2>5, <2>6, Zenon DEF SdBackupPassphrase
<1>4. CASE SdXprvFilename(back)
  <2>1. ad.screen = "SdXprvFilename"
    BY <1>4 DEF SdXprvFilename, NameTyped, At
  <2>2. CASE ad' = [ad EXCEPT !.pp = "empty", !.screen = "SigningKeysMenu"] /\ UNCHANGED hist
    BY <2>2, WritesPp DEF PpTypes, Quiet, Free, Watched
  <2>3. CASE NameGiven("KAS", "SdXprvExportPassphrase")
    BY <2>1, <2>3, NameGivenKeeps DEF Asks, ExtOf
  <2> QED
    BY <1>4, <2>2, <2>3 DEF SdXprvFilename, NameTyped
<1>5. CASE SdXprvExportPassphrase(back)
  <2>1. hist.named = "xprv" /\ (hist.exists => hist.agreed)
    BY <1>5 DEF SdXprvExportPassphrase, Good, ScreenKept, Flows, XprvFlow, Consent, Asked, Asks, At, AtOneOf
  <2>2. CASE ad' = [ad EXCEPT !.pp = "empty", !.screen = "SigningKeysMenu"] /\ UNCHANGED hist
    BY <2>2, WritesPp DEF PpTypes, Quiet, Free, Watched
  <2>3. CASE ad' = [ad EXCEPT !.pp = "empty", !.screen = "SeedList"] /\ Write("xprv", TRUE, TRUE)
    <3>1. AdTyped(ad') /\ Aside
      BY <2>3 DEF Good, AdTyped, AdFields, PpTypes, Aside, Calm, Free, Watched
    <3> QED
      BY <2>1, <2>3, <3>1, WritesFile
  <2> QED
    BY <1>5, <2>2, <2>3, Zenon DEF SdXprvExportPassphrase
<1>6. CASE SdSigFilename(back)
  <2>1. hist.named = "sig"
    BY <1>6 DEF SdSigFilename, Good, ScreenKept, Flows, SigFlow, At
  <2>2. CASE ad' = [ad EXCEPT !.pp = "empty", !.screen = "MainMenu"] /\ UNCHANGED hist
    BY <2>2, WritesPp DEF PpTypes, Quiet, Free, Watched
  <2>3. CASE /\ ad' = [ad EXCEPT !.file = "TXT", !.pp = "empty", !.screen = "MainMenu"]
             /\ WriteAtOnce("sig", hist.named, "typed")
    <3>1. AdTyped(ad') /\ Aside
      BY <2>3 DEF Good, AdTyped, AdFields, PpTypes, Aside, Calm, Free, Watched
    <3> QED
      BY <2>1, <2>3, <3>1, WritesUnasked DEF UnaskedKinds
  <2> QED
    BY <1>6, <2>2, <2>3, Zenon DEF SdSigFilename
<1>7. CASE SdImportMenu(back)
  <2>1. Free("ImportMenu") /\ Free("SdFileList") /\ Free("SdKsptFileList") /\ Free("SdKpubFileList")
    BY DEF Free, Watched
  <2>2. ASSUME NEW l, ad' = [ad EXCEPT !.list = l, !.first = "file", !.screen = "SdFileList"],
               UNCHANGED hist
        PROVE  Good'
    BY <2>1, <2>2, ListsFiles DEF Quiet
  <2>3. CASE ad' = [ad EXCEPT !.list = "ksp", !.first = "file", !.origin = "tx",
                              !.screen = "SdKsptFileList"] /\ UNCHANGED hist
    BY <2>1, <2>3, ListsKsp DEF Quiet, Origins
  <2>4. ASSUME NEW t \in {"kpub", "addr", "desc"}, UNCHANGED hist,
               ad' = [ad EXCEPT !.list = "txt", !.first = "file", !.txt = t,
                                !.screen = "SdKpubFileList"]
        PROVE  Good'
    BY <2>1, <2>4, ListsTxt DEF Quiet
  <2>5. CASE Go("ImportMenu") /\ UNCHANGED hist
    BY <2>1, <2>5, GoFree DEF Quiet
  <2> QED
    BY <1>7, <2>2, <2>3, <2>4, <2>5, Zenon DEF SdImportMenu
<1>8. CASE SdFileList(back)
  <2>1. UNCHANGED hist /\ ad.screen = "SdFileList"
    BY <1>8 DEF SdFileList, At
  <2>2. CASE Go("SdImportMenu")
    BY <2>1, <2>2, GoFree DEF Quiet, Free, Watched
  <2>3. ASSUME NEW f \in Content(ad.list), NEW k \in MayBeKsp(ad.list),
               LET a == [ad EXCEPT !.pickedKsp = k]
               IN  /\ ~back
                   /\ \/ ad' = [a EXCEPT !.screen = "SdDeleteConfirm"]
                      \/ f.kind = "cov" /\ ad' = [a EXCEPT !.buf = f]
                      \/ LoadsKey(a, f)
        PROVE  Good'
    <3> DEFINE a == [ad EXCEPT !.pickedKsp = k]
    <3>1. AdTyped(a) /\ a.ms = ad.ms /\ a.keyIdx = ad.keyIdx /\ ~a.covb /\ a.screen = "SdFileList"
      BY <2>1 DEF Good, AdTyped, AdFields
    <3>2. Content0(f)
      BY ContentIs
    <3>3. \/ ad' = [a EXCEPT !.screen = "SdDeleteConfirm"]
          \/ ad' = [a EXCEPT !.buf = f]
          \/ LoadsKey(a, f)
      BY <2>3, Zenon
    <3> HIDE DEF a
    <3>4. CASE ad' = [a EXCEPT !.screen = "SdDeleteConfirm"]
      BY <2>1, <3>1, <3>4, StepAside DEF AdTyped, AdFields, Aside, Calm, Free, Watched
    <3>5. CASE ad' = [a EXCEPT !.buf = f]
      BY <2>1, <3>1, <3>2, <3>5, StepAside DEF AdTyped, AdFields, Aside, Calm, Free, Watched
    <3>6. CASE LoadsKey(a, f)
      <4>1. ASSUME NEW s \in {"SdRestorePassphrase", "SdXprvImportPassphrase"},
                   ad' = [a EXCEPT !.pp = "empty", !.screen = s]
            PROVE  Good'
        BY <2>1, <3>1, <4>1, StepAside DEF AdTyped, AdFields, PpTypes, Aside, Calm, Free, Watched
      <4>2. CASE ad' = [a EXCEPT !.seed = "xprv", !.screen = "SeedList"]
        BY <2>1, <3>1, <4>2, StepAside DEF AdTyped, AdFields, SeedKinds, Kinds, Aside, Calm, Free, Watched
      <4>3. CASE ad' = [a EXCEPT !.seed = "raw"]
        BY <2>1, <3>1, <4>3, StepAside DEF AdTyped, AdFields, SeedKinds, Kinds, Aside, Calm, Free, Watched
      <4> QED
        BY <3>6, <4>1, <4>2, <4>3, Zenon DEF LoadsKey
    <3> QED
      BY <3>3, <3>4, <3>5, <3>6, Zenon
  <2> QED
    BY <1>8, <2>2, <2>3, Zenon DEF SdFileList
<1>9. CASE SdKsptFileList(back)
  <2>1. UNCHANGED hist
    BY <1>9 DEF SdKsptFileList
  <2>2. CASE Go("SdImportMenu")
    BY <2>1, <2>2, GoFree DEF Quiet, Free, Watched
  <2>3. ASSUME NEW f \in Content(ad.list), NEW k \in MayBeKsp(ad.list),
               LET a == [ad EXCEPT !.pickedKsp = k]
                   b == [a EXCEPT !.buf = f, !.nframes = 0, !.safe = FALSE]
               IN  /\ ~back
                   /\ \/ ad' = [a EXCEPT !.screen = "SdDeleteConfirm"]
                      \/ f.enc /\ ad' = ToDecrypt(a, f)
                      \/ ~f.enc /\ f.kind = "desc" /\ LoadDescriptor(b, "SdKsptFileList")
                      \/ ~f.enc /\ f.kind = "desc" /\ LoadBadDescriptor(b, "SdKsptFileList")
                      \/ /\ ~f.enc /\ f.kind = "addr"
                         /\ ad' = [b EXCEPT !.kpub = "addr", !.ms.active = FALSE,
                                            !.screen = "MultisigShowAddress"]
                      \/ /\ ~f.enc /\ f.kind \notin {"desc", "addr"}
                         /\ ad' = [b EXCEPT !.screen = "ShowQrFrameChoice"]
        PROVE  Good'
    <3> DEFINE a == [ad EXCEPT !.pickedKsp = k]
               b == [a EXCEPT !.buf = f, !.nframes = 0, !.safe = FALSE]
    <3>1. AdTyped(a) /\ a.ms = ad.ms /\ a.keyIdx = ad.keyIdx /\ ~a.covb
      BY DEF Good, AdTyped, AdFields
    <3>2. Content0(f)
      BY ContentIs
    <3>3. \/ ad' = [a EXCEPT !.screen = "SdDeleteConfirm"]
          \/ ad' = ToDecrypt(a, f)
          \/ LoadDescriptor(b, "SdKsptFileList")
          \/ LoadBadDescriptor(b, "SdKsptFileList")
          \/ ad' = [b EXCEPT !.kpub = "addr", !.ms.active = FALSE, !.screen = "MultisigShowAddress"]
          \/ ~f.enc /\ ad' = [b EXCEPT !.screen = "ShowQrFrameChoice"]
      BY <2>3, Zenon
    <3>4. Free("SdKsptFileList")
      BY DEF Free, Watched
    <3> HIDE DEF a
    <3>5. AdTyped(b) /\ b.ms = ad.ms /\ b.keyIdx = ad.keyIdx /\ ~b.covb /\ b.buf = f
      BY <3>1, <3>2 DEF AdTyped, AdFields, TooLong
    <3> HIDE DEF b
    <3>6. CASE ad' = [a EXCEPT !.screen = "SdDeleteConfirm"]
      BY <2>1, <3>1, <3>6, StepAside DEF AdTyped, AdFields, Aside, Calm, Free, Watched
    <3>7. CASE ad' = ToDecrypt(a, f)
      BY <2>1, <3>1, <3>2, <3>7, DecryptWanted
    <3>8. CASE ad' = [b EXCEPT !.kpub = "addr", !.ms.active = FALSE, !.screen = "MultisigShowAddress"]
      BY <2>1, <3>5, <3>8, AddressAtHand
    <3>9. CASE ~f.enc /\ ad' = [b EXCEPT !.screen = "ShowQrFrameChoice"]
      <4>1. AdTyped(ad') /\ Beside /\ ad'.screen = "ShowQrFrameChoice" /\ ~ad'.buf.enc
        BY <3>5, <3>9 DEF AdTyped, AdFields, Beside
      <4> QED
        BY <2>1, <4>1, ShowsPayload DEF QrAsked
    <3> QED
      BY <2>1, <3>3, <3>4, <3>5, <3>6, <3>7, <3>8, <3>9, LoadsDescriptor, LoadsBadDescriptor, Zenon
  <2> QED
    BY <1>9, <2>2, <2>3, Zenon DEF SdKsptFileList
<1>10. CASE SdKpubFileList(back)
  <2>1. UNCHANGED hist
    BY <1>10 DEF SdKpubFileList
  <2>2. CASE Go("SdImportMenu")
    BY <2>1, <2>2, GoFree DEF Quiet, Free, Watched
  <2>3. ASSUME NEW f \in Content(ad.list), NEW k \in MayBeKsp(ad.list),
               LET a == [ad EXCEPT !.pickedKsp = k]
               IN  /\ ~back
                   /\ \/ ad' = [a EXCEPT !.deleteReturn = "SdKpubFileList",
                                         !.screen = "SdDeleteConfirm"]
                      \/ f.enc /\ ad' = ToDecrypt([a EXCEPT !.origin = ad.txt], f)
                      \/ ~f.enc /\ (ReadsKpub(a, f) \/ ReadsAddress(a, f) \/ ReadsDescriptor(a, f))
        PROVE  Good'
    <3> DEFINE a == [ad EXCEPT !.pickedKsp = k]
               b == [a EXCEPT !.origin = ad.txt]
    <3>1. AdTyped(a) /\ a.ms = ad.ms /\ a.keyIdx = ad.keyIdx /\ ~a.covb
      BY DEF Good, AdTyped, AdFields
    <3>2. Content0(f)
      BY ContentIs
    <3>3. \/ ad' = [a EXCEPT !.deleteReturn = "SdKpubFileList", !.screen = "SdDeleteConfirm"]
          \/ ad' = ToDecrypt(b, f)
          \/ ReadsKpub(a, f) \/ ReadsAddress(a, f) \/ ReadsDescriptor(a, f)
      BY <2>3, Zenon
    <3>4. Free("SdKpubFileList")
      BY DEF Free, Watched
    <3> HIDE DEF a
    <3>5. AdTyped(b) /\ b.ms = ad.ms /\ b.keyIdx = ad.keyIdx /\ ~b.covb
      BY <3>1 DEF Good, AdTyped, AdFields, Origins
    <3> HIDE DEF b
    <3>6. CASE ad' = [a EXCEPT !.deleteReturn = "SdKpubFileList", !.screen = "SdDeleteConfirm"]
      BY <2>1, <3>1, <3>6, StepAside DEF AdTyped, AdFields, Aside, Calm, Free, Watched
    <3>7. CASE ad' = ToDecrypt(b, f)
      BY <2>1, <3>5, <3>2, <3>7, DecryptWanted
    <3>8. CASE ReadsKpub(a, f)
      <4> DEFINE c == [a EXCEPT !.kpub = "kpub", !.kn = 0, !.screen = "ExportKpub"]
      <4>1. ad' = Redrawn(c)
        <5>1. KpubForms = {"kpub"}
          BY DEF KpubForms
        <5>2. PICK form \in {"kpub"} :
                ad' = Redrawn([a EXCEPT !.kpub = form, !.kn = 0, !.screen = "ExportKpub"])
          BY <3>8, <5>1, Zenon DEF ReadsKpub
        <5>3. form = "kpub"
          OBVIOUS
        <5> QED
          BY <5>2, <5>3, Zenon
      <4>2. AdTyped(c) /\ c.ms = ad.ms /\ c.keyIdx = ad.keyIdx /\ ~c.covb
            /\ c.screen = "ExportKpub" /\ c.kpub = "kpub" /\ c.kn = 0
        BY <3>1 DEF AdTyped, AdFields
      <4> HIDE DEF c
      <4> QED
        BY <2>1, <4>1, <4>2, DrawsKpub
    <3>9. CASE ReadsAddress(a, f)
      BY <2>1, <3>1, <3>2, <3>9, AddressRead
    <3>10. CASE ReadsDescriptor(a, f)
      BY <2>1, <3>1, <3>4, <3>10, LoadsDescriptor, LoadsBadDescriptor, Zenon DEF ReadsDescriptor
    <3> QED
      BY <3>3, <3>6, <3>7, <3>8, <3>9, <3>10, Zenon
  <2> QED
    BY <1>10, <2>2, <2>3, Zenon DEF SdKpubFileList
<1>11. CASE SdDeleteConfirm(back)
  <2> DEFINE list == IF ad.deleteReturn # "MainMenu" THEN ad.deleteReturn
                     ELSE IF ad.pickedKsp THEN "SdKsptFileList" ELSE "SdFileList"
  <2>1. UNCHANGED hist /\ ad.screen = "SdDeleteConfirm"
    BY <1>11 DEF SdDeleteConfirm, At
  <2>2. Free(list)
    BY DEF Good, AdTyped, Free, Watched
  <2>3. ad' = [ad EXCEPT !.deleteReturn = "MainMenu", !.screen = list]
          \/ ad' = [ad EXCEPT !.deleteReturn = "MainMenu"]
    BY <1>11, Zenon DEF SdDeleteConfirm
  <2> HIDE DEF list
  <2>4. CASE ad' = [ad EXCEPT !.deleteReturn = "MainMenu", !.screen = list]
    BY <2>1, <2>2, <2>4, WritesReturn DEF Quiet
  <2>5. CASE ad' = [ad EXCEPT !.deleteReturn = "MainMenu"]
    BY <2>1, <2>5, StepAside DEF Good, AdTyped, AdFields, Aside, Calm, Free, Watched
  <2> QED
    BY <2>3, <2>4, <2>5
<1>12. CASE SdRestorePassphrase(back)
  <2>1. UNCHANGED hist
    BY <1>12 DEF SdRestorePassphrase
  <2>2. PICK s \in {"SdFileList", "PassphraseEntry", "SeedList", "MainMenu"} :
          ad' = [ad EXCEPT !.pp = "empty", !.screen = s]
    <3>1. PICK s \in IF back THEN {"SdFileList"}
                     ELSE {"PassphraseEntry", IF SeedLoaded THEN "SeedList" ELSE "MainMenu"} :
            ad' = [ad EXCEPT !.pp = "empty", !.screen = s]
      BY <1>12, Zenon DEF SdRestorePassphrase
    <3>2. s \in {"SdFileList", "PassphraseEntry", "SeedList", "MainMenu"}
      OBVIOUS
    <3> QED
      BY <3>1, <3>2, Zenon
  <2> QED
    BY <2>1, <2>2, WritesPp DEF PpTypes, Quiet, Free, Watched
<1>13. CASE SdXprvFileList(back)
  <2>1. Free("SdImportMenu") /\ Free("SdXprvImportPassphrase")
    BY DEF Free, Watched
  <2> QED
    BY <1>13, <2>1, GoFree, WritesPp, Zenon DEF SdXprvFileList, PpTypes, Quiet
<1>14. CASE SdXprvImportPassphrase(back)
  <2>1. UNCHANGED hist
    BY <1>14 DEF SdXprvImportPassphrase
  <2>2. ASSUME NEW s \in {"SdXprvFileList", "SdFileList"},
               ad' = [[ad EXCEPT !.pp = "empty"] EXCEPT !.screen = s]
        PROVE  Good'
    BY <2>1, <2>2, StepAside DEF Good, AdTyped, AdFields, PpTypes, Aside, Calm, Free, Watched
  <2>3. CASE ad' = [[ad EXCEPT !.pp = "empty"] EXCEPT !.seed = "xprv", !.screen = "SeedList"]
    BY <2>1, <2>3, StepAside DEF Good, AdTyped, AdFields, PpTypes, SeedKinds, Kinds, Aside, Calm, Free,
       Watched
  <2> QED
    BY <1>14, <2>2, <2>3, Zenon DEF SdXprvImportPassphrase
<1>15. CASE SdKsptFilename(back)
  <2>1. ad.screen = "SdKsptFilename"
    BY <1>15 DEF SdKsptFilename, NameTyped, At
  <2>2. CASE ad' = [ad EXCEPT !.pp = "empty", !.screen = "ShowQrPopup"] /\ UNCHANGED hist
    <3>1. ~ad.buf.enc /\ FrameCountFits
      BY <2>1 DEF Good, ScreenKept, Flows, KsptFlow, KsptScreens, At
    <3>2. AdTyped(ad') /\ Beside /\ ad'.screen = "ShowQrPopup" /\ ad'.buf = ad.buf
          /\ ad'.nframes = ad.nframes /\ ad'.safe = ad.safe
      BY <2>2 DEF Good, AdTyped, AdFields, PpTypes, Beside
    <3> QED
      BY <2>2, <3>1, <3>2, ShowsPayload DEF QrShown, FrameCountFits
  <2>3. CASE NameGiven("KSP", "SdKsptEncryptAsk")
    BY <2>1, <2>3, NameGivenKeeps DEF Asks, ExtOf
  <2> QED
    BY <1>15, <2>2, <2>3 DEF SdKsptFilename, NameTyped
<1>16. CASE SdKpubFilename(back)
  <2>1. ad.screen = "SdKpubFilename"
    BY <1>16 DEF SdKpubFilename, NameTyped, At
  <2>2. CASE ad' = [ad EXCEPT !.pp = "empty", !.screen = "WatchOnlyMenu"] /\ UNCHANGED hist
    BY <2>2, WritesPp DEF PpTypes, Quiet, Free, Watched
  <2>3. CASE NameGiven("TXT", "SdKpubEncryptAsk")
    BY <2>1, <2>3, NameGivenKeeps DEF Asks, ExtOf
  <2> QED
    BY <1>16, <2>2, <2>3 DEF SdKpubFilename, NameTyped
<1>17. CASE SdMsAddrFilename(back)
  <2>1. ad.screen = "SdMsAddrFilename"
    BY <1>17 DEF SdMsAddrFilename, NameTyped, At
  <2>2. CASE ad' = [ad EXCEPT !.pp = "empty", !.screen = "MultisigShowAddress"] /\ UNCHANGED hist
    BY <2>2, WritesPp DEF PpTypes, Quiet, Free, Watched
  <2>3. CASE NameGiven("TXT", "SdMsAddrEncryptAsk")
    BY <2>1, <2>3, NameGivenKeeps DEF Asks, ExtOf
  <2> QED
    BY <1>17, <2>2, <2>3 DEF SdMsAddrFilename, NameTyped
<1>18. CASE SdMsDescFilename(back)
  <2>1. ad.screen = "SdMsDescFilename"
    BY <1>18 DEF SdMsDescFilename, NameTyped, At
  <2>2. CASE ad' = [ad EXCEPT !.pp = "empty", !.screen = "MultisigDescriptor"] /\ UNCHANGED hist
    BY <2>2, WritesPp DEF PpTypes, Quiet, Free, Watched
  <2>3. CASE NameGiven("TXT", "SdMsDescEncryptAsk")
    BY <2>1, <2>3, NameGivenKeeps DEF Asks, ExtOf
  <2> QED
    BY <1>18, <2>2, <2>3 DEF SdMsDescFilename, NameTyped
<1>19. CASE SdKsptEncryptAsk(back)
  <2>1. /\ hist.named = ad.buf.kind /\ ~ad.buf.enc /\ FrameCountFits /\ ad.file = "KSP"
        /\ hist.exists => hist.agreed
    BY <1>19 DEF SdKsptEncryptAsk, Good, ScreenKept, Flows, KsptFlow, KsptScreens, Consent, Asked, Asks, At, AtOneOf
  <2>2. CASE Go("ShowQrPopup") /\ UNCHANGED hist
    <3>1. AdTyped(ad') /\ Beside /\ ad'.screen = "ShowQrPopup" /\ ad'.buf = ad.buf
          /\ ad'.nframes = ad.nframes /\ ad'.safe = ad.safe
      BY <2>2 DEF Go, Good, AdTyped, AdFields, Beside
    <3> QED
      BY <2>1, <2>2, <3>1, ShowsPayload DEF QrShown, FrameCountFits
  <2>3. CASE Encrypting(ad)
    <3>1. AdTyped(ad') /\ Beside /\ ad'.screen = "SdKsptEncryptPass" /\ ad'.buf = ad.buf
          /\ ad'.nframes = ad.nframes /\ ad'.safe = ad.safe /\ ad'.file = ad.file
      BY <2>3 DEF Encrypting, Good, AdTyped, AdFields, PpTypes, Beside
    <3>2. hist' = [hist EXCEPT !.secret = TRUE]
      BY <2>3 DEF Encrypting
    <3> QED
      BY <2>1, <3>1, <3>2, EncryptingKeeps DEF FrameCountFits
  <2>4. CASE Go("MainMenu") /\ Write(ad.buf.kind, ad.buf.enc, FALSE)
    <3>1. AdTyped(ad') /\ Aside
      BY <2>4 DEF Go, Good, AdTyped, AdFields, Aside, Calm, Free, Watched
    <3>2. ad.buf.enc = FALSE
      BY <2>1 DEF Good, AdTyped, Content0
    <3> QED
      BY <2>1, <2>4, <3>1, <3>2, WritesFile
  <2> QED
    BY <1>19, <2>2, <2>3, <2>4, Zenon DEF SdKsptEncryptAsk
<1>20. CASE SdMsAddrEncryptAsk(back)
  <2>1. /\ hist.named = "addr" /\ ad.file = "TXT" /\ (hist.exists => hist.agreed)
        /\ ad.kpub = "addr"
    BY <1>20 DEF SdMsAddrEncryptAsk, Good, ScreenKept, Flows, AddrFlow, AddrScreens, TxtAsked, Consent, Asked, Asks, At, AtOneOf
  <2>2. CASE Go("MultisigShowAddress") /\ UNCHANGED hist
    BY <2>2, GoFree DEF Quiet, Free, Watched
  <2> DEFINE c == Clear(ad.kpub, Single)
  <2>3. ad.kpub = "addr"
    BY <2>1 DEF KpubKind
  <2>4. Content0(c) /\ c.kind = "addr"
    BY <2>3, ClearIs
  <2>5. CASE Encrypting([ad EXCEPT !.buf = c, !.origin = "addr"])
    <3> HIDE DEF c
    <3>1. /\ ad' = [[ad EXCEPT !.buf = c, !.origin = "addr"]
                      EXCEPT !.pp = "empty", !.screen = "SdKsptEncryptPass"]
          /\ hist' = [hist EXCEPT !.secret = TRUE]
      BY <2>5, Zenon DEF Encrypting
    <3>2. AdTyped(ad') /\ Beside /\ ad'.screen = "SdKsptEncryptPass" /\ ad'.buf = c
          /\ ad'.file = ad.file /\ ad'.origin = "addr" /\ ad'.kpub = ad.kpub
      BY <2>4, <3>1 DEF Good, AdTyped, AdFields, PpTypes, Origins, Beside
    <3> QED
      BY <2>1, <2>4, <3>1, <3>2, EncryptingKeeps
  <2>6. CASE Go("MultisigDescriptor") /\ Write(ad.kpub, FALSE, FALSE)
    <3>1. AdTyped(ad') /\ Aside
      BY <2>6 DEF Go, Good, AdTyped, AdFields, Aside, Calm, Free, Watched
    <3> QED
      BY <2>1, <2>6, <2>3, <3>1, WritesFile
  <2> QED
    BY <1>20, <2>2, <2>5, <2>6, Zenon DEF SdMsAddrEncryptAsk
<1>21. CASE SdMsDescEncryptAsk(back)
  <2>1. /\ hist.named = "desc" /\ ad.file = "TXT" /\ (hist.exists => hist.agreed)
        /\ ad.buf.kind = "desc" /\ ~ad.buf.enc
    BY <1>21 DEF SdMsDescEncryptAsk, Good, ScreenKept, Flows, DescFlow, DescScreens, TxtAsked, Consent, Asked, Asks, At, AtOneOf
  <2>2. CASE Go("MultisigDescriptor") /\ UNCHANGED hist
    BY <2>2, GoFree DEF Quiet, Free, Watched
  <2>3. CASE Encrypting([ad EXCEPT !.origin = "desc"])
    <3>1. /\ ad' = [[ad EXCEPT !.origin = "desc"] EXCEPT !.pp = "empty", !.screen = "SdKsptEncryptPass"]
          /\ hist' = [hist EXCEPT !.secret = TRUE]
      BY <2>3, Zenon DEF Encrypting
    <3>2. AdTyped(ad') /\ Beside /\ ad'.screen = "SdKsptEncryptPass" /\ ad'.buf = ad.buf
          /\ ad'.file = ad.file /\ ad'.origin = "desc"
      BY <3>1 DEF Good, AdTyped, AdFields, PpTypes, Origins, Beside
    <3> QED
      BY <2>1, <3>1, <3>2, EncryptingKeeps
  <2>4. CASE Go("MultisigDescriptor") /\ Write(ad.buf.kind, ad.buf.enc, FALSE)
    <3>1. AdTyped(ad') /\ Aside
      BY <2>4 DEF Go, Good, AdTyped, AdFields, Aside, Calm, Free, Watched
    <3>2. ad.buf.enc = FALSE
      BY <2>1 DEF Good, AdTyped, Content0
    <3> QED
      BY <2>1, <2>4, <3>1, <3>2, WritesFile
  <2> QED
    BY <1>21, <2>2, <2>3, <2>4, Zenon DEF SdMsDescEncryptAsk
<1>22. CASE SdKpubEncryptAsk(back)
  <2>1. /\ hist.named = "kpub" /\ ad.file = "TXT" /\ (hist.exists => hist.agreed)
        /\ ad.kpub = "kpub"
    BY <1>22 DEF SdKpubEncryptAsk, Good, ScreenKept, Flows, KpubFlow, KpubScreens, TxtAsked, Consent, Asked, Asks, At, AtOneOf
  <2>2. CASE Go("WatchOnlyMenu") /\ UNCHANGED hist
    BY <2>2, GoFree DEF Quiet, Free, Watched
  <2> DEFINE c == Clear(KpubKind, Single)
  <2>3. KpubKind = "kpub"
    BY <2>1 DEF KpubKind
  <2>4. Content0(c) /\ c.kind = "kpub"
    BY <2>3, ClearIs
  <2>5. CASE Encrypting([ad EXCEPT !.buf = c, !.origin = "kpub"])
    <3> HIDE DEF c
    <3>1. /\ ad' = [[ad EXCEPT !.buf = c, !.origin = "kpub"]
                      EXCEPT !.pp = "empty", !.screen = "SdKsptEncryptPass"]
          /\ hist' = [hist EXCEPT !.secret = TRUE]
      BY <2>5, Zenon DEF Encrypting
    <3>2. AdTyped(ad') /\ Beside /\ ad'.screen = "SdKsptEncryptPass" /\ ad'.buf = c
          /\ ad'.file = ad.file /\ ad'.origin = "kpub" /\ ad'.kpub = ad.kpub
      BY <2>4, <3>1 DEF Good, AdTyped, AdFields, PpTypes, Origins, Beside
    <3> QED
      BY <2>1, <2>4, <3>1, <3>2, EncryptingKeeps
  <2>6. CASE Go("WatchOnlyMenu") /\ Write(KpubKind, FALSE, FALSE)
    <3>1. AdTyped(ad') /\ Aside
      BY <2>6 DEF Go, Good, AdTyped, AdFields, Aside, Calm, Free, Watched
    <3> QED
      BY <2>1, <2>6, <2>3, <3>1, WritesFile
  <2> QED
    BY <1>22, <2>2, <2>5, <2>6, Zenon DEF SdKpubEncryptAsk
<1>23. CASE SdKsptEncryptPass(back)
  BY <1>23, PassphraseTyped
<1>24. CASE SdOverwriteWarning(back)
  BY <1>24, WarningAnswered
<1> QED
  BY <1>1, <1>2, <1>3, <1>4, <1>5, <1>6, <1>7, <1>8, <1>9, <1>10, <1>11, <1>12, <1>13,
     <1>14, <1>15, <1>16, <1>17, <1>18, <1>19, <1>20, <1>21, <1>22, <1>23, <1>24 DEF
     TouchCard

LEMMA WordsStored ==
  ASSUME Good, ~ad.covb, UNCHANGED hist, StoresWords
  PROVE  Good'
<1>1. PICK k \in {ad.seed, "words"} :
        ad' = [ad EXCEPT !.pp = "empty", !.seed = k, !.screen = "SeedList"]
  BY Zenon DEF StoresWords
<1>2. k \in SeedKinds
  BY DEF Good, AdTyped, SeedKinds, Kinds
<1> QED
  BY <1>1, <1>2, StoresSeed DEF PpTypes, Quiet, Free, Watched

LEMMA TouchStegoKeep ==
  ASSUME Good, ~ad.covb, NEW back \in BOOLEAN, TouchStego(back)
  PROVE  Good'
<1>1. CASE StegoModeSelect(back)
  BY <1>1, MenuFree DEF StegoModeSelect, Free, Watched
<1>2. CASE StegoJpegPick(back)
  <2>1. Free("ExportChoice") /\ Free("StegoJpegDescChoice")
    BY DEF Free, Watched
  <2> QED
    BY <1>2, <2>1, GoFree, WritesText, Zenon DEF StegoJpegPick, Quiet
<1>3. CASE StegoJpegDescChoice(back)
  <2>1. Free("StegoJpegPick") /\ Free("StegoJpegDesc") /\ Free("StegoJpegDescFile")
    BY DEF Free, Watched
  <2> QED
    BY <1>3, <2>1, GoFree, WritesPp, Zenon DEF StegoJpegDescChoice, PpTypes, Quiet
<1>4. CASE StegoJpegDescFile(back)
  <2>1. UNCHANGED hist /\ ad.screen = "StegoJpegDescFile"
    BY <1>4 DEF StegoJpegDescFile, At
  <2>2. CASE Go("StegoJpegDescChoice")
    BY <2>1, <2>2, GoFree DEF Quiet, Free, Watched
  <2>3. CASE ad' = [ad EXCEPT !.text = None]
    BY <2>1, <2>3, StepAside DEF Good, AdTyped, AdFields, Aside, Calm, Free, Watched
  <2>4. CASE ad' = [ad EXCEPT !.text = "hint", !.screen = "StegoJpegDescPreview"]
    BY <2>1, <2>4, WritesText DEF Quiet, Free, Watched
  <2> QED
    BY <1>4, <2>2, <2>3, <2>4, Zenon DEF StegoJpegDescFile
<1>5. CASE StegoJpegDesc(back)
  <2>1. UNCHANGED hist
    BY <1>5 DEF StegoJpegDesc
  <2>2. CASE ad' = [ad EXCEPT !.pp = "empty", !.screen = "StegoJpegDescChoice"]
    BY <2>1, <2>2, WritesPp DEF PpTypes, Quiet, Free, Watched
  <2>3. CASE ad' = [ad EXCEPT !.text = "hint", !.pp = "empty", !.screen = "StegoJpegDescPreview"]
    BY <2>1, <2>3, StepAside DEF Good, AdTyped, AdFields, PpTypes, Aside, Calm, Free, Watched
  <2> QED
    BY <1>5, <2>2, <2>3, Zenon DEF StegoJpegDesc
<1>6. CASE StegoJpegDescPreview(back)
  BY <1>6, MenuFree DEF StegoJpegDescPreview, Free, Watched
<1>7. CASE StegoJpegPpAsk(back)
  BY <1>7, MenuFree DEF StegoJpegPpAsk, Free, Watched
<1>8. CASE StegoJpegPpInfo(back)
  <2>1. Free("StegoJpegPpEntry")
    BY DEF Free, Watched
  <2>2. ASSUME Menu(back, "StegoJpegPpInfo", "StegoJpegPpAsk", {"StegoJpegConfirm"})
        PROVE
     Good'
    BY <2>2, MenuFree DEF Free, Watched
  <2> QED
    BY <1>8, <2>1, <2>2, WritesPp, Zenon DEF StegoJpegPpInfo, PpTypes, Quiet
<1>9. CASE StegoJpegPpEntry(back)
  <2>1. Free(IF back THEN "StegoJpegPpInfo" ELSE "StegoJpegConfirm")
    BY DEF Free, Watched
  <2> QED
    BY <1>9, <2>1, WritesPp, Zenon DEF StegoJpegPpEntry, PpTypes, Quiet
<1>10. CASE StegoJpegConfirm(back)
  <2>1. CASE Menu(back, "StegoJpegConfirm", "StegoJpegPpAsk", {"ExportChoice"})
    BY <2>1, MenuFree DEF Free, Watched
  <2>2. ASSUME NEW written, HidingEnds(written), UNCHANGED hist
        PROVE  Good'
    <3>1. Free(IF written THEN "StegoResult" ELSE "ExportChoice")
      BY DEF Free, Watched
    <3> QED
      BY <2>2, <3>1, GoFree, Zenon DEF HidingEnds, Quiet
  <2> QED
    BY <1>10, <2>1, <2>2, Zenon DEF StegoJpegConfirm
<1>11. CASE StegoResult(back)
  BY <1>11, MenuFree DEF StegoResult, Free, Watched
<1>12. CASE StegoImportPick(back)
  <2>1. Free("ImportMenu") /\ Free("StegoImportDescChoice")
    BY DEF Free, Watched
  <2> QED
    BY <1>12, <2>1, GoFree, WritesPp, Zenon DEF StegoImportPick, PpTypes, Quiet
<1>13. CASE StegoImportDescChoice(back)
  <2>1. Free("StegoImportPick") /\ Free("StegoImportPass") /\ Free("StegoImportDescFile")
    BY DEF Free, Watched
  <2> QED
    BY <1>13, <2>1, GoFree, WritesPp, Zenon DEF StegoImportDescChoice, PpTypes, Quiet
<1>14. CASE StegoImportDescFile(back)
  <2>1. UNCHANGED hist /\ ad.screen = "StegoImportDescFile"
    BY <1>14 DEF StegoImportDescFile, At
  <2>2. CASE Go("StegoImportDescChoice")
    BY <2>1, <2>2, GoFree DEF Quiet, Free, Watched
  <2>3. CASE ad' = [ad EXCEPT !.pp = "text", !.screen = "StegoImportPass"]
    BY <2>1, <2>3, WritesPp DEF PpTypes, Quiet, Free, Watched
  <2>4. CASE ad' = [ad EXCEPT !.pp = "empty"]
    BY <2>1, <2>4, StepAside DEF Good, AdTyped, AdFields, PpTypes, Aside, Calm, Free, Watched
  <2> QED
    BY <1>14, <2>2, <2>3, <2>4, Zenon DEF StegoImportDescFile
<1>15. CASE StegoImportPass(back)
  <2>1. UNCHANGED hist /\ ad.screen = "StegoImportPass"
    BY <1>15 DEF StegoImportPass, At
  <2>2. CASE Go("StegoImportDescChoice")
    BY <2>1, <2>2, GoFree DEF Quiet, Free, Watched
  <2>3. CASE UNCHANGED ad
    BY <2>1, <2>3, StepAside DEF Good, Aside, Calm, Free, Watched
  <2>4. ASSUME NEW from, NEW hinted, Recovers(from, hinted)
        PROVE  Good'
    <3>1. Free("StegoHintReveal")
      BY DEF Free, Watched
    <3> QED
      BY <2>1, <2>4, <3>1, WritesPp, WordsStored, Zenon DEF Recovers, PpTypes, Quiet
  <2> QED
    BY <1>15, <2>2, <2>3, <2>4, Zenon DEF StegoImportPass
<1>16. CASE StegoHintReveal(back)
  <2>1. Free("StegoHintPassphrase")
    BY DEF Free, Watched
  <2> QED
    BY <1>16, <2>1, WritesPp, WordsStored, Zenon DEF StegoHintReveal, PpTypes, Quiet
<1>17. CASE StegoHintPassphrase(back)
  BY <1>17, WordsStored, Zenon DEF StegoHintPassphrase
<1> QED
  BY <1>1, <1>2, <1>3, <1>4, <1>5, <1>6, <1>7, <1>8, <1>9, <1>10, <1>11, <1>12, <1>13,
     <1>14, <1>15, <1>16, <1>17 DEF TouchStego

(***************************************************************************)
(* A covenant that waits for its name: no other screen answers.            *)
(***************************************************************************)
LEMMA TouchMenusElsewhere ==
  ASSUME NEW back \in BOOLEAN, TouchMenus(back)
  PROVE  ~At("CovBackupName")
BY DEF TouchMenus, SeedsMenu, ToolsMenu, SeedToolsMenu, ImportExportChoice, ImportMenu,
   SingleSigMenu, MultisigMenu, DiceRoll, TouchEntropy, ChooseWordCount, SettingsMenu,
   DisplaySettings, SdCardSettings, About, CameraSettings, Rejected, At, Menu

LEMMA TouchSeedsElsewhere ==
  ASSUME NEW back \in BOOLEAN, TouchSeeds(back)
  PROVE  ~At("CovBackupName")
BY DEF TouchSeeds, Bip85Index, Bip85ShowWord, ImportPrivKey, ImportWord, CalcLastWord,
   PassphraseEntry, SeedList, ConfirmDeleteSeed, At, Menu, WordsEntered

LEMMA TouchFramesElsewhere ==
  ASSUME NEW back \in BOOLEAN, TouchFrames(back)
  PROVE  CovBackupName(back) \/ ~At("CovBackupName")
BY DEF TouchFrames, ShowQrFrameChoice, ShowQrDensityChoice, ShowQrModeChoice, ShowQR,
   ShowQrPopup, At, Menu

LEMMA TouchExportElsewhere ==
  ASSUME NEW back \in BOOLEAN, TouchExport(back)
  PROVE  ~At("CovBackupName")
BY DEF TouchExport, SeedBackup, ShowAddress, ShowAddressQR, AddrIndexPicker, ExportSeedQR,
   ExportCompactSeedQR, SeedQrGrid, ExportPlainWordsQR, QrExportMenu, ExportKpub,
   ExportKpubFrameCount, ExportKpubModeChoice, KpubScannedPopup, ExportKpubPopup,
   ExportChoice, SeedBackupMenu, WatchOnlyMenu, SigningKeysMenu, XprvExportMenu, ExportXprv,
   ExportPrivKeyIndex, ExportPrivKey, At, Menu

LEMMA TouchTxElsewhere ==
  ASSUME NEW back \in BOOLEAN, TouchTx(back)
  PROVE  ~At("CovBackupName")
BY DEF TouchTx, SignTxGuide, ScanQR, ReviewTx, ReviewCovenant, ConfirmTx, SigningShown, At,
   Menu

LEMMA TouchMultisigElsewhere ==
  ASSUME NEW back \in BOOLEAN, TouchMultisig(back)
  PROVE  ~At("CovBackupName")
BY DEF TouchMultisig, MultisigChooseMN, MultisigAddKey, MultisigKpubWarn, MultisigPickSeed,
   MultisigShowAddress, MultisigShowAddressQR, MultisigSaveAddrAsk, MultisigDescriptor, At,
   Menu

LEMMA TouchMessagesElsewhere ==
  ASSUME NEW back \in BOOLEAN, TouchMessages(back)
  PROVE  ~At("CovBackupName")
BY DEF TouchMessages, SignMsgChoice, SignMsgType, SignMsgFile, SignMsgPreview,
   SignMsgHashPreview, SignMsgResult, SignMsgResultQr, CommitRevealType,
   CommitRevealPreview, CommitRevealResult, CommitRevealResultQr, DecryptSecretScan,
   DecryptSecretResult, DecryptSecretResultQr, At, Menu

LEMMA TouchCardElsewhere ==
  ASSUME NEW back \in BOOLEAN, TouchCard(back)
  PROVE  ~At("CovBackupName")
BY DEF TouchCard, SdBackupWarning, SdSeedFilename, SdBackupPassphrase, SdXprvFilename,
   SdXprvExportPassphrase, SdSigFilename, SdImportMenu, SdFileList, SdKsptFileList,
   SdKpubFileList, SdDeleteConfirm, SdRestorePassphrase, SdXprvFileList,
   SdXprvImportPassphrase, SdKsptFilename, SdKpubFilename, SdMsAddrFilename,
   SdMsDescFilename, SdKsptEncryptAsk, SdMsAddrEncryptAsk, SdMsDescEncryptAsk,
   SdKpubEncryptAsk, SdKsptEncryptPass, SdOverwriteWarning, At, Menu, NameTyped

LEMMA TouchStegoElsewhere ==
  ASSUME NEW back \in BOOLEAN, TouchStego(back)
  PROVE  ~At("CovBackupName")
BY DEF TouchStego, StegoModeSelect, StegoJpegPick, StegoJpegDescChoice, StegoJpegDescFile,
   StegoJpegDesc, StegoJpegDescPreview, StegoJpegPpAsk, StegoJpegPpInfo, StegoJpegPpEntry,
   StegoJpegConfirm, StegoResult, StegoImportPick, StegoImportDescChoice,
   StegoImportDescFile, StegoImportPass, StegoHintReveal, StegoHintPassphrase, At, Menu

LEMMA TouchKeeps ==
  ASSUME Good, Detours = {}, NEW back \in BOOLEAN, Touch(back)
  PROVE  Good'
<1>1. Handled(back) /\ ~CovPending
  BY DEF Touch
<1>2. CASE ad.covb
  <2>1. At("CovBackupName")
    BY <1>1, <1>2 DEF CovPending
  <2>2. CovBackupName(back)
    BY <1>1, <2>1, TouchMenusElsewhere, TouchSeedsElsewhere, TouchFramesElsewhere,
       TouchExportElsewhere, TouchTxElsewhere, TouchMultisigElsewhere,
       TouchMessagesElsewhere, TouchCardElsewhere, TouchStegoElsewhere DEF Handled
  <2> QED
    BY <2>2, CovNamed
<1>3. CASE ~ad.covb
  BY <1>1, <1>3, TouchMenusKeep, TouchSeedsKeep, TouchFramesKeep, TouchExportKeep, TouchTxKeep,
     TouchMultisigKeep, TouchMessagesKeep, TouchCardKeep, TouchStegoKeep DEF Handled
<1> QED
  BY <1>2, <1>3

(***************************************************************************)
(* What happens beside the touches.                                        *)
(***************************************************************************)
LEMMA MainMenuLeft ==
  ASSUME Good, LeaveMainMenu
  PROVE  Good'
<1>1. ~ad.covb
  BY DEF LeaveMainMenu, CovPending, At
<1>2. PICK s \in MainMenu :
        ad' = [[ad EXCEPT !.owNext = "MainMenu", !.owBack = "MainMenu", !.pickedKsp = FALSE,
                          !.list = None, !.txt = "kpub", !.keyIdx = 0, !.scanned = FALSE]
                 EXCEPT !.screen = s]
  BY Zenon DEF LeaveMainMenu, Forgotten
<1>3. Free(s)
  BY DEF MainMenu, Free, Watched
<1>4. 0 \in Cosigners /\ \A j \in Cosigners : ~(j < 0)
  BY NCosignersAssumption DEF Cosigners
<1>5. AdTyped(ad') /\ ad'.ms = ad.ms /\ ad'.keyIdx = 0 /\ Calm
  BY <1>1, <1>2, <1>3, <1>4 DEF Good, AdTyped, AdFields, Calm
<1>6. WalletKept'
  BY <1>4, <1>5 DEF Good, WalletKept, Apart, Below, Filled
<1>7. hist' = [InitHist EXCEPT !.theme = hist.theme, !.visits = hist.visits + 1]
  BY DEF LeaveMainMenu
<1>8. HistTyped(hist') /\ hist'.written = {}
  BY <1>7 DEF Good, InitHist, HistTyped, HistFields
<1>9. SavedIsAsked'
  BY <1>8 DEF SavedIsAsked
<1> QED
  BY <1>5, <1>6, <1>8, <1>9, CalmScreen DEF Good

LEMMA TypeKeeps ==
  ASSUME Good, Type
  PROVE  Good'
<1>1. ad' = [ad EXCEPT !.pp = "text"] /\ UNCHANGED hist
  BY DEF Type
<1>2. AdTyped(ad')
  BY <1>1 DEF Good, AdTyped, AdFields, PpTypes
<1>3. /\ ad'.screen = ad.screen /\ ad'.file = ad.file /\ ad'.buf = ad.buf /\ ad'.nframes = ad.nframes
      /\ ad'.safe = ad.safe /\ ad'.kpub = ad.kpub /\ ad'.kuser = ad.kuser /\ ad'.kn = ad.kn
      /\ ad'.origin = ad.origin /\ ad'.first = ad.first /\ ad'.covb = ad.covb /\ ad'.ms = ad.ms
      /\ ad'.keyIdx = ad.keyIdx /\ ad'.fromFile = ad.fromFile /\ ad'.text = ad.text
      /\ ad'.hash = ad.hash /\ ad'.owNext = ad.owNext /\ ad'.owBack = ad.owBack
  BY <1>1 DEF Good, AdTyped, AdFields
<1>4. WalletKept'
  BY <1>3, WalletSame
<1>5. CovKept' /\ Shown' /\ TextKept'
  BY <1>3 DEF Good, ScreenKept, CovKept, Shown, TextKept, At, AtOneOf, FrameCountFits
<1>6. Flows'
  BY <1>1, <1>3 DEF Good, ScreenKept, Flows, SeedFlow, XprvFlow, SigFlow, KsptFlow, KpubFlow,
     AddrFlow, DescFlow, Consent, Saving, Asked, Asks, At, AtOneOf, Encrypts, Warned, KsptScreens,
     KpubScreens, AddrScreens, DescScreens, TxtAsked, FrameCountFits
<1>7. HistTyped(hist') /\ SavedIsAsked'
  BY <1>1 DEF Good, HistTyped, SavedIsAsked
<1> QED
  BY <1>2, <1>4, <1>5, <1>6, <1>7 DEF Good, ScreenKept

LEMMA HomeKeeps ==
  ASSUME Good, Detours = {}, Home
  PROVE  Good'
<1>1. ~ad.covb /\ Go("MainMenu") /\ UNCHANGED hist
  BY DEF Home
<1> QED
  BY <1>1, GoFree DEF Quiet, Free, Watched

LEMMA IdleKeeps ==
  ASSUME Good, Detours = {}, IdleWipe
  PROVE  Good'
<1>1. ~ad.covb /\ UNCHANGED hist
  BY DEF IdleWipe
<1>2. ad' = [ad EXCEPT !.seed = None, !.text = None, !.hash = None, !.pp = "empty",
                      !.screen = "MainMenu"]
  BY DEF IdleWipe
<1> QED
  BY <1>1, <1>2, StepAside DEF Good, AdTyped, AdFields, PpTypes, SeedKinds, Aside, Calm, Free, Watched

LEMMA CovSaveKeeps ==
  ASSUME Good, CovSave
  PROVE  Good'
<1>1. ad.buf.kind = "cov" /\ ad.screen = "MainMenu" /\ ad.first = "typed"
  BY DEF CovSave, CovPending, Good, ScreenKept, CovKept, At
<1>2. AdTyped(ad') /\ Aside
  <2>1. ad' = [ad EXCEPT !.covb = FALSE, !.first = "blank"]
    BY DEF CovSave
  <2> QED
    BY <1>1, <2>1 DEF Good, AdTyped, AdFields, Aside, Calm, Free, Watched
<1>3. WriteAtOnce("cov", "cov", "typed")
  BY <1>1, Zenon DEF CovSave
<1> QED
  BY <1>2, <1>3, WritesUnasked DEF UnaskedKinds

LEMMA ScanKeeps ==
  ASSUME Good, Detours = {}, Scan
  PROVE  Good'
<1>1. ProcessConfirmedQr /\ UNCHANGED hist
  BY DEF Scan, ProcessConfirmedQr
<1>2. ad.screen \in CameraScreens /\ ~ad.covb
  BY <1>1 DEF ProcessConfirmedQr, CameraScreens, AtOneOf, Good, ScreenKept, CovKept, At
<1>3. CASE ScansHash
  <2>1. At("ScanQR") /\ ~ad.fromFile
    BY <1>3 DEF ScansHash
  <2>2. CASE ad' = [ad EXCEPT !.scanHash = FALSE]
    BY <1>1, <1>2, <2>1, <2>2, StepAside DEF At, Good, AdTyped, AdFields, Aside, Calm, Free, Watched
  <2>3. CASE ad' = [ad EXCEPT !.scanHash = FALSE, !.hash = "scanned", !.screen = "SignMsgHashPreview"]
    <3>1. AdTyped(ad') /\ Beside /\ ad'.screen = "SignMsgHashPreview" /\ ad'.fromFile = ad.fromFile
      BY <1>2, <2>3 DEF Good, AdTyped, AdFields, Beside
    <3> QED
      BY <1>1, <2>1, <3>1, ShowsText
  <2> QED
    BY <1>3, <2>2, <2>3, Zenon DEF ScansHash
<1>4. CASE ScansSecret
  <2>1. CASE ad' = [ad EXCEPT !.screen = "SingleSigMenu"]
    BY <1>1, <1>2, <2>1, GoFree DEF Go, Quiet, Free, Watched
  <2>2. CASE ad' = [ad EXCEPT !.text = "secret", !.screen = "DecryptSecretResult"]
    BY <1>1, <1>2, <2>2, WritesText DEF Quiet, Free, Watched
  <2> QED
    BY <1>4, <2>1, <2>2, Zenon DEF ScansSecret
<1>5. CASE ScansAddress
  BY <1>1, <1>2, <1>5, LeavesAddress DEF ScansAddress, Quiet, Free, Watched
<1>6. CASE ScansTx \/ ScansNothingKnown
  BY <1>1, <1>2, <1>6, GoFree DEF ScansTx, ScansNothingKnown, Quiet, Free, Watched
<1>7. CASE ScansSeedQR
  BY <1>1, <1>2, <1>7, WritesPp DEF ScansSeedQR, PpTypes, Quiet, Free, Watched
<1>8. CASE ScansStealthKey
  <2>1. CASE Go("MainMenu")
    BY <1>1, <1>2, <2>1, GoFree DEF Quiet, Free, Watched
  <2>2. CASE UNCHANGED ad
    BY <1>1, <1>2, <2>2, StepAside DEF CameraScreens, Good, Aside, Calm, Free, Watched
  <2> QED
    BY <1>8, <2>1, <2>2 DEF ScansStealthKey, StealthShown
<1>9. CASE ScansKpub
  <2>1. ASSUME NEW o \in Owners, Collecting, ~HasCosigner(ad.ms, o),
               ad' = KeyAdded(ad, FirstEmpty(ad.ms), o)
        PROVE  Good'
    <3>1. FirstEmpty(ad.ms) \in Cosigners /\ Below(ad.ms, FirstEmpty(ad.ms)) /\ AdTyped(ad)
      BY FirstEmptyIs DEF Good, AdTyped
    <3>2. FirstEmpty(ad.ms) < ad.ms.n
      BY <2>1, <3>1, NCosignersAssumption DEF Collecting, AdTyped, Wallet, Cosigners
    <3> QED
      BY <1>1, <1>2, <2>1, <3>1, <3>2, KeyAddedKeeps
  <2>2. ASSUME NEW form \in {"kpub"},
               ad' = [ad EXCEPT !.kpub = form, !.kn = 0, !.kuser = 0, !.screen = "KpubScannedPopup"]
        PROVE  Good'
    <3>1. AdTyped(ad') /\ Beside /\ ad'.screen = "KpubScannedPopup" /\ ad'.kpub = "kpub"
      BY <1>2, <2>2 DEF Good, AdTyped, AdFields, Beside
    <3> QED
      BY <1>1, <3>1, ShowsKpub
  <2>3. KpubForms = {"kpub"}
    BY DEF KpubForms
  <2> QED
    BY <1>9, <2>1, <2>2, <2>3, Zenon DEF ScansKpub
<1>10. CASE ScansCovenant
  <2> DEFINE c == Clear("cov", Single)
  <2>1. ad' = [ad EXCEPT !.buf = c, !.covb = TRUE, !.pp = "empty", !.screen = "CovBackupName"]
    BY <1>10, Zenon DEF ScansCovenant
  <2>2. Content0(c) /\ c.kind = "cov"
    BY ClearIs
  <2> HIDE DEF c
  <2>3. AdTyped(ad') /\ ad'.screen = "CovBackupName" /\ ad'.buf = c /\ ad'.ms = ad.ms
        /\ ad'.keyIdx = ad.keyIdx
    BY <2>1, <2>2 DEF Good, AdTyped, AdFields, PpTypes
  <2>4. CovKept'
    BY <2>2, <2>3 DEF CovKept, At
  <2>5. Flows' /\ Shown' /\ TextKept'
    BY <2>3 DEF Flows, SeedFlow, XprvFlow, SigFlow, KsptFlow, KpubFlow, AddrFlow, DescFlow,
       Consent, Asked, Asks, At, AtOneOf, Encrypts, Warned, KsptScreens, KpubScreens, AddrScreens,
       DescScreens, TxtAsked, Shown, TextKept
  <2>6. HistTyped(hist') /\ SavedIsAsked'
    BY <1>1 DEF Good, HistTyped, SavedIsAsked
  <2> QED
    BY <2>3, <2>4, <2>5, <2>6, WalletSame DEF Good, ScreenKept
<1> QED
  BY <1>1, <1>3, <1>4, <1>5, <1>6, <1>7, <1>8, <1>9, <1>10 DEF ProcessConfirmedQr

LEMMA NothingMoves ==
  ASSUME Good, UNCHANGED deviceVars
  PROVE  Good'
<1>1. ad' = ad /\ hist' = hist
  BY DEF deviceVars
<1>2. WalletKept' /\ CovKept' /\ Shown' /\ TextKept'
  BY <1>1 DEF Good, ScreenKept, WalletKept, CovKept, Shown, TextKept, At, AtOneOf, FrameCountFits
<1>3. Flows'
  BY <1>1 DEF Good, ScreenKept, Flows, SeedFlow, XprvFlow, SigFlow, KsptFlow, KpubFlow,
     AddrFlow, DescFlow, Consent, Saving, Asked, Asks, At, AtOneOf, Encrypts, Warned, KsptScreens,
     KpubScreens, AddrScreens, DescScreens, TxtAsked, FrameCountFits
<1> QED
  BY <1>1, <1>2, <1>3 DEF Good, ScreenKept, SavedIsAsked

LEMMA DeviceStarts == DeviceInit => Good
<1> SUFFICES ASSUME DeviceInit PROVE Good
  OBVIOUS
<1>1. PICK k \in SeedKinds : ad = [InitAd EXCEPT !.seed = k]
  BY DEF DeviceInit, SeedKinds
<1>2. PICK t \in Themes : hist = [InitHist EXCEPT !.theme = t]
  BY DEF DeviceInit
<1>3. Content0(Empty) /\ 0 \in Cosigners /\ Wallet(NoWallet)
  BY NCosignersAssumption, NoWalletIs DEF Content0, Empty, TooLong, Cosigners
<1>4. AdTyped(ad) /\ ad.screen = "MainMenu" /\ ~ad.covb /\ ad.ms = NoWallet /\ ad.keyIdx = 0
  BY <1>1, <1>3 DEF InitAd, AdTyped, AdFields, PpTypes, Origins, TooLong
<1>5. WalletKept
  BY <1>4 DEF WalletKept, NoWallet, Apart, Below, Nobody
<1>6. ScreenKept
  BY <1>4 DEF ScreenKept, CovKept, Flows, SeedFlow, XprvFlow, SigFlow, KsptFlow, KpubFlow, AddrFlow,
     DescFlow, Consent, Asked, Asks, At, AtOneOf, Encrypts, Warned, KsptScreens, KpubScreens,
     AddrScreens, DescScreens, TxtAsked, Shown, TextKept
<1>7. HistTyped(hist) /\ hist.written = {}
  BY <1>2 DEF InitHist, HistTyped, HistFields
<1> QED
  BY <1>4, <1>5, <1>6, <1>7 DEF Good, SavedIsAsked

LEMMA DeviceStep == Good /\ Detours = {} /\ [DeviceNext]_deviceVars => Good'
<1> SUFFICES ASSUME Good, Detours = {}, [DeviceNext]_deviceVars PROVE Good'
  OBVIOUS
<1>1. CASE UNCHANGED deviceVars \/ Rest
  BY <1>1, NothingMoves DEF Rest
<1>2. ASSUME NEW back \in BOOLEAN, Touch(back) PROVE Good'
  BY <1>2, TouchKeeps
<1> QED
  BY <1>1, <1>2, MainMenuLeft, TypeKeeps, HomeKeeps, ScanKeeps, IdleKeeps, CovSaveKeeps DEF DeviceNext

LEMMA StaysInScope ==
  Good /\ ad.screen \in Scope(hist.theme) /\ Detours = {} /\ [DeviceNext]_deviceVars
    => ad'.screen \in Scope(hist'.theme)
<1> SUFFICES ASSUME Good, ad.screen \in Scope(hist.theme), Detours = {}, [DeviceNext]_deviceVars
             PROVE  ad'.screen \in Scope(hist'.theme)
  OBVIOUS
<1>1. Good'
  BY DeviceStep
<1>2. HistTyped(hist) /\ AdTyped(ad) /\ hist'.theme \in Themes
  BY <1>1 DEF Good, HistTyped
<1>3. CASE UNCHANGED deviceVars \/ Rest
  BY <1>3 DEF Rest, deviceVars
<1>4. CASE LeaveMainMenu
  BY <1>4 DEF LeaveMainMenu
<1>5. CASE Type
  BY <1>2, <1>5 DEF Type, AdTyped, AdFields
<1>6. CASE Home \/ IdleWipe
  <2>1. ad'.screen = "MainMenu"
    BY <1>2, <1>6 DEF Home, Go, IdleWipe, AdTyped, AdFields
  <2> QED
    BY <1>2, <2>1, ScopeAssumption
<1>7. CASE Scan
  BY <1>7 DEF Scan
<1>8. CASE CovSave
  <2>1. ad'.screen = "MainMenu"
    BY <1>2, <1>8 DEF CovSave, CovPending, Good, ScreenKept, CovKept, At, AdTyped, AdFields
  <2> QED
    BY <1>2, <2>1, ScopeAssumption
<1>9. ASSUME NEW back \in BOOLEAN, Touch(back) PROVE ad'.screen \in Scope(hist'.theme)
  BY <1>9 DEF Touch
<1> QED
  BY <1>3, <1>4, <1>5, <1>6, <1>7, <1>8, <1>9 DEF DeviceNext

-----------------------------------------------------------------------------
(* The invariant of the device.                                            *)
THEOREM DeviceInvariant ==
  ASSUME Detours = {} PROVE DeviceSpec => [](Good /\ ad.screen \in Scope(hist.theme))
<1>1. DeviceInit => Good /\ ad.screen \in Scope(hist.theme)
  <2> SUFFICES ASSUME DeviceInit PROVE ad.screen \in Scope(hist.theme)
    BY DeviceStarts
  <2>1. Good
    BY DeviceStarts
  <2>2. PICK k : ad = [InitAd EXCEPT !.seed = k]
    BY DEF DeviceInit
  <2>3. ad.screen = "MainMenu" /\ hist.theme \in Themes
    BY <2>1, <2>2 DEF InitAd, Good, HistTyped
  <2> QED
    BY <2>3, ScopeAssumption
<1>2. (Good /\ ad.screen \in Scope(hist.theme)) /\ [DeviceNext]_deviceVars
        => (Good /\ ad.screen \in Scope(hist.theme))'
  BY DeviceStep, StaysInScope
<1> QED
  BY <1>1, <1>2, PTL DEF DeviceSpec

(* No file is ever written but what the user named, encrypted exactly when *)
(* a passphrase was asked for, over another file only with his consent:    *)
(* whatever the order of screens on which the shared buffers were filled   *)
(* (handlers/sd.rs, handlers/tx.rs, app/data.rs).                          *)
THEOREM SavesWhatWasAsked == ASSUME Detours = {} PROVE DeviceSpec => []SavedIsAsked
<1>1. Good => SavedIsAsked
  BY DEF Good
<1> QED
  BY <1>1, DeviceInvariant, PTL

(* A payload or a key shown in frames is the one last put there, with the  *)
(* count of its own frames, and every field has a value of its type.       *)
THEOREM ShowsItWhole == ASSUME Detours = {} PROVE DeviceSpec => []ShownWhole
<1>1. Good /\ ad.screen \in Scope(hist.theme) => ShownWhole
  BY DEF Good, ScreenKept, Shown, FrameCountFits, AdTyped, PpTypes, SeedKinds, ShownWhole, FieldsTyped,
     KpubDerived, FramesFit, At, AtOneOf
<1> QED
  BY <1>1, DeviceInvariant, PTL

(* A multisig wallet in use has every place filled, each by a key of its   *)
(* own, and its script: for any number of cosigners and any way through    *)
(* the ceremony, the card and the camera.                                  *)
THEOREM WalletsAlwaysBuilt == ASSUME Detours = {} PROVE DeviceSpec => []WalletsBuilt
<1>1. Good => WalletsBuilt
  BY DEF Good, WalletKept, Filled, Apart, WalletsBuilt, Buildable, HasCosigner
<1> QED
  BY <1>1, DeviceInvariant, PTL

(* The text on the screen before signing is the text that was hashed.      *)
THEOREM PreviewAlwaysSigned == ASSUME Detours = {} PROVE DeviceSpec => []PreviewIsSigned
<1>1. Good => PreviewIsSigned
  BY DEF Good, ScreenKept, TextKept, PreviewIsSigned, At
<1> QED
  BY <1>1, DeviceInvariant, PTL

-----------------------------------------------------------------------------
(***************************************************************************)
(* SignRequest: for any set of transactions and any buffer.                *)
(*                                                                         *)
(* RequestIntact carries the weight: a bundle's JSON stays in the shared   *)
(* buffer because every other user of the buffer is reached from a menu,   *)
(* and every way to a menu gives the request up. AnswersFit follows from   *)
(* it at the one step that writes a response, and Walk records which pages *)
(* have been drawn on each screen.                                         *)
(***************************************************************************)

Walk ==
    /\ screen = "ReviewTx" => at < plan.pages /\ shown = 0 .. at
    /\ screen = "ReviewCovenant" => tx \in Covenants
    /\ screen \in RequestScreens \ {"ReviewTx"} => shown = PagesOf[tx]

IInv == TypeOK /\ RequestIntact /\ AnswersFit /\ ExportIsTheAnswer /\ Walk

-----------------------------------------------------------------------------
(* The plan of a transaction has the types and the size of its review. *)
LEMMA PlanTypes ==
  ASSUME NEW t \in Txs
  PROVE  /\ PlanFor(t) \in Plans
         /\ PlanFor(t).pages = 1 + Outputs[t]
         /\ PlanFor(t).pages \in 1 .. 9
         /\ PlanFor(t).covenant = (t \in Covenants)
         /\ Outputs[t] \in 0 .. 8
BY SizesAssumption DEF PlanFor, Plans, Counts

(* The pages of a transaction: those of the walk through ReviewTx, and the *)
(* covenant screen behind them.                                            *)
LEMMA PagesOfPlan ==
  ASSUME NEW t \in Txs
  PROVE  PagesOf[t] = (0 .. PlanFor(t).pages - 1)
                      \cup (IF t \in Covenants THEN {PlanFor(t).pages} ELSE {})
<1>1. PagesOf[t] = (0 .. Outputs[t]) \cup CovenantPage(t)
  BY DEF PagesOf
<1>2. PlanFor(t).pages - 1 = Outputs[t]
  BY PlanTypes
<1>3. CovenantPage(t) = IF t \in Covenants THEN {PlanFor(t).pages} ELSE {}
  BY PlanTypes DEF CovenantPage
<1>4. QED BY <1>1, <1>2, <1>3

LEMMA ContentTypes ==
  /\ Scrap \in Contents
  /\ Scrap.kind = "other"
  /\ \A t \in Txs : Json(t) \in Contents /\ Json(t).kind = "json" /\ Json(t).of = t
  /\ \A t \in Txs, f \in Formats, r \in Txs \cup {NoTx} :
       /\ Response(t, f, r) \in Contents
       /\ Response(t, f, r).kind = "response"
       /\ Response(t, f, r).of = t
       /\ Response(t, f, r).format = f
       /\ Response(t, f, r).regions = r
BY DEF Scrap, Contents, Json, Response, Formats

-----------------------------------------------------------------------------
(* The inductive invariant. *)

LEMMA InitInv == Init => IInv
<1> SUFFICES ASSUME Init PROVE IInv
  OBVIOUS
<1>1. TypeOK
  BY ContentTypes DEF Init, TypeOK, Screens, RequestScreens, ReviewScreens, Counts, Plans,
     Formats, Seeds
<1>2. RequestIntact /\ ExportIsTheAnswer /\ Walk
  BY DEF Init, RequestIntact, ExportIsTheAnswer, Walk, RequestScreens, ReviewScreens
<1>3. AnswersFit
  BY ContentTypes DEF Init, AnswersFit
<1>4. QED BY <1>1, <1>2, <1>3 DEF IInv

(* A screen that carries no request, reached with a buffer that is as it   *)
(* was or no response.                                                     *)
LEMMA OffTheWalk ==
  ASSUME IInv,
         screen' \in {"Menu", "Rejected"}, at' \in Counts,
         plan' \in Plans, tx' \in Txs \cup {NoTx}, fmt' \in Formats,
         parsed' \in Txs \cup {NoTx}, buf' \in {buf, Scrap}
                                              \cup {Json(t) : t \in Txs},
         size' \in Txs \cup {NoTx}, seed' \in Seeds, shown' = shown
  PROVE  IInv'
<1>1. buf' \in Contents
  BY ContentTypes DEF IInv, TypeOK
<1>2. TypeOK'
  BY <1>1 DEF IInv, TypeOK, Screens, Counts
<1>3. RequestIntact' /\ ExportIsTheAnswer' /\ Walk'
  BY DEF RequestIntact, ExportIsTheAnswer, Walk, RequestScreens, ReviewScreens
<1>4. buf'.kind = "response" => buf' = buf
  BY ContentTypes
<1>5. AnswersFit'
  BY <1>4 DEF IInv, AnswersFit
<1>6. QED BY <1>2, <1>3, <1>5 DEF IInv

LEMMA ReviewStarted ==
  ASSUME IInv, NEW t \in Txs \ Hidden,
         tx' = t, fmt' = Format[t],
         screen' = "ReviewTx", at' = 0, plan' = PlanFor(t), shown' = {0},
         parsed' \in Txs \cup {NoTx},
         buf' \in {buf, Json(t)},
         Format[t] = "PSKB" => parsed' = t /\ buf' = Json(t),
         size' = size, seed' = seed
  PROVE  IInv'
<1>1. Format[t] \in Formats
  BY FormatAssumption
<1>2. buf' \in Contents
  BY ContentTypes DEF IInv, TypeOK
<1>3. TypeOK'
  BY <1>1, <1>2, PlanTypes DEF IInv, TypeOK, Screens, RequestScreens, ReviewScreens, Counts
<1>4. RequestIntact'
  BY DEF RequestIntact, Json
<1>5. AnswersFit'
  BY ContentTypes DEF IInv, AnswersFit
<1>6. Walk'
  BY PlanTypes DEF Walk, RequestScreens
<1>7. ExportIsTheAnswer'
  BY DEF ExportIsTheAnswer
<1>8. QED BY <1>3, <1>4, <1>5, <1>6, <1>7 DEF IInv

LEMMA ScanStep ==
  ASSUME IInv, NEW t \in Txs, ScanKspt(t) \/ ScanPskb(t)
  PROVE  IInv'
<1> USE DEF GoTo
<1>1. CASE t \in Hidden
  <2>1. /\ screen' = "Rejected" /\ at' = 0 /\ plan' = plan /\ shown' = shown
        /\ tx' = t /\ fmt' \in Formats /\ parsed' \in {parsed, t}
        /\ buf' \in {buf, Json(t)} /\ size' = size /\ seed' = seed
    BY <1>1 DEF ScanKspt, ScanPskb, StartReview, Formats
  <2>2. QED BY <2>1, OffTheWalk DEF IInv, TypeOK, Counts
<1>2. CASE t \notin Hidden
  <2>1. /\ screen' = "ReviewTx" /\ at' = 0 /\ plan' = PlanFor(t) /\ shown' = {0}
        /\ tx' = t /\ fmt' = Format[t] /\ parsed' \in {parsed, t}
        /\ buf' \in {buf, Json(t)} /\ size' = size /\ seed' = seed
        /\ Format[t] = "PSKB" => parsed' = t /\ buf' = Json(t)
    BY <1>2 DEF ScanKspt, ScanPskb, StartReview
  <2>2. parsed' \in Txs \cup {NoTx}
    BY <2>1 DEF IInv, TypeOK
  <2>3. QED BY <1>2, <2>1, <2>2, ReviewStarted
<1>3. QED BY <1>1, <1>2

LEMMA BadScanStep ==
  ASSUME IInv, NEW f \in Formats, ScanBad(f)
  PROVE  IInv'
<1>1. /\ screen' = "Rejected" /\ at' = 0 /\ plan' = plan /\ shown' = shown
      /\ tx' \in {tx, NoTx} /\ fmt' = fmt /\ parsed' \in {parsed, NoTx}
      /\ buf' \in {buf, Scrap} /\ size' = size /\ seed' = seed
  BY DEF ScanBad, GoTo
<1>2. QED BY <1>1, OffTheWalk DEF IInv, TypeOK, Counts

(* What a step along the walk leaves alone keeps the request intact. *)
LEMMA AlongTheWalk ==
  ASSUME IInv, screen \in RequestScreens, screen' \in RequestScreens,
         at' \in Counts, shown' \subseteq Counts,
         UNCHANGED <<plan, tx, fmt, parsed, buf, size, seed>>
  PROVE  TypeOK' /\ RequestIntact' /\ AnswersFit' /\ ExportIsTheAnswer'
<1>1. TypeOK'
  BY DEF IInv, TypeOK, Screens
<1>2. RequestIntact'
  BY DEF IInv, RequestIntact
<1>3. AnswersFit' /\ ExportIsTheAnswer'
  BY DEF IInv, AnswersFit, ExportIsTheAnswer, RequestScreens, ReviewScreens
<1>4. QED BY <1>1, <1>2, <1>3

LEMMA TurnPageStep ==
  ASSUME IInv, TurnPage
  PROVE  /\ IInv'
         /\ shown' \subseteq PagesOf[tx]
<1>1. /\ screen = "ReviewTx" /\ tx \in Txs /\ plan = PlanFor(tx)
      /\ at \in Nat /\ at < plan.pages /\ shown = 0 .. at
  <2>1. screen = "ReviewTx" /\ screen \in RequestScreens
    BY DEF TurnPage, RequestScreens, ReviewScreens
  <2>2. tx \in Txs /\ plan = PlanFor(tx)
    BY <2>1 DEF IInv, RequestIntact
  <2>3. at \in Nat
    BY DEF IInv, TypeOK, Counts
  <2>4. at < plan.pages /\ shown = 0 .. at
    BY <2>1 DEF IInv, Walk
  <2>5. QED BY <2>1, <2>2, <2>3, <2>4
<1>2. plan.pages \in 1 .. 9 /\ plan.covenant = (tx \in Covenants)
  BY <1>1, PlanTypes
<1>3. PagesOf[tx] = (0 .. plan.pages - 1)
                    \cup (IF tx \in Covenants THEN {plan.pages} ELSE {})
  BY <1>1, PagesOfPlan
<1>4. tx' = tx /\ plan' = plan
  BY DEF TurnPage
<1>5. CASE at + 1 < plan.pages
  <2> USE <1>1, <1>2
  <2>1. screen' = "ReviewTx" /\ at' = at + 1 /\ shown' = 0 .. at'
    <3>1. screen' = "ReviewTx" /\ at' = at + 1 /\ shown' = shown \cup {at + 1}
      BY <1>5 DEF TurnPage
    <3>2. QED BY <3>1
  <2>2. at' \in Counts /\ shown' \subseteq Counts /\ shown' \subseteq PagesOf[tx]
    BY <1>1, <1>2, <1>3, <1>5, <2>1 DEF Counts
  <2>3. TypeOK' /\ RequestIntact' /\ AnswersFit' /\ ExportIsTheAnswer'
    BY <1>1, <2>1, <2>2, AlongTheWalk DEF TurnPage, RequestScreens, ReviewScreens
  <2>4. Walk'
    BY <1>4, <1>5, <2>1 DEF Walk, RequestScreens
  <2>5. QED BY <2>2, <2>3, <2>4 DEF IInv
<1>6. CASE at + 1 >= plan.pages
  <2>1. shown = 0 .. plan.pages - 1
    BY <1>1, <1>2, <1>6
  <2>2. /\ screen' = IF plan.covenant THEN "ReviewCovenant" ELSE "ConfirmTx"
        /\ at' = 0
        /\ shown' = PagesOf[tx]
    <3> USE DEF GoTo
    <3>0. ~(at + 1 < plan.pages)
      BY <1>1, <1>2, <1>6
    <3>1. CASE plan.covenant
      <4>1. screen' = "ReviewCovenant" /\ at' = 0 /\ shown' = shown \cup {plan.pages}
        BY <3>0, <3>1 DEF TurnPage
      <4>2. PagesOf[tx] = (0 .. plan.pages - 1) \cup {plan.pages}
        BY <1>2, <1>3, <3>1
      <4>3. QED BY <2>1, <3>1, <4>1, <4>2
    <3>2. CASE ~plan.covenant
      <4>1. screen' = "ConfirmTx" /\ at' = 0 /\ shown' = shown
        BY <3>0, <3>2 DEF TurnPage
      <4>2. PagesOf[tx] = 0 .. plan.pages - 1
        BY <1>2, <1>3, <3>2
      <4>3. QED BY <2>1, <3>2, <4>1, <4>2
    <3>3. QED BY <3>1, <3>2
  <2>3. at' \in Counts /\ shown' \subseteq Counts
    BY <1>2, <1>3, <2>2 DEF Counts
  <2>4. TypeOK' /\ RequestIntact' /\ AnswersFit' /\ ExportIsTheAnswer'
    BY <1>1, <2>2, <2>3, AlongTheWalk DEF TurnPage, RequestScreens, ReviewScreens
  <2>5. Walk'
    BY <1>2, <1>4, <2>2 DEF Walk, RequestScreens
  <2>6. QED BY <2>2, <2>4, <2>5 DEF IInv
<1>7. QED BY <1>1, <1>2, <1>5, <1>6

LEMMA LeaveCovenantStep ==
  ASSUME IInv, LeaveCovenant
  PROVE  IInv'
<1>1. /\ screen = "ReviewCovenant" /\ screen' = "ConfirmTx" /\ at' = 0
      /\ UNCHANGED <<plan, tx, fmt, parsed, buf, size, seed, shown>>
  BY DEF LeaveCovenant, GoTo
<1>2. shown = PagesOf[tx] /\ shown \subseteq Counts
  BY <1>1 DEF IInv, Walk, TypeOK, RequestScreens, ReviewScreens
<1>3. TypeOK' /\ RequestIntact' /\ AnswersFit' /\ ExportIsTheAnswer'
  BY <1>1, <1>2, AlongTheWalk DEF RequestScreens, ReviewScreens, Counts
<1>4. Walk'
  BY <1>1, <1>2 DEF Walk
<1>5. QED BY <1>3, <1>4 DEF IInv

LEMMA ConfirmStep ==
  ASSUME IInv, Confirm(FALSE)
  PROVE  IInv'
<1>1. /\ screen = "ConfirmTx" /\ screen' = "Signing" /\ at' = 0
      /\ UNCHANGED <<plan, tx, fmt, parsed, buf, size, seed, shown>>
  BY DEF Confirm, GoTo
<1>2. shown = PagesOf[tx] /\ shown \subseteq Counts
  BY <1>1 DEF IInv, Walk, TypeOK, RequestScreens, ReviewScreens
<1>3. TypeOK' /\ RequestIntact' /\ AnswersFit' /\ ExportIsTheAnswer'
  BY <1>1, <1>2, AlongTheWalk DEF RequestScreens, ReviewScreens, Counts
<1>4. Walk'
  BY <1>1, <1>2 DEF Walk
<1>5. QED BY <1>3, <1>4 DEF IInv

(* The ways out of the walk, and what happens away from it. *)
LEMMA WayOutStep ==
  ASSUME IInv,
         \/ Confirm(TRUE) \/ Cancel \/ Leave \/ RefuseToSign \/ Wipe
         \/ OtherPayload \/ \E k \in Seeds : SelectSeed(k)
  PROVE  IInv'
<1>1. screen' \in {"Menu", "Rejected"} /\ at' \in {at, 0} /\ shown' = shown /\ plan' = plan
  BY DEF Confirm, Cancel, Leave, RefuseToSign, Wipe, OtherPayload, SelectSeed, GoTo
<1>2. tx' \in {tx, NoTx} /\ fmt' = fmt /\ parsed' = parsed /\ buf' \in {buf, Scrap}
  BY DEF Confirm, Cancel, Leave, RefuseToSign, Wipe, OtherPayload, SelectSeed
<1>3. size' \in {size, NoTx}
  BY DEF Confirm, Cancel, Leave, RefuseToSign, Wipe, OtherPayload, SelectSeed
<1>4. seed' \in Seeds
  BY DEF Confirm, Cancel, Leave, RefuseToSign, Wipe, OtherPayload, SelectSeed, Seeds, IInv, TypeOK
<1>5. at' \in Counts
  BY <1>1 DEF IInv, TypeOK, Counts
<1>6. QED BY <1>1, <1>2, <1>3, <1>4, <1>5, OffTheWalk DEF IInv, TypeOK

(* The response is written: to the transaction under review, in its        *)
(* format, with the regions of the bundle it came in.                      *)
LEMMA ProduceStep ==
  ASSUME IInv, SignInput, Produce(TRUE)
  PROVE  /\ IInv'
         /\ screen' = "Export" /\ buf'.kind = "response" /\ buf'.of = tx
<1>1. /\ screen = "Signing" /\ tx \in Txs
      /\ UNCHANGED <<plan, tx, fmt, parsed, seed, shown>>
  BY DEF SignInput
<1>2. fmt = Format[tx] /\ (fmt = "PSKB" => parsed = tx /\ buf = Json(tx))
  BY <1>1 DEF IInv, RequestIntact, RequestScreens
<1>3. tx # NoTx
  BY <1>1, TxsAssumption
<1>4. size' = tx /\ buf' = Response(tx, fmt, SplicedFrom) /\ screen' = "Export" /\ at' = 0
  BY <1>3 DEF Produce, Outcome, SizeAfter, GoTo
<1>5. fmt = "PSKB" /\ tx \in Extended => SplicedFrom = tx
  BY <1>2, <1>1, ContentTypes DEF SplicedFrom
<1>6. SplicedFrom \in Txs \cup {NoTx}
  BY DEF SplicedFrom, IInv, TypeOK, Contents
<1>7. fmt \in Formats
  BY DEF IInv, TypeOK
<1>8. /\ buf' \in Contents /\ buf'.kind = "response" /\ buf'.of = tx
      /\ buf'.format = fmt /\ buf'.regions = SplicedFrom
  BY <1>1, <1>4, <1>6, <1>7, ContentTypes
<1>9. TypeOK'
  BY <1>1, <1>4, <1>8 DEF IInv, TypeOK, Screens, Counts
<1>10. RequestIntact' /\ Walk'
  BY <1>4 DEF RequestIntact, Walk, RequestScreens, ReviewScreens
<1>11. AnswersFit' /\ ExportIsTheAnswer'
  BY <1>1, <1>2, <1>4, <1>5, <1>8 DEF AnswersFit, ExportIsTheAnswer
<1>12. QED BY <1>4, <1>8, <1>9, <1>10, <1>11 DEF IInv

LEMMA SignInputStep ==
  ASSUME IInv, SignInput
  PROVE  IInv'
<1>1. /\ screen = "Signing" /\ screen \in RequestScreens /\ tx \in Txs
      /\ UNCHANGED <<plan, tx, fmt, parsed, seed, shown>>
  BY DEF SignInput, RequestScreens
<1>2. CASE at + 1 < plan.inputs
  <2>1. screen' = "Signing" /\ at' = at + 1 /\ buf' = buf /\ size' = size
    BY <1>2 DEF SignInput
  <2>2. at' \in Counts
    BY <1>2, <2>1 DEF IInv, TypeOK, Plans, Counts
  <2>3. shown = PagesOf[tx] /\ shown \subseteq Counts
    BY <1>1 DEF IInv, Walk, TypeOK
  <2>4. TypeOK' /\ RequestIntact' /\ AnswersFit' /\ ExportIsTheAnswer'
    BY <1>1, <2>1, <2>2, <2>3, AlongTheWalk
  <2>5. Walk'
    BY <1>1, <2>1, <2>3 DEF Walk
  <2>6. QED BY <2>4, <2>5 DEF IInv
<1>3. CASE Produce(TRUE)
  BY <1>3, ProduceStep
<1>4. CASE Produce(FALSE)
  <2>1. /\ screen' = "Rejected" /\ at' = 0 /\ size' = NoTx /\ buf' \in {buf, Scrap}
    BY <1>4 DEF Produce, Outcome, SizeAfter, GoTo
  <2>2. at' \in Counts
    BY <2>1 DEF Counts
  <2>3. QED BY <1>1, <2>1, <2>2, OffTheWalk DEF IInv, TypeOK
<1>5. (at + 1 < plan.inputs) \/ Produce(TRUE) \/ Produce(FALSE)
  BY DEF SignInput
<1>6. QED BY <1>2, <1>3, <1>4, <1>5

LEMMA StepInv == IInv /\ [Next]_vars => IInv'
<1> SUFFICES ASSUME IInv, [Next]_vars PROVE IInv'
  OBVIOUS
<1>1. CASE \E t \in Txs : ScanKspt(t) \/ ScanPskb(t)
  BY <1>1, ScanStep
<1>2. CASE \E f \in Formats : ScanBad(f)
  BY <1>2, BadScanStep
<1>3. CASE TurnPage
  BY <1>3, TurnPageStep
<1>4. CASE LeaveCovenant
  BY <1>4, LeaveCovenantStep
<1>5. CASE \E forged \in BOOLEAN : Confirm(forged)
  BY <1>5, ConfirmStep, WayOutStep
<1>6. CASE SignInput
  BY <1>6, SignInputStep
<1>7. CASE \/ Cancel \/ Leave \/ RefuseToSign \/ Wipe \/ OtherPayload
           \/ \E k \in Seeds : SelectSeed(k)
  BY <1>7, WayOutStep
<1>8. CASE UNCHANGED vars
  BY <1>8 DEF vars, IInv, TypeOK, RequestIntact, AnswersFit, ExportIsTheAnswer, Walk
<1>9. QED BY <1>1, <1>2, <1>3, <1>4, <1>5, <1>6, <1>7, <1>8 DEF Next, SignStep

(* The walk from camera to response, with the pages drawn on it, holds in  *)
(* every reachable state.                                                  *)
THEOREM Invariance == Spec => []IInv
BY InitInv, StepInv, PTL DEF Spec

(* Every variable keeps to its range; the page of a review and the input   *)
(* of a signing run never leave u8.                                        *)
THEOREM TypeCorrect == Spec => []TypeOK
<1>1. IInv => TypeOK
  BY DEF IInv
<1>2. QED BY <1>1, Invariance, PTL

(* What the signer reads at the end of a review is all about the one       *)
(* transaction that was reviewed, and can be shown in full.                *)
THEOREM RequestStaysIntact == Spec => []RequestIntact
<1>1. IInv => RequestIntact
  BY DEF IInv
<1>2. QED BY <1>1, Invariance, PTL

(* A response has the format of its request and gives the unknown regions  *)
(* of the bundle back.                                                     *)
THEOREM ResponsesFit == Spec => []AnswersFit
<1>1. IInv => AnswersFit
  BY DEF IInv
<1>2. QED BY <1>1, Invariance, PTL

(* What is exported after signing is the response just made, at its length. *)
THEOREM ExportedIsAnswered == Spec => []ExportIsTheAnswer
<1>1. IInv => ExportIsTheAnswer
  BY DEF IInv
<1>2. QED BY <1>1, Invariance, PTL

-----------------------------------------------------------------------------
(* The walk implements Approval.                                           *)

(* The four variables of the promise, as KeepsPromise maps them. *)
Request == IF screen \in RequestScreens THEN tx ELSE NoTx
Seen == IF screen \in RequestScreens THEN shown ELSE {}
Approved == screen = "Signing"
Answer == IF buf.kind = "response" THEN buf.of ELSE NoTx

LEMMA PromiseInit == Init => Promise!Init
BY ContentTypes DEF Init, Promise!Init, RequestScreens, ReviewScreens, Scrap

(* Every way out of the walk gives the request up; away from the walk an   *)
(* answer can only be lost.                                                *)
LEMMA OffTheWalkPromise ==
  ASSUME IInv, screen' \in {"Menu", "Rejected"},
         buf' = buf \/ buf'.kind # "response"
  PROVE  [Promise!Next]_(Promise!avars)
<1>1. Request' = NoTx /\ Seen' = {} /\ Approved' = FALSE
  BY DEF Request, Seen, Approved, RequestScreens, ReviewScreens
<1>2. Answer' \in {Answer, NoTx}
  BY DEF Answer
<1>3. CASE screen \in RequestScreens
  <2>1. Request # NoTx
    BY <1>3, TxsAssumption DEF Request, IInv, RequestIntact
  <2>2. Promise!Drop
    BY <1>1, <1>2, <2>1 DEF Promise!Drop, Promise!Over, Request, Seen, Approved, Answer
  <2>3. QED BY <2>2 DEF Promise!Next
<1>4. CASE screen \notin RequestScreens
  <2>1. Request = NoTx /\ Seen = {} /\ Approved = FALSE
    BY <1>4 DEF Request, Seen, Approved, RequestScreens
  <2>2. CASE Answer' = Answer
    BY <1>1, <2>1, <2>2 DEF Promise!avars, Request, Seen, Approved, Answer
  <2>3. CASE Answer # NoTx /\ Answer' = NoTx
    <3>1. Promise!Forget
      BY <1>1, <2>1, <2>3 DEF Promise!Forget, Request, Seen, Approved, Answer
    <3>2. QED BY <3>1 DEF Promise!Next
  <2>4. QED BY <1>2, <2>2, <2>3
<1>5. QED BY <1>3, <1>4

LEMMA ScanPromise ==
  ASSUME IInv, NEW t \in Txs, ScanKspt(t) \/ ScanPskb(t)
  PROVE  [Promise!Next]_(Promise!avars)
<1>1. screen = "Menu" /\ tx' = t /\ buf' \in {buf, Json(t)}
  BY DEF ScanKspt, ScanPskb
<1>2. buf' = buf \/ buf'.kind # "response"
  BY <1>1, ContentTypes
<1>3. CASE t \in Hidden
  <2>1. screen' = "Rejected"
    BY <1>3 DEF ScanKspt, ScanPskb, StartReview, GoTo
  <2>2. QED BY <1>2, <2>1, OffTheWalkPromise
<1>4. CASE t \notin Hidden
  <2>1. screen' = "ReviewTx" /\ shown' = {0}
    BY <1>4 DEF ScanKspt, ScanPskb, StartReview, GoTo
  <2>2. Request = NoTx
    BY <1>1 DEF Request, RequestScreens, ReviewScreens
  <2>3. Request' = t /\ Seen' = {0} /\ Approved' = FALSE
    BY <1>1, <2>1 DEF Request, Seen, Approved, RequestScreens, ReviewScreens
  <2>4. Answer' \in {Answer, NoTx}
    BY <1>2 DEF Answer
  <2>5. 0 \in PagesOf[t]
    BY SizesAssumption DEF PagesOf
  <2>6. Promise!Take
    BY <2>2, <2>3, <2>4, <2>5 DEF Promise!Take, Request, Seen, Approved, Answer
  <2>7. QED BY <2>6 DEF Promise!Next
<1>5. QED BY <1>3, <1>4

(* Turning the page looks at one more page, or only moves on. *)
LEMMA TurnPagePromise ==
  ASSUME IInv, TurnPage
  PROVE  [Promise!Next]_(Promise!avars)
<1>1. /\ screen = "ReviewTx" /\ tx \in Txs
      /\ screen' \in ReviewScreens /\ tx' = tx /\ buf' = buf
  <2>1. screen = "ReviewTx" /\ screen \in RequestScreens
    BY DEF TurnPage, RequestScreens, ReviewScreens
  <2>2. tx \in Txs
    BY <2>1 DEF IInv, RequestIntact
  <2>3. QED BY <2>1, <2>2 DEF TurnPage, GoTo, ReviewScreens
<1>2. Request = tx /\ Seen = shown /\ Approved = FALSE
  BY <1>1 DEF Request, Seen, Approved, RequestScreens, ReviewScreens
<1>3. Request' = tx /\ Seen' = shown' /\ Approved' = FALSE /\ Answer' = Answer
  BY <1>1 DEF Request, Seen, Approved, Answer, RequestScreens, ReviewScreens
<1>4. shown' \subseteq PagesOf[tx]
  BY TurnPageStep
<1>5. shown' = shown \/ \E p : shown' = shown \cup {p} /\ p \notin shown
  BY DEF TurnPage
<1>6. CASE shown' = shown
  BY <1>2, <1>3, <1>6 DEF Promise!avars, Request, Seen, Approved, Answer
<1>7. ASSUME NEW p, shown' = shown \cup {p}, p \notin shown
      PROVE  Promise!Next
  <2>1. p \in PagesOf[tx] \ shown
    BY <1>4, <1>7
  <2>2. tx # NoTx
    BY <1>1, TxsAssumption
  <2>3. Promise!Look
    BY <1>2, <1>3, <1>7, <2>1, <2>2 DEF Promise!Look, Request, Seen, Approved, Answer
  <2>4. QED BY <2>3 DEF Promise!Next
<1>8. QED BY <1>5, <1>6, <1>7

(* CONFIRM is behind the last page. *)
LEMMA ConfirmPromise ==
  ASSUME IInv, Confirm(FALSE)
  PROVE  Promise!Approve
<1>1. screen = "ConfirmTx" /\ screen' = "Signing" /\ UNCHANGED <<tx, buf, shown>>
  BY DEF Confirm, GoTo
<1>2. screen \in RequestScreens /\ screen' \in RequestScreens
  BY <1>1 DEF RequestScreens, ReviewScreens
<1>3. tx # NoTx /\ shown = PagesOf[tx]
  BY <1>1, <1>2, TxsAssumption DEF IInv, RequestIntact, Walk
<1>4. QED BY <1>1, <1>2, <1>3 DEF Promise!Approve

(* The last input answers the approved request. *)
LEMMA SignPromise ==
  ASSUME IInv, SignInput
  PROVE  [Promise!Next]_(Promise!avars)
<1>1. screen = "Signing" /\ screen \in RequestScreens /\ UNCHANGED <<tx, shown>>
  BY DEF SignInput, RequestScreens
<1>2. CASE at + 1 < plan.inputs
  <2>1. screen' = screen /\ buf' = buf
    BY <1>1, <1>2 DEF SignInput
  <2>2. QED BY <1>1, <2>1 DEF Promise!avars
<1>3. CASE Produce(TRUE)
  <2>1. screen' = "Export" /\ buf'.kind = "response" /\ buf'.of = tx
    BY <1>3, ProduceStep
  <2>2. screen' \notin RequestScreens
    BY <2>1 DEF RequestScreens, ReviewScreens
  <2>3. Promise!Sign
    BY <1>1, <2>1, <2>2 DEF Promise!Sign, Promise!Over
  <2>4. QED BY <2>3 DEF Promise!Next
<1>4. CASE Produce(FALSE)
  <2>1. screen' = "Rejected" /\ buf' \in {buf, Scrap}
    BY <1>4 DEF Produce, Outcome, SizeAfter, GoTo
  <2>2. QED BY <2>1, ContentTypes, OffTheWalkPromise
<1>5. (at + 1 < plan.inputs) \/ Produce(TRUE) \/ Produce(FALSE)
  BY DEF SignInput
<1>6. QED BY <1>2, <1>3, <1>4, <1>5

LEMMA PromiseStep == IInv /\ [Next]_vars => [Promise!Next]_(Promise!avars)
<1> SUFFICES ASSUME IInv, [Next]_vars PROVE [Promise!Next]_(Promise!avars)
  OBVIOUS
<1>1. CASE \E t \in Txs : ScanKspt(t) \/ ScanPskb(t)
  BY <1>1, ScanPromise
<1>2. CASE \E f \in Formats : ScanBad(f)
  <2>1. screen' = "Rejected" /\ buf' \in {buf, Scrap}
    BY <1>2 DEF ScanBad, GoTo
  <2>2. QED BY <2>1, ContentTypes, OffTheWalkPromise
<1>3. CASE TurnPage
  BY <1>3, TurnPagePromise
<1>4. CASE LeaveCovenant
  BY <1>4 DEF LeaveCovenant, GoTo, Promise!avars, RequestScreens, ReviewScreens
<1>5. CASE Confirm(FALSE)
  BY <1>5, ConfirmPromise DEF Promise!Next
<1>6. CASE SignInput
  BY <1>6, SignPromise
<1>7. CASE \/ Confirm(TRUE) \/ Cancel \/ Leave \/ RefuseToSign \/ Wipe \/ OtherPayload
           \/ \E k \in Seeds : SelectSeed(k)
  <2>1. screen' \in {"Menu", "Rejected"} /\ buf' \in {buf, Scrap}
    BY <1>7 DEF Confirm, Cancel, Leave, RefuseToSign, Wipe, OtherPayload, SelectSeed, GoTo
  <2>2. QED BY <2>1, ContentTypes, OffTheWalkPromise
<1>8. CASE UNCHANGED vars
  BY <1>8 DEF vars, Promise!avars
<1>9. QED BY <1>1, <1>2, <1>3, <1>4, <1>5, <1>6, <1>7, <1>8 DEF Next, SignStep

(* The device answers only what was shown to its last page and approved,   *)
(* once per approval, whatever was scanned, refused or wiped in between.   *)
THEOREM SignsWhatWasShown == Spec => KeepsPromise
BY PromiseInit, PromiseStep, Invariance, PTL DEF Spec, KeepsPromise, Promise!Spec
=============================================================================
