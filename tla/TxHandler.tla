----------------------------- MODULE TxHandler -----------------------------
(***************************************************************************)
(* Reviewing and signing a transaction, the multisig ceremony, signing a   *)
(* message, committing to and reading a secret (handlers/tx.rs, with the   *)
(* end of the signing in app/signing.rs), and what the camera brings.      *)
(***************************************************************************)
EXTENDS AppData

(* ---- Transactions ---- *)

\* The guide leads to the export of the public key as it lies in the buffer.
SignTxGuide(back) ==
  \/ Menu(back, "SignTxGuide", "SingleSigMenu", {})
  \/ /\ At("SignTxGuide") /\ ~back /\ SeedLoaded
     /\ \E export \in BOOLEAN :
          /\ export => "export from the guide" \in Detours
          /\ ad' = IF export THEN [ad EXCEPT !.kpubReturn = "SignTxGuide",
                                            !.screen = "ExportKpubFrameCount"]
                   ELSE [ad EXCEPT !.screen = "ScanQR"]
     /\ UNCHANGED hist

\* Back from the camera: to the message, to the ceremony or home.
ScanQR(back) ==
  /\ At("ScanQR")
  /\ back
  /\ UNCHANGED hist
  /\ ad' = IF ad.scanHash THEN [ad EXCEPT !.scanHash = FALSE, !.screen = "SignMsgChoice"]
           ELSE IF Collecting
           THEN [ad EXCEPT !.screen = "MultisigAddKey", !.keyIdx = FirstEmpty(ad.ms)]
           ELSE [ad EXCEPT !.screen = "MainMenu"]

ReviewTx(back) == Menu(back, "ReviewTx", "MainMenu", {"ReviewTx", "ReviewCovenant", "ConfirmTx"})
ReviewCovenant(back) == Menu(back, "ReviewCovenant", "MainMenu", {"ReviewCovenant", "ConfirmTx"})
ConfirmTx(back) == Menu(back, "ConfirmTx", "MainMenu", {"MainMenu", "Signing"})

(* The signature is in the buffer: a single-signature answer is shown for a *)
(* phone, a multisig one first asks who will read it.  Nothing signed: home.*)
SigningShown(back) ==
  /\ At("Signing")
  /\ ~back
  /\ UNCHANGED hist
  /\ \/ \E n \in {Single, Several, TooLong} :
          LET a == [ad EXCEPT !.buf = Clear("tx", n), !.nframes = 0, !.safe = FALSE]
          IN  ad' \in {[a EXCEPT !.screen = "ShowQrFrameChoice"],
                       Redrawn([a EXCEPT !.viaDensity = FALSE, !.screen = "ShowQR"])}
     \/ Go("Rejected")

(* ---- The multisig ceremony ---- *)

MultisigChooseMN(back) ==
  /\ At("MultisigChooseMN")
  /\ UNCHANGED hist
  /\ \/ back /\ ad' = [ad EXCEPT !.ms.n = 0, !.screen = "MultisigMenu"]
     \/ /\ ~back
        /\ ad' = [ad EXCEPT !.ms = [NoWallet EXCEPT !.n = NCosigners],
                            !.keyIdx = 0, !.screen = "MultisigAddKey"]

MultisigAddKey(back) ==
  /\ At("MultisigAddKey")
  /\ UNCHANGED hist
  /\ \/ /\ back /\ ad.keyIdx = 0
        /\ ad' = [ad EXCEPT !.ms.n = 0, !.screen = "MultisigChooseMN"]
     \/ back /\ ad.keyIdx > 0 /\ ad' = [ad EXCEPT !.keyIdx = @ - 1]
     \/ ~back /\ Go("MultisigKpubWarn")
     \/ ~back /\ SeedLoaded /\ Go("MultisigPickSeed")

MultisigKpubWarn(back) ==
  Menu(back, "MultisigKpubWarn", "MultisigAddKey", {"MultisigAddKey", "ScanQR"})

\* Place i gets a key.  With the last one the script is built, whatever comes of
\* it, and the wallet is stored and shown; otherwise the next key is asked for.
KeyAdded(a, i, owner) ==
  LET b == [a EXCEPT !.ms.keys[i] = owner]
  IN  IF i + 1 >= a.ms.n
      THEN [b EXCEPT !.ms = [b.ms EXCEPT !.active = TRUE, !.built = @ \/ Buildable(b.ms)],
                     !.screen = "MultisigShowAddress"]
      ELSE [b EXCEPT !.keyIdx = i + 1, !.screen = "MultisigAddKey"]

\* The key of the wallet just selected, from the branch for cosigners.  That the
\* key is there already is not asked.
OwnKeyAdded ==
  \E o \in Owners :
    /\ SeedLoaded /\ ad.keyIdx < ad.ms.n
    /\ HasCosigner(ad.ms, o) => "one seed twice" \in Detours
    /\ ad' = KeyAdded([ad EXCEPT !.seed = "words"], ad.keyIdx, o)

\* Choosing a slot selects its wallet; only words give a cosigner key.
MultisigPickSeed(back) ==
  /\ At("MultisigPickSeed")
  /\ UNCHANGED hist
  /\ \/ back /\ Go("MultisigAddKey")
     \/ ~back /\ Go("SingleSigMenu")                     \* an empty row
     \/ ~back /\ SeedLoaded /\ Go("ConfirmDeleteSeed")
     \/ \E k \in Kinds \ {"words"} : ~back /\ SeedLoaded /\ ad' = [ad EXCEPT !.seed = k]
     \/ ~back /\ OwnKeyAdded

\* A wallet of one's own has a descriptor to go back to; a single address that
\* was loaded has none.
MultisigShowAddress(back) ==
  /\ At("MultisigShowAddress")
  /\ UNCHANGED hist
  /\ \/ back /\ Go(IF ad.ms.active THEN "MultisigDescriptor" ELSE "SdImportMenu")
     \/ ~back /\ ad' = [ad EXCEPT !.picking = TRUE, !.screen = "AddrIndexPicker"]
     \/ ~back /\ Go("MultisigShowAddressQR")

MultisigShowAddressQR(back) ==
  LET next == IF ad.ms.active THEN "MultisigSaveAddrAsk" ELSE "SdImportMenu"
  IN  Menu(back, "MultisigShowAddressQR", next, {next})

\* The address is put where a public key is kept.
MultisigSaveAddrAsk(back) ==
  \/ Menu(back, "MultisigSaveAddrAsk", "MultisigShowAddress", {"MultisigDescriptor"})
  \/ /\ At("MultisigSaveAddrAsk") /\ ~back
     /\ ad' = [ad EXCEPT !.kpub = "addr", !.file = "TXT", !.pp = "name",
                         !.screen = "SdMsAddrFilename"]
     /\ Named("addr")

\* Bug for testing: the number of frames last shown is kept.
MutMultisigDescriptor(back) ==
  LET a == [ad EXCEPT !.buf = Clear("desc", Single)]
  IN  /\ At("MultisigDescriptor")
      /\ \/ /\ back
            /\ Go(IF ad.ms.active THEN "MultisigShowAddress" ELSE "SdImportMenu")
            /\ UNCHANGED hist
         \/ /\ ~back
            /\ ad' = [a EXCEPT !.file = "TXT", !.pp = "name", !.screen = "SdMsDescFilename"]
            /\ Named("desc")
         \/ \E n \in {Single, Several} :
              /\ ~back
              /\ ad' = Redrawn([a EXCEPT !.buf.size = n, !.screen = "ShowQR"])
              /\ UNCHANGED hist

MultisigDescriptor(back) ==
  LET a == [ad EXCEPT !.buf = Clear("desc", Single)]
  IN  /\ At("MultisigDescriptor")
      /\ \/ /\ back
            /\ Go(IF ad.ms.active THEN "MultisigShowAddress" ELSE "SdImportMenu")
            /\ UNCHANGED hist
         \/ /\ ~back
            /\ ad' = [a EXCEPT !.file = "TXT", !.pp = "name", !.screen = "SdMsDescFilename"]
            /\ Named("desc")
         \/ \E n \in {Single, Several} :
              /\ ~back
              /\ ad' = Redrawn([a EXCEPT !.buf.size = n, !.nframes = 0,
                                         !.screen = "ShowQR"])
              /\ UNCHANGED hist

(* ---- Messages ---- *)

SignMsgChoice(back) ==
  /\ At("SignMsgChoice")
  /\ UNCHANGED hist
  /\ \/ back /\ Go("SingleSigMenu")
     \/ ~back /\ ad' = [ad EXCEPT !.pp = "empty", !.screen = "SignMsgType"]
     \/ ~back /\ Go("SignMsgFile")
     \/ ~back /\ ad' = [ad EXCEPT !.scanHash = TRUE, !.screen = "ScanQR"]

\* The text is kept and hashed.
SignMsgType(back) ==
  /\ At("SignMsgType")
  /\ UNCHANGED hist
  /\ \/ back /\ ad' = [ad EXCEPT !.pp = "empty", !.screen = "SignMsgChoice"]
     \/ /\ ~back
        /\ ad' = [ad EXCEPT !.fromFile = FALSE, !.text = "typed", !.hash = "typed",
                            !.pp = "empty", !.screen = "SignMsgPreview"]

\* That the text is a file's is noted before the file is read.
SignMsgFile(back) ==
  /\ At("SignMsgFile")
  /\ UNCHANGED hist
  /\ \/ back /\ Go("SignMsgChoice")
     \/ ~back /\ ad' = [ad EXCEPT !.fromFile = TRUE, !.text = None]
     \/ ~back /\ ad' = [ad EXCEPT !.fromFile = TRUE, !.text = "file", !.hash = "file",
                                  !.screen = "SignMsgPreview"]

SignMsgPreview(back) == Menu(back, "SignMsgPreview", "SignMsgChoice", {"SignMsgHashPreview"})

\* Bug for testing: back always leads to the text.
MutSignMsgHashPreview(back) ==
  Menu(back, "SignMsgHashPreview", "SignMsgPreview",
       IF ad.seed = "words" THEN {"SignMsgResult"} ELSE {})

SignMsgHashPreview(back) ==
  Menu(back, "SignMsgHashPreview", IF ad.fromFile THEN "SignMsgPreview" ELSE "SignMsgChoice",
       IF ad.seed = "words" THEN {"SignMsgResult"} ELSE {})

SignMsgResult(back) ==
  \/ Menu(back, "SignMsgResult", "SingleSigMenu", {"SignMsgResultQr"})
  \/ At("SignMsgResult") /\ ~back /\ Naming("SdSigFilename", "TXT", "name", "sig")

SignMsgResultQr(back) == Menu(back, "SignMsgResultQr", "SignMsgResult", {"SignMsgResult"})

(* ---- Committed and encrypted secrets ---- *)

\* What was typed stays in the line.
CommitRevealType(back) ==
  /\ At("CommitRevealType")
  /\ UNCHANGED hist
  /\ \/ back /\ ad' = [ad EXCEPT !.pp = "empty", !.screen = "SingleSigMenu"]
     \/ /\ ~back /\ ad.pp = "text"
        /\ ad' = [ad EXCEPT !.text = "secret", !.screen = "CommitRevealPreview"]

\* Only words give the key to encrypt to; the text is wiped either way.
CommitRevealPreview(back) ==
  /\ At("CommitRevealPreview")
  /\ UNCHANGED hist
  /\ \/ back /\ Go("CommitRevealType")
     \/ /\ ~back
        /\ ad' = [ad EXCEPT !.text = None, !.pp = "empty",
                            !.screen = IF ad.seed = "words" THEN "CommitRevealResult" ELSE @]

CommitRevealResult(back) ==
  Menu(back, "CommitRevealResult", "SingleSigMenu", {"CommitRevealResultQr"})
CommitRevealResultQr(back) ==
  Menu(back, "CommitRevealResultQr", "CommitRevealResult", {"CommitRevealResult"})

DecryptSecretScan(back) ==
  /\ back
  /\ Menu(back, "DecryptSecretScan", "SingleSigMenu", {})

\* The plaintext is wiped when it is left.
DecryptSecretResult(back) ==
  /\ At("DecryptSecretResult")
  /\ UNCHANGED hist
  /\ \/ back /\ ad' = [ad EXCEPT !.text = None, !.screen = "SingleSigMenu"]
     \/ ~back /\ Go("DecryptSecretResultQr")

DecryptSecretResultQr(back) ==
  Menu(back, "DecryptSecretResultQr", "DecryptSecretResult", {"DecryptSecretResult"})

-----------------------------------------------------------------------------
(***************************************************************************)
(* What a QR code read by the camera does (process_confirmed_qr in         *)
(* handlers/camera_loop.rs).  How it is read is the subject of             *)
(* DecodeHandoff and QrFrames; here a code is what its first bytes say.    *)
(* Each branch is tried in the order of the code: a hash when one is       *)
(* awaited, a secret on its own screen, then by format.                    *)
(***************************************************************************)
CameraScreens == {"ScanQR", "DecryptSecretScan"}

\* That an earlier message came from a file is not forgotten here.
ScansHash ==
  /\ At("ScanQR") /\ ad.scanHash
  /\ ad.fromFile => "a hash after a file" \in Detours
  /\ ad' \in {[ad EXCEPT !.scanHash = FALSE],
              [ad EXCEPT !.scanHash = FALSE, !.hash = "scanned",
                         !.screen = "SignMsgHashPreview"]}

ScansSecret ==
  /\ At("DecryptSecretScan") /\ ~ad.scanHash
  /\ ad' \in {[ad EXCEPT !.screen = "SingleSigMenu"],
              [ad EXCEPT !.text = "secret", !.screen = "DecryptSecretResult"]}

ByFormat == At("ScanQR") /\ ~ad.scanHash

\* An address is shown; where back leads is left from an earlier visit.
ScansAddress == ByFormat /\ ad' = [ad EXCEPT !.scanned = TRUE, !.screen = "ShowAddress"]

ScansTx == ByFormat /\ \E s \in {"ReviewTx", "Rejected"} : Go(s)

\* Bug for testing: what was typed last is left in the passphrase.
MutScansSeedQR == ByFormat /\ Go("PassphraseEntry")

ScansSeedQR == ByFormat /\ ad' = [ad EXCEPT !.pp = "empty", !.screen = "PassphraseEntry"]

\* Points of a stealth payment are answered with the keys they belong to, in one
\* code or in a cycle of codes a touch ends; without words the camera goes on.
StealthShown == Go("MainMenu")
ScansStealthKey == ByFormat /\ (StealthShown \/ UNCHANGED ad)

\* Bug for testing: a key that is in the wallet already is taken again.
MutScansKpub ==
  /\ ByFormat
  /\ \/ \E o \in Owners : Collecting /\ ad' = KeyAdded(ad, FirstEmpty(ad.ms), o)
     \/ \E form \in KpubForms :
          /\ ~Collecting
          /\ ad' = [ad EXCEPT !.kpub = form, !.kn = 0, !.kuser = 0,
                              !.screen = "KpubScannedPopup"]

\* A public key: the next cosigner during a ceremony, else something to pass on.
ScansKpub ==
  /\ ByFormat
  /\ \/ \E o \in Owners :
          /\ Collecting /\ ~HasCosigner(ad.ms, o)
          /\ ad' = KeyAdded(ad, FirstEmpty(ad.ms), o)
     \/ \E form \in KpubForms :
          /\ ~Collecting
          /\ ad' = [ad EXCEPT !.kpub = form, !.kn = 0, !.kuser = 0,
                              !.screen = "KpubScannedPopup"]

\* A covenant to keep: it waits in the buffer for its name.
ScansCovenant ==
  /\ ByFormat
  /\ ad' = [ad EXCEPT !.buf = Clear("cov", Single), !.covb = TRUE, !.pp = "empty",
                      !.screen = "CovBackupName"]

ScansNothingKnown == ByFormat /\ Go("Rejected")

ProcessConfirmedQr ==
  /\ AtOneOf(CameraScreens)
  /\ UNCHANGED hist
  /\ \/ ScansHash \/ ScansSecret \/ ScansAddress \/ ScansTx \/ ScansSeedQR
     \/ ScansStealthKey \/ ScansKpub \/ ScansCovenant \/ ScansNothingKnown
=============================================================================
