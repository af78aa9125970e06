------------------------------ MODULE AppData ------------------------------
(***************************************************************************)
(* What the screens of the device share.  The firmware keeps all of its    *)
(* state in one structure, `ad`; a touch is dispatched to the handler of   *)
(* the screen `ad.app.state`, which sets fields of `ad` and the next       *)
(* screen.  The handler modules (SdHandler, TxHandler, ...) each translate *)
(* one file of bootloader/src/handlers; Device composes them.              *)
(*                                                                         *)
(* Payloads, files and typed text are represented by their kind: what can  *)
(* go wrong here is a payload of one kind taken for another.  A wallet is  *)
(* the kind of its slot; which wallet it is, is SeedSession's business.    *)
(***************************************************************************)
EXTENDS Integers, FiniteSets

CONSTANTS
  MaxVisits(_), \* how often the main menu is left in a theme (bound)
  NCosigners,   \* the keys of a multisig wallet
  Detours,      \* the paths admitted that the code does not keep clean
  Themes,       \* names of the groups of screens an instance visits
  Scope(_)      \* the screens of a theme

ASSUME NCosignersAssumption == NCosigners \in Nat \ {0}

VARIABLES
  ad,           \* AppData
  hist          \* what the user asked for; no code reads it

deviceVars == <<ad, hist>>

Kinds == {"words", "raw", "xprv"}                 \* SlotKind of a filled slot
Payloads == {"tx", "desc", "addr", "kpub", "cov", "junk"}
Files == {"seed", "xprv", "sig"} \cup Payloads
None == "none"
Empty == [kind |-> None, enc |-> FALSE, size |-> 0]

\* The three sizes the QR screens tell apart: one frame; several at either
\* density; too many frames at the Safe density.
Single == 1
Several == 2
TooLong == 3

\* A multisig wallet: whose key is in which place (0 is nobody's).  `built` is
\* script_len > 0; build_script builds nothing when a key is there twice.
Cosigners == 0 .. NCosigners - 1
Nobody == 0
Owners == 1 .. NCosigners + 1                      \* one more, who can take a place
NoWallet == [n |-> 0, keys |-> [i \in Cosigners |-> Nobody], active |-> FALSE,
             built |-> FALSE]
HasCosigner(ms, o) == \E i \in Cosigners : ms.keys[i] = o
Buildable(ms) == \A i, j \in Cosigners : ms.keys[i] = ms.keys[j] => i = j

\* The structure at power-up.
InitAd ==
  [screen |-> "MainMenu",
   seed |-> None,                                  \* kind of the selected slot
   pp |-> "empty",                                 \* pp_input
   file |-> None,                                  \* extension in kspt_filename
   buf |-> Empty,                                  \* signed_qr_buf, signed_qr_len
   nframes |-> 0,                                  \* signed_qr_nframes
   safe |-> FALSE, viaDensity |-> FALSE,           \* signed_qr_large and _mode
   kpub |-> None, kuser |-> 0, kn |-> 0,           \* kpub_data, _user_nframes, _nframes
   origin |-> "addr", txt |-> "kpub",              \* sd_txt_origin, txt_import_type
   list |-> None, first |-> "blank",               \* sd_file_list, its entry 0
   pickedKsp |-> FALSE,                            \* extension in sd_selected_file
   covb |-> FALSE,                                 \* covb_len > 0
   ms |-> NoWallet, keyIdx |-> 0,                  \* ms_creating, key_idx
   picking |-> FALSE,                              \* ms_picking_key = 255
   scanHash |-> FALSE, fromFile |-> FALSE,         \* sign_msg_scan_hash, _from_file
   text |-> None, hash |-> None,                   \* jpeg_desc_buf, sign_msg_hash: of what
   scanned |-> FALSE,                              \* scanned_addr_len > 0
   addrReturn |-> "SeedList", kpubReturn |-> "WatchOnlyMenu",
   backupReturn |-> "SeedList", deleteReturn |-> "MainMenu",
   owNext |-> "MainMenu", owBack |-> "MainMenu"]

InitHist == [theme |-> None, visits |-> 0, named |-> None, exists |-> FALSE, agreed |-> FALSE,
             secret |-> FALSE, written |-> {}]

At(s) == ad.screen = s
AtOneOf(S) == ad.screen \in S

\* The next screen, and nothing else.
Go(s) == ad' = [ad EXCEPT !.screen = s]

SeedLoaded == ad.seed # None
Collecting == ad.ms.n > 0 /\ ~ad.ms.active       \* the test of every handler

\* A public key that comes from outside may be text or 79 bytes.
KpubForms == {"kpub"} \cup (IF "a key in binary" \in Detours THEN {"raw"} ELSE {})
KpubKind == IF ad.kpub = "raw" THEN "kpub" ELSE ad.kpub

\* The first place without a key, or the first place of all.
FirstEmpty(ms) ==
  LET free == {i \in Cosigners : ms.keys[i] = Nobody}
  IN  IF free = {} THEN 0 ELSE CHOOSE i \in free : \A j \in free : i <= j

Clear(k, size) == [kind |-> k, enc |-> FALSE, size |-> size]

\* A screen of buttons: back leads to `left`, a button to one of `items`, a
\* touch beside them changes nothing.
Menu(back, screen, left, items) ==
  /\ At(screen)
  /\ \E s \in IF back THEN {left} ELSE items : Go(s)
  /\ UNCHANGED hist

(* A name is asked for: the naming screen opens with the suggested name or  *)
(* an empty line.  When the name is taken the user is warned, and on his    *)
(* consent the flow goes on where it would have gone.                       *)
Named(kind) == hist' = [hist EXCEPT !.named = kind, !.exists = FALSE, !.agreed = FALSE,
                                    !.secret = FALSE, !.written = {}]
Naming(screen, ext, pp, kind) ==
  /\ ad' = [ad EXCEPT !.screen = screen, !.file = ext, !.pp = pp]
  /\ Named(kind)

NameGiven(ext, next) ==
  \/ /\ ad' = [ad EXCEPT !.file = ext, !.screen = next, !.pp = "empty"]
     /\ hist' = [hist EXCEPT !.exists = FALSE]
  \/ /\ ad' = [ad EXCEPT !.file = ext, !.screen = "SdOverwriteWarning",
                          !.owNext = next, !.owBack = ad.screen]
     /\ hist' = [hist EXCEPT !.exists = TRUE, !.agreed = FALSE]

(* A file is written, or the card fails.  The record says what was written,  *)
(* for which question about a name, whose name it has (typed or accepted by  *)
(* the user, an entry of a list, or made of the bytes), whether a file had   *)
(* that name, and whether the user was asked and agreed to lose it.          *)
Saved(w) == hist' \in {hist, [hist EXCEPT !.written = {w}]}
Write(kind, enc, secret) ==
  Saved([kind |-> kind, enc |-> enc, named |-> hist.named, secret |-> secret,
         name |-> "typed", exists |-> hist.exists, agreed |-> hist.agreed])

\* Nobody looks whether a file has the name; one that has it is deleted.
WriteAtOnce(kind, named, name) ==
  \E taken \in IF name = "file" THEN {TRUE} ELSE BOOLEAN :
    Saved([kind |-> kind, enc |-> FALSE, named |-> named, secret |-> FALSE,
           name |-> name, exists |-> taken, agreed |-> FALSE])

\* Frames at the chosen density; beyond TooLong the receiver gives up.
FramesOf(b, safe) == IF safe THEN b.size + 1 ELSE b.size

(* The screens that change as they are drawn.  ShowQR counts the frames: more*)
(* than one asks for the mode first, too many are refused.  ExportKpub asks  *)
(* how many frames, then for the mode.                                       *)
RedrawnQR(a) ==
  IF a.buf.kind = None \/ FramesOf(a.buf, a.safe) = 1 THEN a
  ELSE IF FramesOf(a.buf, a.safe) > TooLong THEN [a EXCEPT !.screen = "Rejected"]
  ELSE IF a.nframes = 0
       THEN [a EXCEPT !.screen = "ShowQrModeChoice", !.nframes = FramesOf(a.buf, a.safe)]
       ELSE a

RedrawnKpub(a) ==                                \* a binary key stays, with an error
  IF a.kpub = None THEN a
  ELSE IF a.kuser = 0 /\ a.kn = 0 THEN [a EXCEPT !.screen = "ExportKpubFrameCount"]
  ELSE IF a.kuser = 1 THEN [a EXCEPT !.kn = 1]
  ELSE IF a.kn = 0 /\ a.kpub # "raw" THEN [a EXCEPT !.screen = "ExportKpubModeChoice", !.kn = a.kuser]
  ELSE a

Redrawn(a) == CASE a.screen = "ShowQR" -> RedrawnQR(a)
                [] a.screen = "ExportKpub" -> RedrawnKpub(a)
                [] OTHER -> a

\* The keyboard screens by what is typed on them.
NameScreens == {"SdSeedFilename", "SdSigFilename", "SdXprvFilename", "SdKsptFilename",
                "SdKpubFilename", "SdMsAddrFilename", "SdMsDescFilename", "CovBackupName"}
PassScreens == {"SdBackupPassphrase", "SdRestorePassphrase", "SdXprvExportPassphrase",
                "SdXprvImportPassphrase", "SdKsptEncryptPass", "PassphraseEntry",
                "StegoJpegPpEntry", "StegoHintPassphrase"}
TextScreens == {"SignMsgType", "CommitRevealType", "StegoJpegDesc", "StegoImportPass"}
=============================================================================
