# A TLA+ verification of KasSigner

KasSigner is an air-gapped signing device for Kaspa: an ESP32-S3 with a camera, a
touch screen and no network. Wallets are typed, scanned or generated on it, live in
RAM only, and sign transactions that come and go as QR codes. KasSee is its
watch-only companion, a browser wallet.

This directory holds TLA+ modules translated from the code under `src/`, the TLC
configurations that check them, and proofs of the main properties for every value of
the constants. Paths below are relative to `src/`; `PROJECT.json` maps each
definition to the lines it models.

## 1. Inventory

### The system in one paragraph

`bootloader/src/main.rs` is one loop on core 0. A turn looks at the idle clock,
takes one touch and dispatches it to the handler of the current screen
(`AppState`, about ninety of them), redraws, runs one camera cycle on a camera
screen, and runs one signing step on `Signing`. All of the state is the one
structure `AppData`; nothing runs concurrently with it but core 1, which decodes QR
images. So the hard behaviour is of three kinds: the hand-off between the two cores;
facts held in several copies in `AppData` that dozens of handlers must keep in step
whatever the order of the screens; and buffers and flags that serve one screen after
another.

### Components

| component | state it keeps | operations | what makes it correct |
|---|---|---|---|
| Seed slots and session (`ui/seed_manager.rs`, `app/signing.rs`, `handlers/seed.rs`, parts of `sd.rs`, `tx.rs`, `export.rs`, `core/src/ext.rs`) | sixteen slots, the selected one, the word array being typed or selected, the account key, address caches, two extended key banks, the chain cache, on-demand address keys | import, generate, derive a child, import key files, select, delete, wipe, look at addresses, idle pump, key scan of the signer | everything derived is of the selected wallet; nothing outlives the last wallet; a slot is only ever filled when empty |
| Decode hand-off (`hw/decode_core.rs`, `handlers/camera_loop.rs`) | `JOB_STATE`, job parameters, two images, the result cell, the generation byte, the scan statics | capture, collect, act, fill, submit; take, decode, finish | each state of the byte gives the buffer to one core; stale results are dropped; a readable code is read in the end |
| Signing flow (`camera_loop.rs` `process_confirmed_qr`, `app/input.rs`, `handlers/tx.rs`, `app/signing.rs`, `core/src/wallet/{pskt,std_pskt,transaction}.rs`) | `demo_tx`, the review plan, the wire format, the parse record of a bundle, the shared buffer `signed_qr_buf` | scan, turn a page, confirm, cancel, sign one input, refuse | only what was shown in full and approved is signed, once; the response is in the format of the request; no old response is shown for a new one |
| Screens (`handlers/*.rs`, `app/input.rs`, `app/data.rs`, `ui/redraw.rs`) | the screen, the shared buffer, frame counters and QR mode, names typed and picked, origins of lists, the kpub, the message, the multisig wallets | touch, scan, home, back, idle wipe | what is shown or saved is whole, of the kind asked for, encrypted when that was asked; nothing one flow leaves behind is taken up by another |
| Animated QR transport (`camera_loop.rs` `process_multiframe`, `signing.rs`, `kassee/src/qr.rs`) | fragments received so far, their count | split, show, receive, assemble | what is assembled is one sender's payload; a whole carousel is received in the end |
| Idle wipe, sleep, duress (`main.rs`, `app/data.rs`) | a wrapping 32-bit clock, the sleep flag | tick, touch, wake, wipe | secrets do not outlive the timeout, the clock's wrap included |
| Multisig and cosigning (`handlers/tx.rs`, `core/src/wallet/{transaction,pskt}.rs`) | the keys collected, stored descriptors, partial signatures | collect a key, store, merge, count | each cosigner signs once; a merge loses nobody's signature |
| SD card files (`core/src/fat32.rs`, `hw/sd_backup.rs`, `handlers/sd.rs`) | cluster chains, directory entries | save, delete, list, load, format | no stop between two writes loses another file |
| SD card drivers (`hw/sdcard_ws.rs`, `hw/sdcard_m5.rs`) | the card's address and kind, the pins shared with the display, the supplies | initialise, read, write, power-cycle, let go | what is reported written is on the card in the slot; pins and supplies are given back whatever failed |
| Boot, lockdown, firmware update (`features/{verify,fw_update}.rs`, `hw/{lockdown,efuse}.rs`) | fuses, boot verdict, flow counter | verify, burn, flash | every order of burns the code can take leaves a device that boots |
| Cryptographic primitives, entropy, the coding of steganographic pictures | none, or one-shot | | vectors, fuzzing and round trips in the repository; used here as injective functions or arbitrary choices |
| Drawing, drivers | pixels, registers | | no state the other parts read |
| Covenants of KasSee (`kassee/src/{kspt_covenant,covenant_api,kspt,pskt,pskb}.rs`, `kassee/web/js/app.js`) | the coins at a script address, bundles being built and signed, the node's clock | fund, build, finalize, broadcast | the script lets through what the covenant describes and no more; a spend that is due is accepted; a capped thread stays one thread |
| KasSee's link to a node (`kassee/src/rpc.rs`, `kassee/web/js/app.js`) | one pooled socket, pending calls and their timers, the resolved node | call, dispatch, time out, retry, resolve | an answer goes to the call that asked; every call ends; a call stays on its network |
| KasSee as a wallet (`kassee/src/{kspt,pskb,pskt}.rs`, `kassee/web/js/app.js`) | the watched wallet, balance, funded and used addresses, coin lists, ticks, the document under review | import, refresh, list, tick, make, show, scan, finalize | what is shown is the held wallet's; a document spends what was ticked and pays what was typed; change goes to a fresh address; what is sent is what was made |
| KasSee's covenant desk (`kassee/web/js/app.js`) | the list of covenants and its copies, the open one, a watcher of the node | make, open, export, scan, recover, poll, follow blocks | a copy restores the covenant it was made of; a fact is filed with the covenant it is about; a spend is announced as it was |

### How they interact

The camera hand-off delivers a payload to `process_confirmed_qr`. That fills
`demo_tx`, starts the review, and uses `signed_qr_buf` as scratch space for the JSON
of a bundle, the buffer the response will be written to. Signing reads the account key
and scans the banks of the seed session. The idle wipe clears the session and
`demo_tx` from any screen. Response screens, descriptors, files and backups all go
through `signed_qr_buf`. Everything but the camera hand-off is a call within one turn
of the loop; the hand-off is shared memory between two cores.

KasSee is a browser page over a WebAssembly library: one thread, in which each answer
of the node, timer and click is an event, and everything awaited may come after the
user has moved on. It meets the signer only through QR codes: a document goes out as a
bundle or as a compact transaction, and comes back signed in the format it went.

### What is hard here

`PROJECT.json` lists each hazard at its line. The main families:

* several copies of one fact: the account key is behind six caches, written on twenty
  paths (hazards in `signing.rs`, `seed.rs`, `sd.rs`, `data.rs`);
* long legal sequences: entry screens write straight into the selected wallet's
  words; screens can be left by back, home, timeout and duress, and not all exits
  clean up;
* half-done operations: a file import that installs the key before it finds a slot;
* two cores and one byte of state, a job in flight while the user leaves and returns,
  a generation counter of 256 values;
* a shared buffer with two lengths of life: the bundle under review and the response;
* a page that awaits a node: answers late, to the wrong call, for a wallet, list or
  covenant that is no longer the one shown;
* two readers and two writers of two wire formats, each carrying some of a document's
  fields;
* a card that fails, or is pulled and swapped, between any two commands.

## 2. Plan

The order is that of the harm done when the part is wrong.

1. **SeedSession** implements **WalletShelf** (done, proved).
2. **DecodeHandoff** implements **DecodeService** (done, proved).
3. **SignRequest** implements **Approval** (done, proved).
4. **QrFrames** implements **Courier** (done, proved).
5. **Fat32Save** implements **FileStore** (done, proved, with one exception), over
   **SdCard** (done, proved).
6. **CovenantScripts** against **CovenantPolicy**; **CovenantSpend** implements
   **TaggedThread** (done, model-checked).
7. **Device**, composed of one module per family of handlers (done, proved).
8. **CosignRound** implements **Threshold** (done, proved).
9. **NodeLink** implements **AskNode** (done, proved).
10. **TxCarriage** and **WatchPage** (done, proved), **CovenantDesk** (done,
    model-checked).
11. **IdleGuard**: idle clock, sleep, wake, duress; the wrap of the 32-bit tick and
    the liveness of the wipe.
12. **BootChain** and the fuses.

To prove next: the records of CovenantDesk; the ledger of CovenantSpend.

Composition: Device is `AppData` with `SdHandler` (the card's screens), `MenuHandler`
(menus, settings, seeds), `ExportHandler` (exports and pictures) and `TxHandler`
(transactions, messages, multisig, the camera's results). `MCWatchPage` holds WatchPage
beside CovenantDesk, `MCFat32Save` Fat32Save beside SdCard and `MCCovenants`
CovenantPolicy beside CovenantSpend: each pair shares a run and no variable, and an
instance starts in one of the two and stays there. WatchPage and CosignRound take
documents to the signer and back: WatchPage by the functions of TxCarriage, one signer
and every kind of document; CosignRound for several signers, what a document holds
being its signatures. The other modules of the device meet at one variable each
(`signed_qr_buf` between Device and SignRequest, the seed between SeedSession and
SignRequest, the payload between DecodeHandoff, SignRequest and QrFrames); each takes
what the other does to that variable as actions of its environment (`OtherPayload`,
`SelectSeed` and `Wipe` in SignRequest; `scene` and `part` in DecodeHandoff; `Show` in
QrFrames). CovenantSpend takes its scripts, the witnesses and the interpreter from
CovenantScripts, the module that CovenantPolicy checks.

## 3. SeedSession

**State.** `slots` and `active` are `seed_mgr`; `words`, `wordCount`, `seedLoaded` the
session copy in `AppData`; `drv` everything derived (`acct_key_raw`, `pubkeys_cached`
and the two caches, the two banks, the account the chain cache is of); `view` the
address screen with its two on-demand keys; `screen` the entry screens, the address
screen and one `Menu` for all menus. A key is represented by the account it belongs
to, since every hazard here is a key of another account. A word array is its two
halves: the code reads twelve words or twenty-four.

**Actions.** One per handler: `StartImport`, `TypeWords`, `FinishImport`,
`LeaveImport` (typed words), `Generate` (dice, camera), `StartTouch`, `TouchDone`
(touch entropy), `PassphraseOk`, `PassphraseBack`, `HomeFromEntry`, `Bip85Child`,
`ImportTypedKey`, `ImportKeyFile`, `ImportXprvFile`, `SelectSlot`, `MultisigPickSeed`,
`DeleteSlot`, `WipeSecrets`, `OpenAddress`, `ToggleChain`, `ViewIndex`,
`LeaveAddress`, `PumpExt` (one idle tick) and `SignP2pk` (the part of signing that
derives). Each is the whole handler with the calls it makes, for instance
`load_active_mnemonic` with the store, the resets and the fingerprint.

**Detours.** The code keeps some properties only while the user stays on the straight
paths. The constant `Detours` admits the others by kind, so that each property is
checked where the code promises it and where it breaks is stated, not hidden:
`LeaveEntry` (an entry screen left by the home corner, back or cancel, or a wrong
checksum), `FullDevice` (a seed loaded while all slots are taken), `SdKeyImport` (a key
file imported over a loaded wallet), `TailLeft` (a 12-word seed typed in word by word
while the session holds 24 words, whose last twelve stay and are stored with it).

**Runs.**

| run | instance | shows |
|---|---|---|
| `seed_straight` | two slots, a 12-word and a 24-word mnemonic, an xprv of the 12-word wallet, a raw key, two passphrases, bank depth 2, indices 0..1, `Detours = {}` | everything derived - signer, words, banks, caches, the address shown, fingerprints - is of the selected wallet; no wallet sits in two slots of a kind |
| `seed_any` | one passphrase, no 24-word seed, depth 1, all detours | the selected slot is filled and nothing outlives the last wallet (`NoWalletNothingDerived`); a bank grows only by keys of the account held (`BanksGrowFromAccount`) |

*Why the bounds are enough.* Two slots give a selected wallet, another one, and a full
device. The 24-word seed's second half, or half-typed words, make a leftover tail;
the xprv of the same account tells a slot's kind from its wallet. Depth 2 reaches the
two orders of the bank fronts; an index inside and one beyond each cache separate
cached from on-demand addresses. `SignsForSelected` joins the signer, the words and the
banks, `ShowsSelected` the caches, the address on the screen and the fingerprints. The
theorems below hold for any slots up to 200 and
any depth.

**Proved** (`SeedSession_proof`), with all four detours admitted: `TypeOK`,
`SelectedSlotUsable`, `NoWalletNothingDerived`, `FrontsTogether`,
`BanksGrowFromAccount`, and that the module implements WalletShelf. The inductive
invariant `IInv` adds to the types: every slot is well formed for its kind, the two
fronts, the selected slot, nothing derived without a wallet, and that a passphrase
screen is only up with a word count of a mnemonic. The last is needed because
`PassphraseOk` stores a slot of kind `wordCount`: without it a step from an unreachable
state would fill a slot with nothing. Each `load` and each `delete` is a lemma over a
table with one slot changed.

Proved for `Detours = {}`: `SignsForSelected`, `ShowsSelected` and `NoTwins`. The
invariant `Straight` says that every slot's fingerprint is that of its own account, that
no 12-word seed has a tail, in a slot or waiting for its passphrase (`SlotsTrue`,
`Trimmed`: what makes the two duplicate checks find a twin), that off the entry
screens the session's words are the selected slot's (`SessionWords`), and that the
account key, the caches and both banks are the selected wallet's, as far as its kind
has them (`Held`). The entry screens are the exception because they write into the
same words; every way out of them either stores what was typed or, on these paths,
reloads. `TypeOK`, `SelectedSlotUsable`, `FrontsTogether` and the refinement are only
proved, no run repeats them.

## 4. DecodeHandoff

**State.** `jobState`, `job`, `image`, `results` are the statics of `decode_core.rs`;
`wpc`, `work` core 1; `pc`, `cam`, `acted` the point of core 0's camera cycle; `scan`
the statics of `camera_loop.rs`; `screen`, `tune`, `resetFlag` the navigation; `gen` the
byte. Frames carry the visit and the session they were captured in, which the code
represents by the byte alone.

**Actions.** Core 0: `Capture`, `CutShort`, `Collect` (with `Act` and the window and
escalation rules), `Borrow`, `Fill`, `Stamp`, `Publish`; core 1: `Take`, `Load`,
`Decode`, `Finish`; the user: `Enter`, `Back`, `HomeOrWipe`, `Repaint`, `MoveCode`. Each
atomic access to `JOB_STATE` is a step of its own; the cores interleave at every one of
them. The release and acquire orderings of those accesses are taken as giving the order
of the program text on each side.

**Fairness.** `WF` on core 0's cycle, since the main loop runs a cycle in every turn it
spends on a camera screen, and on core 1, which does nothing but this loop. That a
frame arrives in the end, and not a stall in every cycle, is an assumption on the
sensor. The user is under no fairness.

**Runs.** `decode`: a byte of two values (so it wraps), two visits, two resets,
cooldown and rest of 1, a streak limit of 2, and codes that only one of the four
combinations of resolution and window reads. It checks the refinement of DecodeService
(`ServiceSpec`), that stale results are dropped (`ReplayFree`), and that a readable code
is read in the end (`ReadInTheEnd`). Two configurations among
the findings refute comments with the byte at its true 256 values.

**Proved** (`DecodeHandoff_proof`): `TypeOK`, `Ownership`, `ReplayFree`, `ScanVisit`,
`NoFullPassInStream` and the refinement, for every size of the byte and every limit.
The inductive invariant adds where each core is in its cycle (`WorkerInv`,
`CycleInv`), what a shipment carries from capture to result (`Shipment`), what a stamp
says about the session it was made in (`DebtInv`, `BoundInv`); the refinement adds that
the result cell answers the job it names (`AnswerInv`). *Only model-checked*:
`ReadInTheEnd`, a liveness property.

## 5. SignRequest

**State.** `tx` is `demo_tx`, `plan` the review plan `start_review` sets, `fmt`
`tx_input_format`, `parsed` the bundle `pskt_parsed` describes, `buf` and `size` what
`signed_qr_buf` holds and what `signed_qr_len` is the length of, `seed` the selected
seed's kind, `at` the page or the input index, `shown` the pages drawn (a history
variable). A transaction is a model value with the attributes the code branches on:
its outputs, its inputs, its format, whether it has a covenant, an output the screen
cannot show, or regions the parser does not know.

**Actions.** `ScanKspt`, `ScanPskb`, `ScanBad` (the parse paths of
`process_confirmed_qr`, `start_review` included), `TurnPage`, `LeaveCovenant`,
`Confirm` (refused when a stored descriptor shows the change claim is false), `Cancel`,
`Leave` (back and home), `SignInput` and `RefuseToSign` (`handle_signing_step`),
`SelectSeed`, `Wipe` (idle and duress), `OtherPayload` (every other user of the
buffer). Which key signs is SeedSession's business.

**Fairness.** `WF` on the signing step: the main loop calls `handle_signing_step` in
every turn on the screen `Signing`. The person at the device is under no fairness.

**Run** `sign`: a one-input KSPT, a two-input KSPT with a covenant, one whose estimated
response (`48 + 156 n + 45 m`) exceeds the buffer of 500, a two-input bundle with
unknown regions and three pages, and a bundle with an output that cannot be shown. Two
formats and two of each shape are what stale plans, formats and buffers are told apart
by. It shows that plan, format, parse record and buffered bundle are those of the
transaction under review from the first page to the last input (`RequestIntact`), that
the flow implements Approval (`KeepsPromise`), and that signing ends (`SigningEnds`).

**Proved** (`Device_proof`): the types, `RequestIntact`, that what is exported is the
response just made (`ExportIsTheAnswer`), that a response has the format of
its request and gives the bundle's regions back (`AnswersFit`), and the refinement, for any
transactions within `MAX_INPUTS` and `MAX_OUTPUTS` and any buffer. The inductive
invariant adds `Walk`, which pages have been drawn on each screen: the confirmation
screen implies them all. *Only model-checked*: `SigningEnds`.

## 6. QrFrames

**State.** `shown` is the sender's screen: who shows it (a device or the page), the
payload, the number of frames, the frame, and whether the carousel runs by itself.
`reader` is who has the camera open: a device, a device collecting cosigner keys, or
one of the page's scanners. `rx` is what has been collected (`MF_TOTAL`, `MF_RECEIVED`,
`MF_BUF`; `DecoderState`), `keys` the cosigner keys of the ceremony. `heard` (a history
variable) has the transfers read since the camera was opened, `accepted` the transfer
each part of the last accepted payload came from. A frame is a transfer and a position;
which bytes it holds is the interval `Start`, `FragLen` of the balanced split. The wire
carries no session identifier, so a reader tells two transfers apart only by their
count: the model gives it no more.

**Actions.** `Show`, `Tick` (`cycle_signed_qr`, `cycle_kpub_qr`, the page's interval
timer), `Tap`, `PageControl`; `Open`, `Leave`, `NewCeremony`; `ReadFrame`
(`is_multiframe`, `process_multiframe`, `decode_frame` and the handler the payload goes
to) and `ReadPlain`. A frame is missed when the carousel turns without a read, repeated
when it is read twice, and out of order when the reading starts in the middle; the
sender's screen may change, or another sender come, in the middle of a session.

**Abstractions.** A kpub is 79 bytes in its raw form and is shown by a device, as one
ASCII symbol or two frames. The densities are those the screens offer: 227 and 40
bytes on a device, 248 on the page; the other modes of `redraw.rs` are set by no
handler. What the parsers make of a mixture of transactions is left open (`Parses`
decides only kpubs, whose raw form has no checksum); a device accepting such a mixture
goes on to the review of SignRequest. Payloads a device passes on unchanged, and the
formats COVB, COVI and STLH, belong to Device. No payload is as short as one
Safe frame, 40 bytes.

**Fairness.** `WF` on `Tick`: the main loop calls both cycle functions in every turn
and the page has a timer. `SF` on reading each position is an assumption on optics, not
on code: a carousel that shows a frame again and again is read at it in the end.

**Runs.** `qr_frames`: two kpubs of two frames, a transaction of 300 bytes (two frames
on device or page, so it shares its count with the kpubs), a descriptor of 110 bytes
(plain, or three frames at the Safe density), at most three frames, a ceremony of two
keys. That gives payloads with the same count and with different ones, for every
reader, and all ways a session can be broken off and another begun. It checks that the
module implements Courier (`KeepsPromise`) and that looking at a carousel ends the scan
(`ScanEnds`). One configuration among the findings
refutes a statement of the change log.

**Proved** (`QrFrames_proof`): `TypeOK`; that what is accepted is one transfer unless two
of the same count were heard in that session (`WholeUnlessShared`); that an accepted
transfer is its payload byte for byte (`BytesComplete`); the refinement, for any
payloads, sizes and up to 64 frames; and `DistinctCountsNeverMix`:
if no two payloads that can be shown share a number of frames, no accepted payload is a
mixture, which says exactly what a session identifier would add. The inductive
invariant says that whatever is in the slots was heard in this session and has the
count noted (`Collected`) and that what was accepted is such a patchwork
(`AcceptedHeard`). `BytesComplete` rests on arithmetic: with `n` the frames needed at
density `d`, the balanced size is at most `d`, and the last frame starts before the end
(`SplitCovers`). That is not so for every count (7 bytes in 5 balanced frames leave the
last one empty): it holds because the count is what some density needs, and for the two
frames of a kpub. *Only model-checked*: `ScanEnds`.

## 7. Fat32Save and SdCard

**State.** What the card holds: `fat`, the two copies of the table; `page`, the
clusters read as directory slots; `body`, the clusters read as pieces of files. And one
call's locals: `call`, `pc` (the write it does next), `at`, `batch`, `chain`, `left`.
Every step is one write of one sector or cluster with the reads that lead up to it, and
`Stop` loses the power between any two; what survives is `disk`. `scars` is a ghost: the
kind of stop that leaves a known mark - a directory page linked and not cleared
("page"), such a page that still holds entries of before a format ("old"), half a
format ("format").

**Actions.** The steps of `create_file`, `delete_file`, `format_card` and of the
settings screen's card test, in the order of the code: clusters allocated in the first
copy of the table then in the second, data before the directory entry, a deletion that
marks the entry and not the slots of its long name, the extension of a full directory by
a page that is linked before it is cleared. A chain is a walk along a table (`Walk`),
which stops where it would meet itself.

**Run** `card`: seven data clusters, two table entries per sector and two slots per
directory page (so a file of three clusters crosses a table sector and the second file
extends the directory), files of one and of three clusters, a card that is empty, has a
computer's photo with a long name, or a photo with a looping chain; three calls. It
shows that every listed file owns its chain, no two files share a cluster and no link
leads to a cluster that could be given out (`TableSound`); that a name is in the
directory once and a listing shows nothing but entries (`DirectoryTrue`); that the card
implements FileStore - a call changes its own file and no other, and a stop leaves the
old version or the new one (`KeepsPromise`); and that a call comes to its end even on a
looping chain (`EveryCallEnds`, under `WF` of the call's steps: the functions run to
completion within one turn of the main loop). After an interrupted format only another
format may follow, as the card no longer mounts. Not modelled: the geometry in the boot
sector and the bound `MAX_DIR_SECTORS` on directory walks.

Three calls are not enough for a page of before a format to be found again: that takes
five (section 14). After it, names can be in the directory twice and two entries can own
one cluster, so `TableSound` and `DirectoryTrue` say `Formatted`, which such a stop
ends, and the model allows only a format from there on. `KeepsPromise` names that stop
as its one exception (`OldPageBack`); `AlwaysKept` is the claim without it.

**Proved** (`Card_proof`, for every geometry, set of names and number of calls):
`TableSound`, `DirectoryTrue` and `KeepsPromise`. The first two are not inductive, since both speak of what a reader
meets and the writes go wherever the tables say. `FatInv` therefore describes every
cluster of both copies. No link of the first copy leads to a free cluster, and one that
only the second has leads upwards or to a cluster in use (`LinksOk`): a stop between the
two copies leaves such links behind, and a later chain, which ascends, never closes over
them. The files' clusters and the set `H` of the call under way are disjoint, and nothing
outside them links into them (`FilesOk`, `Fenced`), so whatever frees or fills `H` leaves
the files alone. What `H` is, step by step: one rising chain on its way to being zeroed
(`Freeing`), a run linked from its top sector down (`Linking`), a whole chain waiting for
its data and entry (`Made`). The directory's pages are full but the last, so a name that
a search does not find is not there (`NamesOk`, `EndsOk`). Each write has its lemma; the
power going after any of them only drops `H`. The walk of a chain is a recursive function
over sequences; what is needed of it is proved from the equation it satisfies
(`FollowsExists`, `WalkFacts`, `WalkSame`, `WalkGrows`).

The refinement needs besides what the clusters hold: what is already written of the
chain being made is the call's version, piece by piece in the chain's order
(`PiecesOk`), and what a call is for stays as it began (`Errand`); together `DataInv`,
which is inductive beside `FatInv`. Every write but two leaves all entries, and all
clusters that a listed file owns, as they were (`Spared`, a conclusion of each write's
lemma), so every name reads the same (`AllSame`): the store stutters, or its call ends.
The first write of a deletion is the store's `Drop`, since a name stands in one entry
only (`ReadsOneHere`); the last of a save is its `Commit`, since by `DataInv` the entry
leads to the whole version. A format is `BeginFormat`, then nothing, then `EndFormat`.

**SdCard** is what lies below, in the same run: both boards' drivers, from `init` to the
end of a session. `slot` is the card, its mode and the blocks it is programming;
`memory` what each card holds; `host` the address, kind and size the driver keeps;
`pins` and `power` what the card shares with the display and the supplies that are on;
`task` the session: its step, what is still to move, what moved, and what the caller
was told (`told`, kept to the session's end). A session is `Boot` or `Enter`, then on
the Waveshare board `Asked`, `Reselected`, `Identified`, `Measured`, `Selected`,
`Settled`, on the M5 board `PowerCycled` and `Initialised`; then any number of
capacities, reads and writes (`Issued`, then a step for each block) and `Leave`.
`Failed` ends it at any of them. `Pull`, `Insert` and `Programmed` are the user and the
card, possible between any two. Bounds: a card addressed in bytes and one in blocks,
three sessions, two swaps.

`SessionTrue` has four parts: what a caller was told was read or written is what the
card in the slot holds (`DoneIsOnCard`: the assumption Fat32Save's writes make of their
card); an operation talks to the card whose kind and size the driver holds
(`RightCard`); between sessions the pins are the display's with the card deselected
(`DisplayFree`); and no supply but the card's own is switched (`SuppliesKept`). The six
detours are what the code does not provide for, see section 14.

**Proved** (`Card_proof`, for any cards, capacities and runs of blocks, with
`Detours = {}`): `SessionTrue`. The invariant `CardInv` adds which steps can be reached
on which board with whose pins (`OnBoard`), what the driver knows of a card that has
its address (`Known`), and that all the blocks an operation moved or reported are of
one card, hold what was moved, and are not being programmed any more (`Owed`). The
last is why a write that is reported is one the card has finished.

## 8. The covenants of KasSee

**CovenantScripts** has eighteen redeem scripts of `kspt_covenant.rs` token by token, an
interpreter for the opcodes they use (the node's, external) and the finalizer of
`pskt.rs`, which finds the branch a spender meant from the script's bytes and the
bundle's hints. **CovenantPolicy** says in words of parties, amounts and times who may
spend what; its states are transactions offered to a covenant, and `ScriptIsPolicy`
compares the two for some 50,000 of them: twenty-eight covenants, the covenant's coin
alone or beside a wallet's or another coin of its own (a parcel's alone or second), one
output or two, amounts on both sides of every cap and goal. The parties are those with a
key in the script and `"nobody"`, who stands for all others. The merkle script compares
the first output only with the copy of it that is pushed beside the proven leaf; KasSee
pushes one address for both, and only such witnesses are offered.

**CovenantSpend** is the life of such coins. `coins` is the ledger, `clock` the DAA
score, `drafts` the bundles that were built from what the ledger held then. Each builder
of `covenant_api.rs` that a page reaches is an action with the page's own choice of
inputs; `Broadcast` is the devices, the finalizer and the node; `Deposit`, `Tick`
and `FreeSpend` (any spend at all by the holder of a thread's key, amounts at the
boundaries of the rules) are the world. Bounds: first coin 5, deposits of 1 and 4, withdrawals of 2 and 3, fee 1, three minted
coins, clock up to 2, one draft; three inputs, so that the device's cap is not what
decides (a configuration of section 14 is about it). With one coin below and one above
each cap, one deposit before and one after a draft, and every time lock before, at and
after its time, each guard of each script is met on both sides.

The run `covenants` starts with either. Checked: `ScriptIsPolicy`; whenever the coins
of a draft are still there and its times have come, the finalizer's witness opens every
input (`SpendsAccepted`); the
tagged coins of the two global covenants implement TaggedThread: one capped thread that
rests between draws (`ThreadKept`). `SpendsAccepted` leaves out two kinds of draft that
no node takes: a spend of a vault that takes an untagged deposit along (`Mixed`), and the
owner's refunds that lack their lock time or a flag (`Refund`; section 14 has two of
them). KasSee splits a vault only right after opening it, and so does the model.

Not modelled: deposits that fund and tag a covenant, `borrower_withdraw` and
`allowance_withdraw` (no page calls them), partial owner spends, the state machine's
script (it has no page), adaptor swaps, bridges, rollups and the keyless oracle, and what
bytes a signature is over; a plain allowance has only its script. An owner of an
allowance is taken not to split his own thread.

## 9. Device

**State.** `AppData` declares the fields of the structure of that name that decide where
a screen leads and what it shows, saves or signs, grouped in records. Buffers hold the
kind of what is in them (a transaction's response, a kpub, a wallet's descriptor, a
backup), names are the kinds the code can put there (suggested, typed, picked, stale),
wallets their keys.

**Actions.** One per touch target of each handler, in the module of its screens
(`SdHandler`, `MenuHandler`, `ExportHandler`, `TxHandler`), plus the results of the
camera (in `TxHandler`), the home corner and the idle wipe, possible on
any screen. The deferred save of a covenant backup in `main.rs` is part of the step that
triggers it. A touch beside every button does nothing and is left out; `Rest` is the user
doing nothing.

**Run** `device`: seven groups of screens (`MCThemes`) that share fields, from each of
which all their screens are walked in any order: files of the card; kpubs; exported
keys; a multisig ceremony of up to three cosigners; stored wallets and descriptors;
messages, secrets and pictures; entering wallets. A group is a union of the screens
that write or read the same fields, so a stale value and its reader are in one group;
`Visits` bounds how often a buffer is filled (1 or 3). 2.9 million states. Checked:
what is written to the card is of the kind its screen asked about, under the name given
for it, encrypted when that was asked, and over an existing file only after the question
(`SavedIsAsked`, which names the exception the code makes: a message signature and a
covenant backup are written at once under the name typed for them, whatever file has it); what is shown is whole, with a kpub derived or scanned, and the frame
counter is the one of the payload (`ShownWhole`); a wallet that is stored or shown has all
its different keys (`WalletsBuilt`); the message signed is the one previewed
(`PreviewIsSigned`). Deadlock is checked: no screen is without an exit.

**Proved** (`Device_proof`): the four properties, with `Detours = {}`, for any number of
cosigners, any groups of screens that have the main menu (`ScopeAssumption`) and any
number of visits; so the groups of the run are only a way to keep TLC's work apart. The
invariant `Good` says, besides the types, what each screen of a flow finds in the buffers
and flags it shares with the other flows. On the naming screen of a file, the one after
it, the question about overwriting between them and the passphrase behind them, the
buffer holds the payload of that very flow, and the answers noted are answers to this
file (`Flows`); where frames are drawn, the count is of the payload in the buffer and the
density chosen (`Shown`); a covenant's backup that waits is in the buffer, and only its
naming screen or the menu after it are up (`CovKept`); before a message is signed the
hash is that of the text (`TextKept`). Of a wallet (`WalletKept`): the places below the
one that is asked for have a key, no key has two places, and one in use is full and has
its script. Each group of handlers has a lemma that a touch keeps all of it.

`Detours` admits five transitions of the code that break a property, each by name, so
that the property is checked for the rest of the code and each defect has a
configuration (section 14): "export from the guide", "one seed twice", "a hash after a
file", "home from a backup's name", "a key in binary".

**Abstractions.** Hardware that may answer either way is a choice: the noise of camera
and motion behind the entropy gate (`CameraNoise`, `MotionNoise`), a picture or its
metadata that reads back what was hidden in it or does not, a slot table with room or
without. Which frame of an animation is on screen, page and scroll positions,
the manual or automatic mode, and the icon browser are left out; a slot not selected
holds a wallet of any kind; swipes are touches. The model is of the build for the
Waveshare board; the scan-back of the M5 build is not in it. Whether a file has the name
that is typed is a choice made when it is typed or, where nobody looks, when it is
written (`WriteAtOnce`).

## 10. CosignRound

**State.** `inputs` is what each transaction spends: every input the ring of keys in its
script and the 45' path the page wrote beside it, if any. `review` is `_psktReviewHex`,
the bundle on the page with the signatures it holds; `onPage` the format of the QR it
shows; `onDevice` the answer each signer shows; `approved` who confirmed what on his own
screen (a history variable); `ledger` what the node took. A signature is for one
transaction and is named as its format names it: by compressed key in a standard bundle
(`prefix` is 2 or 3), by position in the script in a compact one.

**Actions.** `Build`, `Back`, `Relay` (the QR of either format), `Scan`
(`handleSignedScan`: a bundle replaces, a KSPT is merged or goes to the node),
`Finalize`; and `Sign`, a whole device: parse, approve, the key search of
`sign_transaction_multisig` with the key it keeps from input to input, the answer.
An answer may stay on a device's screen as long as one likes and be scanned at any time
after, or again; the page may go back and begin another payment in the meantime.

**Run** `cosign`: three signers, two of three needed, one of them with a key of odd y;
inputs at two 45' addresses, with the path, without it and with a wrong one, and at an
old 44' address whose keys are an account key and address keys; transactions of one and
two inputs in every combination, of three for a key kept over a change of address, and
two transactions at once. 0.93 million states. It shows that what the page offers to
finalize is accepted by the node (`ReadyIsAccepted`), that the signatures counted are of
different keys whose owners approved this transaction (`CountedApproved`), that a signer
asked next gives all the signatures it owes and loses none (`NextSignerHelps`), and that
the round implements Threshold: a transaction is paid only after M owners approved it
(`KeepsPromise`). `ReadyIsAccepted` includes that an answer flagged complete is.

`Detours` admits the two ways to leave the straight path: "mixed", a round in both
formats, and "stray", an answer to another transaction of as many inputs; section 14 has
both. `NodeAcceptsHex`, the broadcast of an answer with nothing under review, is a
separate reader of the compact format and has a property of its own among the findings.

**Proved** (`CosignRound_proof`, for `Detours = {}`): the four properties of the run, for
any signers, transactions, addresses and quorum. The assumptions are what makes a
wallet (`QuorumAssumption`, `DevicesAssumption`, `PathsAssumption`, `PlansAssumption`):
a device has one key on a ring, a ring has no more keys than an input has room for
signatures, only 45' addresses carry a path, a transaction has an input. The invariant
`RoundInv` says that the bundle under review names its signatures in the format of the
round, holds for each input only signatures for this transaction by keys of the input's
own ring whose owners approved it, each once, and that what a device shows is such a bundle or such
a compact answer. What the signer's search finds is a function over the inputs, the key
kept from one to the next (`NewKeysAre`), shown by induction in the form the prover
takes: a set of numbers without a least one is empty. A signature finds room because
keys that signed are different and no more than the ring (`RoomLeft`).

## 11. NodeLink

**State.** `network`, `custom`, `resolved` the page's settings and its resolved node;
`pool`, `sockets`, `pending`, `outbox` the statics of `rpc.rs`, a socket being its
generation; `wire` what travels; `call` each call's place in `withNodeRetry` and
`ws_rpc_call`; `served` (a history variable) the calls a node handled.

**Actions.** `Start`, `SaveSettings` (the user); `Begin`, `Send`, `CannotOpen`, `Resume`
(a call up to its next await), `ResolverAnswers`, `ResolverFails`; `Opens`, `Breaks`,
`Closes`, `Deliver` (a socket's events), `Serve` (a node, which may leave the id out of
a reply) and `TimesOut`. The browser runs the continuations of an event before the
next, so while a call is about to go on (`Microtask`) no event is handled.

**Fairness.** `WF` on a call's own continuations, on its 15-second timer, and on the
resolver, whose request is aborted after five seconds. Nothing is assumed of sockets
and nodes. `CallsEnd` therefore rests on the timer.

**Run** `node_link`: two calls, two attempts, two sockets, two networks with one public
node each and one of the user's own. It shows that only the pooled socket is live and
every waiting call rides on a socket that can still end it (`LinkTidy`), that a call
goes to a node of the network it was made on (`OwnNetwork`), that every call ends
(`CallsEnd`), and that no call gets another's answer (`KeepsPromise`, the refinement of
AskNode).

**Proved** (`NodeLink_proof`, for any calls, networks, nodes, sockets and attempts):
`LinkTidy` and the refinement, with the settings saved at any time; `OwnNetwork`
without that. The hard part is a reply without an id: `rpc.rs` gives it to the only call
that waits. The invariant says that no two requests share a number (`Numbered`, `Sole`)
and that whatever can still be heard on a live socket is waited for (`Awaited`), with
one exception: a call that has just timed out, whose reply nobody waits for, drops its
socket before any other event. `CallsEnd` is only model-checked.

## 12. WatchPage and TxCarriage

**State.** `chain` and `born` are the coins there are and ever were. `page` is the
page's own: the wallet held, balance, funded and used addresses, the snapshot of the
last look, the cached coin list, the rows shown, the places ticked and how many addresses
are derived. `calls` are the requests under way, each with the wallet and the addresses
it was made for (a retry may ask for more, `Reach`); `told` what the user was told
since the import (a history variable); `desk` the document under review, what the
signer shows and answers, and what was sent.

**Actions.** Coins come and go (`Arrives`, `Leaves`); `Import`, `Reset`; a refresh and
its three answers, each of which may fail (`StartRefresh`, `BalanceAnswers`,
`UtxosAnswer`, `ScanAnswers`, after which more addresses may be derived and the refresh
begun again); `Derives`, when an address is shown or a document refused; the two coin lists (`OpenSend`, `ShowUtxos` and their
answers), `ShowRows`, `Tick`; documents (`CreateTicked`, `CreateSend`, `Consolidate`,
`ConsolidateTicked`, and `Open` for the kinds made elsewhere on the page); `Show`, `Sign`,
`Scan`, `Finalize`, `Back`. Addresses are derived a batch at a time while none is free and
the ceiling is not reached, and it may fail (`Derivations`); change goes to the first free
one and, when none is, to the last (`NextIndex`). The fee of a payment of ticked coins is
raised to what the transaction weighs, in three passes as in the code (`StorageFee`,
`Again`, `Raised`), and its amount is not checked for dust. **TxCarriage** has the functions between: each writer and
reader of a bundle and of the compact format on both sides, what a signature is over,
and the node's verdict.

**Run** `page`: two accounts; four coins, three of one account at an address each (10,
18 and 18) and one of the other; two addresses given and three at most, so that they run
out; three amounts, one below dust, one that leaves change or dust and one that takes
most of all coins; a fee of 1, a dust limit of 4 and a mass constant of 40, which raise
the fee of a ticked payment to several times the one shown; two moves of coins, two calls
under way; documents of twelve kinds. 3.2 million states. It shows

* that whatever the page shows is the held wallet's (`OwnShown`);
* that a document spends the coins ticked, pays what was typed to whom was typed, and
  keeps no more than fee and dust, or, for ticked coins, no more than a transaction of
  that amount with the least change there can be would weigh (`AsAsked`). The page shows
  less: that it keeps no more than it shows is `NoMoreThanShown`, and false;
* that what is sent is what was made and the node takes it (`SentIsMade`);
* that change goes to no address a refresh has shown as funded while one that is derived
  is free (`FreshChange`). Without that exception it is `AlwaysFreshChange`, and false.
  A covenant deposit's change goes to the index stored with the wallet and is outside it.

With two inputs and two outputs the signer's limits are met from both sides; three coins
of one account are the least with a tick, a place that moves, and a rest. Each detour is
a way the code breaks one of them (section 14).

**Proved** (`WatchPage_proof`), for any coins, addresses, documents and moves:

* `OwnShown`, when a wallet is left only with no call under way. A page without a wallet
  is bare and waits for nothing (`Own`).
* `FreshChange`, when besides no coin leaves between the two answers of a refresh and no
  document is made there, for any ceiling. An address once shown as funded is still
  funded or used, except between the two answers, when it may be known only from the
  snapshot of the last look: the second answer files it as used if its coin has gone
  (`Known`). For that each answer has to be about every address known before, though
  they were fewer when the call was made: `Reached`.
* `AsAsked`, for any mass constant, without "switch in flight", "two lists", "list moved" and "ties". The rows
  shown are the list last answered, of which one is waited for at most and none while
  anything is ticked (`Listed`); amounts being different, the library puts the coins in
  the same order, so a place is the coin the user saw there. What a document pays is
  worked out from its choice of coins, and the rest is arithmetic on totals; each pass
  that raises a fee stays below the ceiling the property gives it (`RaisedAtMost`).
* `SentIsMade`, without "by bundle", for documents the page makes (`PageMakes`: one of
  the twelve kinds, over any coins of the script it is for). The invariant `Conveyed` says
  what is under review, and what the signer answers, is the made transaction, each
  signature in it being over that and by the key its coin wants (`Carries`): none of the
  readers and writers of the two formats drops a field a signature is over.

## 13. CovenantDesk

**State.** `world` is what is true: the kind of the covenants, this wallet's side, the
coins each had, who spent them and how. `drawer` is what the browser keeps: the list, the
open covenant, its copies in storage, in files and in the payloads of deposits, a scan
or a search under way. `watch` is the watcher: its timer, polls, lines to the node,
notices, the branch a block showed. `said` is the last announcement. A covenant's record
is the set of fields it has: each copy is a list of fields kept by hand in the code, and
the question is what is lost on the way round.

**Actions.** `Generate`, `Open`, `Delete`, `Export`, `Deposit`, `Scan`, `Recover`,
`Reload`, `Lost`; the steps of a poll from request to record, the subscription with
refusals, drops and retries, block notices; and the world's deposits and spends.

In the run `page` (theme "covenants"), two covenants of one kind, the kind and the side
any, at most two coins each: a covenant brought back in any way is the same, listed once,
with its side's buttons (`RestoredWhole`); a thread, dispute, attestation or resolution
is recorded of the covenant it happened to (`RecordsTrue`); and a spend is announced as
what it was (`AnnouncedTrue`). Two are enough for a fact to land at the wrong one; two
coins for a spend, a renewal and a second spend. Nothing of it is proved yet.

## 14. Findings

The run `page_bundle` ends with a counterexample: a document with a payload or a lane of
its own, shown to the signer as a bundle, comes back without them and is sent so
(`SentIsMade`), against the comment at `kassee/src/pskt.rs:137` that the device signs over
the payload and the broadcast carries it. The signer's bundle reader keeps those members
as unknown and signs without them.

What follows is reproduced with the configuration named, changed as said; each ends with
a counterexample too. The passing runs leave these steps of the code out by name, in
`Detours`, and hold for the rest.

**The signer.**

| base | changed lines | what it shows |
|---|---|---|
| `SeedSession_straight.cfg` | `Depth = 1`, `Detours = {"TailLeft"}`, only `INVARIANT TailIsZero`, or only `NoTwins` | a 12-word seed typed in over a 24-word one is stored with the tail of that one (`seed.rs:258`, `menu.rs:1181` do not clear it), against the comment the duplicate check rests on (`seed_manager.rs:288`); the same seed then takes two slots |
| `SeedSession_straight.cfg` | `Depth = 1`, `Passphrases = {noPass}`, only `INVARIANT NoForeignAddress` | the on-demand change address is never reset on a switch of wallet, so another wallet's address is shown |
| `SeedSession_straight.cfg` | `Depth = 1`, `Detours = {"SdKeyImport"}`, only `INVARIANT OneSlotSigns` | a key file refused for lack of a slot has already replaced the account key P2PK inputs are signed with |
| `SeedSession_straight.cfg` | `Depth = 1`, `Detours = {"LeaveEntry"}`, only `PROPERTY AbandonedSeedGone` | the home corner leaves an abandoned seed in RAM, where the back button clears it |
| `DecodeHandoff.cfg` | `Codes <- MCFewCodes`, `Gens = 256`, `MaxSessions = 3`, only `INVARIANT NoRefireOnReentry` | the decrypt scan never resets the scan session, so a code scanned before can be acted on as the ciphertext |
| `DecodeHandoff.cfg` | the same with `INVARIANT ScanScreenDecodes` | leaving Camera Settings by the home corner or the idle wipe leaves a flag that stops every later decode on ScanQR |
| `QrFrames.cfg` | only `INVARIANT CosignersWereSent` | the first frame of one kpub and the second of another assemble to a cosigner key that parses, against the change log's "every mixed assembly we can construct fails the parse" |
| `Device.cfg` | `Detours = {"one seed twice"}`, `Themes = {"ceremony"}`, only `INVARIANT WalletsBuilt` | a multisig wallet takes the same seed twice from the list of seeds (`tx.rs:434`; the camera's path refuses a key it has, `camera_loop.rs:1098`): the script is refused and stays empty (`transaction.rs:1128`), and its address is shown (`redraw.rs:782`) |
| `Device.cfg` | `Detours = {"export from the guide"}`, `Themes = {"kpubs"}`, only `INVARIANT KpubDerived` | the guide's export button shows a public key nobody has derived |
| `Device.cfg` | `Detours = {"a hash after a file"}`, `Themes = {"messages"}`, only `INVARIANT PreviewIsSigned` | `sign_msg_from_file` is not reset when a hash is scanned, so the preview is of the hash and the signature of the file (`camera_loop.rs:490`) |
| `Device.cfg` | `Detours = {"home from a backup's name"}`, `Themes = {"card"}`, only `INVARIANT SavedIsAsked` | leaving the name of a covenant backup by the home corner or the idle wipe writes it under the name of a listed file (`main.rs:1593`) |
| `Device.cfg` | `Detours = {"a key in binary"}`, `Themes = {"kpubs"}`, only `INVARIANT KpubDerived` | a kpub received in two frames is kept raw and shown again through the ASCII decoder (`camera_loop.rs:1162`, `redraw.rs:310`) |
| `Device.cfg` | `Themes = {"messages"}` or `{"card"}`, only `INVARIANT NeverOverUnasked` | a message signature and a covenant backup replace a file of the name typed without the question (`sd.rs:876`, `main.rs:1600`), against the change log's "prompts before overwriting existing files" (`CHANGELOG.md:426`) |
| `Fat32Save.cfg` | `MaxCalls = 2`, only `INVARIANT ShownUnderOwnName` | a file saved in a slot whose long-name slots survive is listed under the old long name (`fat32.rs:839`, 963) |
| `Fat32Save.cfg` | `MaxCalls = 5`, `LastCluster = 6`, `Sizes = {1}`, only `PROPERTY AlwaysKept` | a directory page is linked before it is cleared (`fat32.rs:808`): if the power goes in between and the cluster was a page before the last format, its old entries are listed again over clusters that now hold other files |
| `Fat32Save.cfg` | `Detours` one of `{"late failure"}`, `{"no end"}`, `{"slow card"}`, `{"pulled while busy"}`, `{"power unread"}`, `{"deselect lost"}`, only `INVARIANT SessionTrue` | the card's driver: an initialisation that fails after the card has its address leaves the old kind with the new address, and the pins with the card; a transfer that ends with neither an end nor an error is taken as done (`sdcard_ws.rs:843`); the bit-banged multi-write reports a block the card still programs; a card pulled while it programs loses a block that was reported; a power chip that cannot be read has all supplies written as off but the card's; a card that misses its deselection answers to the display's signals |

**Documents and nodes.**

| base | changed lines | what it shows |
|---|---|---|
| `CosignRound.cfg` | `Detours = {"mixed"}`, only `INVARIANT ReadyIsAccepted` | in a round of both formats one signer is counted twice, under 02 and 03, and the page offers to finalize what no node takes (`pskt.rs:4127`, against 3973) |
| `CosignRound.cfg` | `Detours = {"stray"}`, `Plans <- MCAlike`, only `INVARIANT CountedApproved` | an answer to an earlier payment of as many inputs is merged into the one under review, and its place is taken: the right signature is left out afterwards (`pskt.rs:4087`, 4129) |
| `CosignRound.cfg` | only `INVARIANT HexIsAccepted` | a complete KSPT v3 or v5 scanned with nothing under review is not accepted: `broadcast_signed` reads on one byte the length the device writes on two (`rpc.rs:1060`), against "scan signed QR from KasSigner and submit to the network" (`README.md:244`) |
| `NodeLink.cfg` | `Detours = {"switch in flight"}`, only `INVARIANT OwnNetwork` | a resolver's answer that comes after the network was changed is kept under the new network's name (`app.js:1157`), and calls of the new network go to a node of the old one |
| `WatchPage.cfg` | `Themes = {"coins"}`, `Detours = {"switch in flight"}`, only `INVARIANT OwnShown` | answers under way when the wallet is reset are written into the new wallet's page (`app.js:15613`) |
| `WatchPage.cfg` | `Themes = {"coins"}`, `Detours` one of `{"two lists"}`, `{"list moved"}`, `{"ties"}`, only `INVARIANT AsAsked` | a ticked place is another coin when two lists were asked for, when coins moved or addresses were derived since, or among equal amounts, which the coin list leaves in the node's order and the library sorts by outpoint (`app.js:7508`, `kspt.rs:1588`) |
| `WatchPage.cfg` | `Themes = {"coins"}`, `Detours` one of `{"blink"}`, `{"half refresh"}`, only `PROPERTY FreshChange` | change goes to an address that was used, when a coin leaves between the two answers of a refresh, or a document is made there |
| `WatchPage.cfg` | `Themes = {"coins"}`, only `INVARIANT NoMoreThanShown` | the fee of a payment of ticked coins is raised past the one shown, and its amount not checked for dust (`kspt.rs:1666`): of a coin of 5 KAS of which 4.877 are sent the whole rest of 0.123 is kept, where 0.003 are shown and 0.1 is dust |
| `WatchPage.cfg` | `Themes = {"coins"}`, only `PROPERTY AlwaysFreshChange` | when no address is free and no more are derived, at the ceiling of 500 or as derivation fails, change goes to the last address, funded or not (`app.js:6938`, 6975) |
| `WatchPage.cfg` | `Themes = {"coins"}`, `Detours = {"many coins"}`, only `INVARIANT Readable` | an amount that takes more coins than the signer has room for makes a document it cannot read |

**Covenants.**

| base | changed lines | what it shows |
|---|---|---|
| `Covenants.cfg` | `Kinds <- Escrows`, `SpendKinds <- Escrows`, `Funding = 6`, `Deposits = {1, 2}`, `Draws = {2}`, `MaxInputs = 2`, only `INVARIANT RefundsAccepted` | the timeout refund of a timelocked escrow carries one false flag where its script needs two, so the node never takes it |
| `Covenants.cfg` | the same with `Deals` for `Escrows` | the page's refund omits the lock time of an atomic swap (`app.js:12840`, comment at 12835) |
| `Covenants.cfg` | `Kinds <- Escrows`, `SpendKinds <- Escrows`, `Funding = 6`, `Deposits = {2, 4}`, `MaxInputs = 2`, only `INVARIANT WithinDeviceLimit` | "Every spend path that gathers covenant UTXOs caps at this" (`covenant_api.rs:12`): the timeout refund and the escrow's spend do not (460, `app.js:12597`; nor the oracle heartbeat, 3355) |
| `WatchPage.cfg` | `Themes = {"covenants"}`, `Detours = {"switch in flight"}`, only `INVARIANT RecordsTrue` | a poll under way when another covenant is opened writes what it learned into that one |
| `WatchPage.cfg` | `Themes = {"covenants"}`, `Detours` one of `{"reopened"}`, `{"second wallet"}`, `{"another kind"}`, only `INVARIANT RestoredWhole` | the deposit of a reopened dead man's switch writes a payload without the heir's key, which recovers another covenant; a second wallet's deposit into a savings covenant recovers as the owner's; the second button keeps the form of the last kind that bound it (`app.js:11253`) |
| `WatchPage.cfg` | `Themes = {"covenants"}`, `Detours` one of `{"overlap"}`, `{"restart in flight"}`, `{"unseen spend"}`, `{"top-up"}`, `{"second spend"}`, `{"old outpoint"}`, only `INVARIANT AnnouncedTrue` | wrong announcements: two polls at once; a line that leaks when the watcher restarts while it subscribes (`app.js:10062`); a spend nobody saw reported as claimed; a top-up announced as "Piggy bank broken!" (10778); a branch kept from an earlier spend; the coin of a covenant that is no longer open |

Smaller observations made while translating, which no property is about. On the signer:

* a descriptor loaded from the card leaves its keys in the ceremony's fields without a
  wallet being active, so OK on the passphrase screen leads to the list of cosigner
  seeds, and a kpub scanned later replaces the first cosigner;
* `ms_picking_key`, `sd_delete_return` and `sign_msg_scan_hash` survive the home corner,
  the last the idle wipe too;
* back from the choice of QR mode of a transaction loaded from the card leads to the
  descriptor screen (`sd.rs:3415`), and a wrong passphrase for a text file to the list of
  transactions (`sd.rs:2066`);
* on the Waveshare board, a card put in after a boot that found none is never tried
  again;
* `pskt_signature_status` counts no requirement for a covenant's input, where
  `signature_status` of the other format counts one.

On the page (`kassee/web/js/app.js`):

* a call that ran out of time is retried with the same arguments (7172), among them a
  broadcast the node may have taken already;
* the largest amount to send is the balance less the shown fee when no coin is ticked
  (7745), less the fee of the mass when some are;
* the history's key is set once for each load of the page (14922), so a wallet imported
  later writes into the first one's;
* a deposit into a covenant takes the change index stored with the wallet (8015), not
  the next fresh one;
* a scan latch of the covenant list (1938) stays set when the data is not recognised;
* balances fetched for the covenant list are shown by place (1605), beside another
  covenant if the list changed while they were asked for.

## 15. What the proofs assume and what is left to TLC

The proofs use only the named assumptions on the constants, which TLC evaluates in every
run: `SlotsAssumption`, `SizesAssumption`, `SeedsAssumption`, `XAccountAssumption`
(SeedSession); `CodesAssumption`, `GensAssumption`, `LimitsAssumption` (DecodeHandoff);
`TxsAssumption`, `FormatAssumption`, `SizesAssumption` (SignRequest); `KindAssumption`,
`SizeAssumption`, `BoundsAssumption` (QrFrames); `CardsAssumption` (SdCard);
`GeometryAssumption`, `NamesAssumption` (Fat32Save: room for the root and the photo's two
clusters, two slots to a page, the test's name and the photo's not among those saved);
`QuorumAssumption`, `DevicesAssumption`, `PathsAssumption`, `PlansAssumption`,
`NoneAssumption` (CosignRound); `AttemptsAssumption`, `HomeAssumption`, `NoneAssumption` (NodeLink);
`NoneAssumption`, `ReaderAssumption` (TxCarriage); `PageAssumption`, `AmountsAssumption`
(WatchPage); `NCosignersAssumption`, `ScopeAssumption` (Device). `DetoursAssumption` lists a module's detours. A theorem
that holds only without some of them says so in its own ASSUME.

Where each proof stops and how, from the weakest claim to the strongest:

| module | proved with every detour | proved without |
|---|---|---|
| SeedSession | types, `SelectedSlotUsable`, `NoWalletNothingDerived`, `FrontsTogether`, `BanksGrowFromAccount`, the refinement | `SignsForSelected`, `ShowsSelected`, `NoTwins` |
| DecodeHandoff, SignRequest, QrFrames | everything but liveness | (no detours) |
| SdCard | | `SessionTrue` |
| Fat32Save | everything but liveness; the refinement with its one exception | (no detours) |
| CosignRound | | `ReadyIsAccepted`, `CountedApproved`, `NextSignerHelps`, the refinement |
| NodeLink | `LinkTidy`, the refinement | `OwnNetwork` |
| WatchPage | | `OwnShown`, `FreshChange`, `AsAsked`, `SentIsMade` |
| Device | | `SavedIsAsked`, `ShownWhole`, `WalletsBuilt`, `PreviewIsSigned` |

Liveness under fairness and `ENABLED` are beyond the proof system and stay with TLC:
`ReadInTheEnd`, `SigningEnds`, `ScanEnds`, `EveryCallEnds`, `CallsEnd`. So do
`SpendsAccepted` and `ScriptIsPolicy`, whose interpreter is recursive (`Run`, `PathOf`),
and `ThreadKept`, and `RestoredWhole`, `RecordsTrue` and `AnnouncedTrue` of
CovenantDesk.

One assumption is not about the code: `AmountsAssumption` says of natural amounts that
their total over a finite set is one. It is a fact of arithmetic whose proof is an
induction over the set, out of the prover's reach; TLC evaluates it for every set of the
run's coins.

## 16. Not modelled

Wire formats as bytes, hashes, curves and derivation (injective functions here), pixels,
the other drivers, entropy, the coding of pictures: no state another component reads, or
numeric code the repository covers by vectors and fuzzing. The remaining components of
section 1 wait in the plan of section 2. The M5 board and the first frames after boot
decode on core 0 itself and are outside DecodeHandoff. Displayed use counters, scrolling
and wording are left out of SeedSession, and so is importing a seed from a picture,
which ends in the same store call as a typed one. Of KasSee: address books, charts,
settings that no property is about, the zk, rollup, oracle and bridge experiments, and
fees typed above the least one.

## Running

`tlc -config Device.cfg MCDevice`, `tlc -config SeedSession_straight.cfg MCSeedSession`
and so on for each run of `PROJECT.json`; `tlapm SeedSession_proof.tla` and so on for
each proof module. A configuration of section 14 is its base with the lines changed.
