------------------------------ MODULE QrFrames ------------------------------
(***************************************************************************)
(* The animated QR transport between devices and the KasSee page: the      *)
(* split of a payload into frames, the carousel on the sender's screen,    *)
(* and the readers that put frames together again.                         *)
(*                                                                         *)
(* A payload is a model value with a kind and a size. A frame is the       *)
(* transfer it belongs to, [of, n], and its position: its bytes are the    *)
(* interval of the payload that Start and FragLen give. Frames are missed  *)
(* and read again by the order of reads and steps of the carousel.         *)
(***************************************************************************)
EXTENDS Integers, FiniteSets

LOCAL INSTANCE Functions

CONSTANTS
  Payloads,    \* what can be shown
  Kind,        \* "kpub", "tx" or "desc" of each
  Size,        \* bytes of each, of a kpub in its raw form
  MaxFrames,   \* MF_MAX_FRAMES
  NumKeys      \* ms_creating.n: cosigner keys a ceremony collects

Kinds == {"kpub", "tx", "desc"}
KpubRawSize == 79      \* the V1_RAW header and XPUB_PAYLOAD_LEN

ASSUME KindAssumption == Kind \in [Payloads -> Kinds]
(* No payload is as short as one frame of the Safe density.                *)
ASSUME SizeAssumption ==
    /\ Size \in [Payloads -> Nat]
    /\ \A p \in Payloads : Size[p] > 40
    /\ \A p \in Payloads : Kind[p] = "kpub" => Size[p] = KpubRawSize
ASSUME BoundsAssumption == MaxFrames \in 2 .. 64 /\ NumKeys \in Nat \ {0}

VARIABLES
  shown,     \* the sender's screen
  reader,    \* who has the camera open
  rx,        \* frames collected: MF_TOTAL, MF_RECEIVED, MF_BUF; DecoderState
  keys,      \* the cosigner keys of the ceremony under way
  heard,     \* history: the transfers read since the camera was opened
  accepted   \* the transfer each part of the last accepted payload came from

vars == <<shown, reader, rx, keys, heard, accepted>>

-----------------------------------------------------------------------------
(* The sender. *)

FramesNeeded(size, max) == (size + max - 1) \div max

Balanced(size, n) == (size + n - 1) \div n

Start(size, n, i) == i * Balanced(size, n)

FragLen(size, n, i) ==
    LET left == size - Start(size, n, i)
    IN  IF left < Balanced(size, n) THEN left ELSE Balanced(size, n)

(* Bytes per frame, and the largest payload shown as one plain symbol: the *)
(* phone and Fast density, the Safe density, the KasSee page.              *)
Densities == [device |-> {40, 227}, page |-> {248}]
PlainLimit == [device |-> 230, page |-> 251]
Senders == {"device", "page"}

(* The numbers of frames a payload can be shown in; 1 is a plain symbol    *)
(* without a frame header. A kpub is one ASCII symbol or two raw frames,   *)
(* and is never shown by the page.                                         *)
CountsFor(p, by) ==
    IF Kind[p] = "kpub"
    THEN IF by = "device" THEN {1, 2} ELSE {}
    ELSE (IF Size[p] <= PlainLimit[by] THEN {1} ELSE {})
         \cup {n \in {FramesNeeded(Size[p], d) : d \in Densities[by]} : 2 <= n /\ n <= MaxFrames}

Transfers == {[of |-> p, n |-> n] : p \in Payloads, n \in 1 .. MaxFrames}

Slots == 0 .. MaxFrames - 1
Dark == [by |-> "nobody"]
Symbols == [by : Senders, of : Payloads, n : 1 .. MaxFrames, at : Slots, auto : BOOLEAN]
TransferOf(s) == [of |-> s.of, n |-> s.n]

(* The mode of a carousel is asked for on a device; the page starts it.    *)
Show(p, by, n, auto) ==
    /\ shown = Dark
    /\ n \in CountsFor(p, by)
    /\ n = 1 => ~auto
    /\ n > 1 /\ by = "page" => auto
    /\ shown' = [by |-> by, of |-> p, n |-> n, at |-> 0, auto |-> auto]
    /\ UNCHANGED <<reader, rx, keys, heard, accepted>>

(* Mutant: the carousel turns round before its last frame. *)
MutAfterShort(i, n) == (i + 1) % (n - 1)

After(i, n) == (i + 1) % n

TurnTo(i) == shown' = [shown EXCEPT !.at = i]

Tick == /\ shown # Dark
        /\ shown.auto
        /\ TurnTo(After(shown.at, shown.n))
        /\ UNCHANGED <<reader, rx, keys, heard, accepted>>

(* A tap on a device: the next frame in manual mode, the popup otherwise   *)
(* and after the last frame.                                               *)
Tap == /\ shown # Dark
       /\ shown.by = "device"
       /\ IF ~shown.auto /\ shown.at + 1 < shown.n THEN TurnTo(shown.at + 1)
                                                   ELSE shown' = Dark
       /\ UNCHANGED <<reader, rx, keys, heard, accepted>>

(* The page: previous and next, pause and play, and leaving the screen.    *)
PageControl == /\ shown # Dark
               /\ shown.by = "page"
               /\ \/ shown.n > 1 /\ TurnTo(After(shown.at, shown.n))
                  \/ shown.n > 1 /\ TurnTo((shown.at - 1 + shown.n) % shown.n)
                  \/ shown.n > 1 /\ shown' = [shown EXCEPT !.auto = ~shown.auto]
                  \/ shown' = Dark
               /\ UNCHANGED <<reader, rx, keys, heard, accepted>>

-----------------------------------------------------------------------------
(* The readers: a device, one that is collecting cosigner keys, and the    *)
(* page's scanners for a kpub, a signed transaction and a descriptor.      *)

Devices == {"signer", "ceremony"}
PageScanners == {"kpubPage", "txPage", "descPage"}
Readers == Devices \cup PageScanners

NoFrames == [total |-> 0, got |-> <<>>]

(* Mutant: the frames of the last session are kept. *)
MutClear == rx' = rx

Clear == rx' = NoFrames

(* Entering the scanner clears what an earlier session collected. A        *)
(* ceremony with all its keys is over.                                     *)
Open(r) ==
    /\ reader = "none"
    /\ r = "ceremony" => Cardinality(keys) < NumKeys
    /\ reader' = r
    /\ Clear
    /\ heard' = {}
    /\ accepted' = <<>>
    /\ UNCHANGED <<shown, keys>>

Leave == /\ reader # "none"
         /\ reader' = "none"
         /\ UNCHANGED <<shown, rx, keys, heard, accepted>>

NewCeremony == /\ reader = "none"
               /\ keys # {}
               /\ keys' = {}
               /\ UNCHANGED <<shown, reader, rx, heard, accepted>>

(* What was put together: the transfer each part came from.                *)
FirstKind(parts) == Kind[parts[0].of]
Parts(parts) == DOMAIN parts
PartLength(parts, i) == FragLen(Size[parts[i].of], parts[i].n, i)
LengthOf(parts) == SumFunction([i \in Parts(parts) |-> PartLength(parts, i)])
Whole(parts) == \E q \in Transfers : parts = [i \in 0 .. q.n - 1 |-> q]

IsKpub(parts) ==
    /\ FirstKind(parts) = "kpub"
    /\ Parts(parts) = {0} \/ LengthOf(parts) = KpubRawSize

(* The chain code of a raw kpub begins in its first frame, the public key  *)
(* is in its last.                                                         *)
KeyOf(parts) == <<parts[0].of, parts[Cardinality(Parts(parts)) - 1].of>>

(* A kpub carries no checksum in its raw form: parts of several kpubs, each*)
(* at its own place, parse. What a parser makes of other patchworks is     *)
(* left open.                                                              *)
Parses(parts) == Whole(parts) \/ \A i \in Parts(parts) : Kind[parts[i].of] = "kpub"

Accept(parts) == reader' = "none" /\ accepted' = parts
Refuse == reader' = "none" /\ UNCHANGED accepted
Ignore == UNCHANGED <<reader, accepted>>

(* process_confirmed_qr. A descriptor has no branch of its own. A key the  *)
(* ceremony already has is refused with the camera left open, and so is    *)
(* one that does not parse.                                                *)
HandToDevice(parts) ==
    \/ /\ FirstKind(parts) = "tx"
       /\ \/ Accept(parts)
          \/ ~Parses(parts) /\ Refuse
       /\ UNCHANGED keys
    \/ /\ FirstKind(parts) = "desc" \/ (FirstKind(parts) = "kpub" /\ ~IsKpub(parts))
       /\ Refuse
       /\ UNCHANGED keys
    \/ /\ IsKpub(parts)
       /\ reader = "signer"
       /\ Accept(parts)
       /\ UNCHANGED keys
    \/ /\ IsKpub(parts)
       /\ reader = "ceremony"
       /\ IF KeyOf(parts) \in keys
          THEN Ignore /\ UNCHANGED keys
          ELSE \/ Accept(parts) /\ keys' = keys \cup {KeyOf(parts)}
               \/ ~Parses(parts) /\ Ignore /\ UNCHANGED keys

(* The scanners of the page stop when the decoder returns a payload.       *)
HandToPage(parts) ==
    /\ UNCHANGED keys
    /\ \/ reader = "kpubPage" /\ IsKpub(parts) /\ Accept(parts)
       \/ reader = "kpubPage" /\ ~(IsKpub(parts) /\ Parses(parts)) /\ Refuse
       \/ reader = "txPage" /\ Accept(parts)
       \/ reader = "descPage" /\ FirstKind(parts) = "desc" /\ Accept(parts)
       \/ reader = "descPage" /\ FirstKind(parts) # "desc" /\ Refuse

HandOver(parts) == IF reader \in Devices THEN HandToDevice(parts) ELSE HandToPage(parts)

(* is_multiframe, and the test of handleKpubScan: a frame is known by its  *)
(* shape, the first one also by the marker its payload begins with. The    *)
(* other scanners give every symbol to the decoder.                        *)
MaxKpubFrames == 20
Marked == [signer |-> {"kpub", "tx"}, ceremony |-> {"kpub", "tx"}, kpubPage |-> {"kpub"},
           txPage |-> Kinds, descPage |-> Kinds]
Framed ==
    /\ shown.n >= 2
    /\ reader = "kpubPage" => shown.n <= MaxKpubFrames
    /\ shown.at > 0 \/ Kind[shown.of] \in Marked[reader]

(* A frame of another count than the one under way starts afresh.          *)
Kept == IF rx.total = shown.n THEN rx.got ELSE <<>>

(* A device keeps the first copy of a frame, the page the last.            *)
Gathered ==
    IF reader \in Devices /\ shown.at \in DOMAIN Kept
    THEN Kept
    ELSE [i \in DOMAIN Kept \cup {shown.at} |->
             IF i = shown.at THEN TransferOf(shown) ELSE Kept[i]]

(* Reading what is on the screen. The page cannot read its own.            *)
Visible == /\ reader # "none"
           /\ shown # Dark
           /\ reader \in PageScanners => shown.by = "device"

(* MF_TOTAL = 0 and reset come before the payload is handed over.          *)
ReadFrame ==
    /\ Visible
    /\ Framed
    /\ heard' = heard \cup {TransferOf(shown)}
    /\ IF 0 .. shown.n - 1 \subseteq DOMAIN Gathered
       THEN /\ rx' = NoFrames
            /\ HandOver([i \in 0 .. shown.n - 1 |-> Gathered[i]])
       ELSE /\ rx' = [total |-> shown.n, got |-> Gathered]
            /\ Ignore
            /\ UNCHANGED keys
    /\ UNCHANGED shown

(* A plain symbol, or a first frame without a marker. The decoder of the   *)
(* page has no use for a plain symbol, and only the descriptor scanner     *)
(* looks at it a second time.                                              *)
ReadPlain ==
    /\ Visible
    /\ ~Framed
    /\ heard' = heard \cup {TransferOf(shown)}
    /\ IF \/ shown.n > 1
          \/ reader = "kpubPage" /\ Kind[shown.of] # "kpub"
       THEN Refuse /\ UNCHANGED keys
       ELSE IF \/ reader = "txPage"
               \/ reader = "descPage" /\ Kind[shown.of] # "desc"
            THEN Ignore /\ UNCHANGED keys
            ELSE HandOver([i \in {0} |-> TransferOf(shown)])
    /\ UNCHANGED <<shown, rx>>

-----------------------------------------------------------------------------
Init == /\ shown = Dark
        /\ reader = "none"
        /\ rx = NoFrames
        /\ keys = {}
        /\ heard = {}
        /\ accepted = <<>>

Next == \/ \E p \in Payloads, by \in Senders, n \in 1 .. MaxFrames, auto \in BOOLEAN :
              Show(p, by, n, auto)
        \/ Tick \/ Tap \/ PageControl
        \/ \E r \in Readers : Open(r)
        \/ Leave \/ NewCeremony
        \/ ReadFrame \/ ReadPlain

(* A carousel in auto mode keeps turning, and a camera in front of it does *)
(* not miss the same frame for ever.                                       *)
ReadAt(i) == shown # Dark /\ shown.at = i /\ (ReadFrame \/ ReadPlain)
Fairness == WF_vars(Tick) /\ \A i \in Slots : SF_vars(ReadAt(i))

Spec == Init /\ [][Next]_vars /\ Fairness

-----------------------------------------------------------------------------
(* Properties. *)

TypeOK ==
    /\ shown \in Symbols \cup {Dark}
    /\ shown # Dark => shown.at < shown.n
    /\ reader \in Readers \cup {"none"}
    /\ rx.total \in 0 .. MaxFrames
    /\ DOMAIN rx.got \subseteq Slots
    /\ \A i \in DOMAIN rx.got : rx.got[i] \in Transfers
    /\ keys \subseteq Payloads \X Payloads
    /\ heard \subseteq Transfers
    /\ DOMAIN accepted \subseteq Slots
    /\ \A i \in DOMAIN accepted : accepted[i] \in Transfers

(* An accepted payload is one sender's payload from its first part to its  *)
(* last, unless the reader heard two transfers with the same number of     *)
(* frames in that one session: process_multiframe and decode_frame drop    *)
(* what they have when the count changes, and forget it between sessions.  *)
WholeUnlessShared ==
    accepted # <<>> =>
      \/ Whole(accepted)
      \/ \E q, r \in heard : q # r /\ q.n = r.n

(* The parts of an accepted payload that is one transfer are its bytes, in *)
(* order, none missing, none twice and none empty: the balanced split of   *)
(* redraw.rs and qr.rs against the assembly of the readers.                *)
BytesComplete ==
    (Whole(accepted) /\ DOMAIN accepted # {0}) =>
      LET n == accepted[0].n
          size == Size[accepted[0].of]
          End(i) == Start(size, n, i) + FragLen(size, n, i)
      IN  /\ Start(size, n, 0) = 0
          /\ \A i \in 0 .. n - 1 :
                /\ FragLen(size, n, i) \in 1 .. 253
                /\ End(i) = IF i = n - 1 THEN size ELSE Start(size, n, i + 1)

(* The transport keeps the promise of Courier: what is accepted was heard  *)
(* in this session, each part at its place in a transfer of that length,   *)
(* and a session accepts once.                                             *)
C == INSTANCE Courier WITH open <- reader # "none"
KeepsPromise == C!Spec

(* Looking at a carousel in auto mode comes to an end: the camera closes   *)
(* with the payload accepted or refused, unless the sender or the reader   *)
(* turns away: another payload is shown only from a dark screen. A cosigner*)
(* key the ceremony already has is the exception, it is refused over and   *)
(* over.                                                                   *)
Looking ==
    /\ Visible
    /\ shown.n > 1
    /\ shown.auto
    /\ reader = "ceremony" => <<shown.of, shown.of>> \notin keys
ScanEnds == Looking ~> ~Looking

(* CHANGELOG.md says that every mixed assembly that could be constructed   *)
(* fails the parse: a cosigner key that passed parse_kpub_parts_any is one *)
(* somebody sent.                                                          *)
CosignersWereSent == \A k \in keys : k[1] = k[2]
=============================================================================
