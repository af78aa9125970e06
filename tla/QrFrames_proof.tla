--------------------------- MODULE QrFrames_proof ---------------------------
(***************************************************************************)
(* Proofs about QrFrames, for any payloads and any limit on the frames.    *)
(*                                                                         *)
(* Collected says that the frames a reader holds were heard in its session *)
(* and are all of the count it has noted; Accepted that an assembly made   *)
(* of them is a patchwork of what was heard. That a whole transfer is the  *)
(* bytes of its payload is arithmetic about the balanced split.            *)
(***************************************************************************)
EXTENDS QrFrames, FiniteSetTheorems, TLAPS

-----------------------------------------------------------------------------
(* The balanced split. *)

(* What the rounded-up division gives.                                     *)
LEMMA CeilDiv ==
  ASSUME NEW s \in Nat, NEW n \in Nat \ {0}
  PROVE  /\ Balanced(s, n) \in Nat
         /\ s <= n * Balanced(s, n)
         /\ n * Balanced(s, n) < s + n
<1> DEFINE b == (s + n - 1) \div n
           r == (s + n - 1) % n
<1>1. s + n - 1 \in Nat /\ n > 0
  OBVIOUS
<1>2. b \in Nat /\ r \in Nat /\ r < n /\ s + n - 1 = n * b + r
  BY <1>1, SMTT(30)
<1> HIDE DEF b, r
<1>3. n * b \in Nat
  BY <1>2
<1>4. s <= n * b /\ n * b < s + n
  BY <1>2, <1>3
<1>5. QED BY <1>2, <1>4 DEF Balanced, b

(* A product is no smaller than the product of smaller factors.            *)
LEMMA ProductMono ==
  ASSUME NEW a \in Nat, NEW b \in Nat, NEW c \in Nat, a <= b
  PROVE  c * a <= c * b
BY SMTT(30)

(* With n frames of at most d bytes for a payload longer than n - 1 such   *)
(* frames, every frame is full except perhaps the last, none is empty and  *)
(* none is longer than d.                                                  *)
LEMMA SplitCovers ==
  ASSUME NEW s \in Nat, NEW n \in Nat, NEW d \in Nat, n >= 2,
         (n - 1) * d < s, s <= n * d
  PROVE  /\ Start(s, n, 0) = 0
         /\ \A i \in 0 .. n - 1 :
              /\ FragLen(s, n, i) \in 1 .. d
              /\ Start(s, n, i) + FragLen(s, n, i)
                   = IF i = n - 1 THEN s ELSE Start(s, n, i + 1)
<1> DEFINE b == Balanced(s, n)
<1>1. b \in Nat /\ s <= n * b /\ n * b < s + n
  BY CeilDiv
<1> HIDE DEF b
<1>2. b <= d
  <2>1. SUFFICES ASSUME b >= d + 1 PROVE FALSE
    BY <1>1
  <2>2. n * (d + 1) <= n * b
    BY <1>1, <2>1, ProductMono
  <2>3. n * (d + 1) = n * d + n /\ n * d \in Nat
    BY SMTT(30)
  <2>4. QED BY <1>1, <2>2, <2>3
<1>3. (n - 1) * b < s
  <2>1. (n - 1) * b <= (n - 1) * d
    BY <1>1, <1>2, ProductMono, n - 1 \in Nat
  <2>2. (n - 1) * b \in Int /\ (n - 1) * d \in Int
    BY <1>1
  <2>3. QED BY <2>1, <2>2
<1>4. b >= 1
  <2>1. SUFFICES ASSUME b = 0 PROVE FALSE
    BY <1>1
  <2>2. n * b = 0
    BY <2>1
  <2>3. (n - 1) * d \in Nat
    BY SMTT(30)
  <2>4. QED BY <1>1, <2>2, <2>3
<1>5. ASSUME NEW i \in 0 .. n - 1
      PROVE  /\ FragLen(s, n, i) \in 1 .. d
             /\ Start(s, n, i) + FragLen(s, n, i)
                  = IF i = n - 1 THEN s ELSE Start(s, n, i + 1)
  <2> DEFINE st == i * b
             left == s - st
  <2>1. st \in Nat /\ (i + 1) * b = st + b /\ Start(s, n, i) = st /\ Start(s, n, i + 1) = st + b
    BY <1>1 DEF Start, b
  <2>2. FragLen(s, n, i) = IF left < b THEN left ELSE b
    BY <2>1 DEF FragLen, b
  <2>3. CASE i = n - 1
    <3>1. st = (n - 1) * b /\ n * b = st + b
      BY <1>1, <2>1, <2>3
    <3>2. left \in 1 .. b
      BY <1>1, <1>3, <2>1, <3>1
    <3>3. FragLen(s, n, i) = left
      BY <1>1, <2>2, <3>2
    <3> HIDE DEF st
    <3>4. st + left = s
      BY <2>1
    <3>5. QED BY <1>1, <1>2, <2>1, <2>3, <3>2, <3>3, <3>4
  <2>4. CASE i # n - 1
    <3>1. i + 1 <= n - 1 /\ i + 1 \in Nat /\ n - 1 \in Nat
      BY <2>4
    <3>2. b * (i + 1) <= b * (n - 1)
      BY <1>1, <3>1, ProductMono
    <3>3. st + b <= (n - 1) * b
      BY <1>1, <2>1, <3>1, <3>2
    <3>4. (n - 1) * b \in Int
      BY <1>1
    <3> HIDE DEF st
    <3>5. left > b
      BY <1>1, <1>3, <2>1, <3>3, <3>4
    <3>6. FragLen(s, n, i) = b
      BY <1>1, <2>1, <2>2, <3>5
    <3>7. QED BY <1>1, <1>2, <1>4, <2>1, <2>4, <3>6
  <2>5. QED BY <2>3, <2>4
<1>6. Start(s, n, 0) = 0
  BY <1>1 DEF Start, b
<1>7. QED BY <1>5, <1>6

-----------------------------------------------------------------------------
(* The inductive invariant. *)

Sent == {q \in Transfers : \E by \in Senders : q.n \in CountsFor(q.of, by)}

ShownSent == shown # Dark => TransferOf(shown) \in Sent

Collected ==
    /\ heard \subseteq Sent
    /\ \A i \in DOMAIN rx.got :
         /\ rx.got[i].n = rx.total
         /\ reader # "none" => rx.got[i] \in heard

AcceptedHeard ==
    /\ reader # "none" => accepted = <<>>
    /\ accepted # <<>> => accepted \in C!Patchworks(heard)

IInv == TypeOK /\ ShownSent /\ Collected /\ AcceptedHeard

LEMMA InitInv == Init => IInv
<1> SUFFICES ASSUME Init PROVE IInv
  OBVIOUS
<1>1. DOMAIN NoFrames.got = {} /\ NoFrames.total = 0
  BY DEF NoFrames
<1>2. DOMAIN accepted = {}
  BY DEF Init
<1>3. TypeOK
  BY <1>1, <1>2, BoundsAssumption DEF Init, TypeOK, Transfers, Slots
<1>4. ShownSent /\ Collected /\ AcceptedHeard
  BY <1>1 DEF Init, ShownSent, Collected, AcceptedHeard
<1>5. QED BY <1>3, <1>4 DEF IInv

(* A symbol shows a transfer.                                              *)
LEMMA TransferTypes ==
  ASSUME NEW s \in Symbols
  PROVE  /\ TransferOf(s) \in Transfers
         /\ TransferOf(s).n = s.n /\ TransferOf(s).of = s.of
         /\ s.n \in 1 .. MaxFrames /\ s.n \in Nat /\ s.at \in Slots
BY BoundsAssumption DEF Symbols, TransferOf, Transfers

LEMMA TransferFields ==
  ASSUME NEW q \in Transfers
  PROVE  q.of \in Payloads /\ q.n \in 1 .. MaxFrames /\ q.n \in Nat \ {0}
BY BoundsAssumption DEF Transfers

(* What a reader holds after one more frame.                               *)
LEMMA GatheredFrames ==
  ASSUME IInv, Visible
  PROVE  /\ shown \in Symbols
         /\ DOMAIN Gathered \subseteq Slots
         /\ \A i \in DOMAIN Gathered :
              /\ Gathered[i] \in heard \cup {TransferOf(shown)}
              /\ Gathered[i] \in Transfers
              /\ Gathered[i].n = shown.n
<1>1. shown \in Symbols /\ reader # "none"
  BY DEF IInv, TypeOK, Visible
<1>2. /\ TransferOf(shown) \in Transfers /\ TransferOf(shown).n = shown.n
      /\ shown.at \in Slots
  BY <1>1, TransferTypes
<1>3. /\ DOMAIN Kept \subseteq Slots
      /\ \A i \in DOMAIN Kept : Kept[i] \in heard /\ Kept[i] \in Transfers /\ Kept[i].n = shown.n
  <2>1. CASE rx.total = shown.n
    BY <1>1, <2>1 DEF IInv, TypeOK, Collected, Kept
  <2>2. CASE rx.total # shown.n
    <3>1. Kept = <<>> /\ DOMAIN Kept = {}
      BY <2>2 DEF Kept
    <3>2. QED BY <3>1
  <2>3. QED BY <2>1, <2>2
<1>4. CASE reader \in Devices /\ shown.at \in DOMAIN Kept
  BY <1>1, <1>3, <1>4 DEF Gathered
<1>5. CASE ~(reader \in Devices /\ shown.at \in DOMAIN Kept)
  BY <1>1, <1>2, <1>3, <1>5 DEF Gathered
<1>6. QED BY <1>1, <1>4, <1>5

(* A completed collection is a patchwork of what was heard.                *)
LEMMA AssemblyIsPatchwork ==
  ASSUME IInv, Visible, heard' = heard \cup {TransferOf(shown)},
         0 .. shown.n - 1 \subseteq DOMAIN Gathered
  PROVE  [i \in 0 .. shown.n - 1 |-> Gathered[i]] \in C!Patchworks(heard')
<1>1. shown \in Symbols
  BY GatheredFrames
<1>2. TransferOf(shown) \in heard' /\ TransferOf(shown).n = shown.n
  BY <1>1, TransferTypes
<1>3. \A i \in 0 .. shown.n - 1 : Gathered[i] \in {q \in heard' : q.n = shown.n}
  BY GatheredFrames
<1>4. [i \in 0 .. shown.n - 1 |-> Gathered[i]] \in [0 .. shown.n - 1 -> {q \in heard' : q.n = shown.n}]
  BY <1>3
<1>5. QED BY <1>2, <1>4 DEF C!Patchworks

LEMMA PlainIsPatchwork ==
  ASSUME NEW s \in Symbols, s.n = 1, NEW S, TransferOf(s) \in S
  PROVE  [i \in {0} |-> TransferOf(s)] \in C!Patchworks(S)
<1>1. TransferOf(s).n = 1
  BY TransferTypes
<1>2. [i \in {0} |-> TransferOf(s)] \in [0 .. 1 - 1 -> {q \in S : q.n = 1}]
  <2>1. 0 .. 1 - 1 = {0}
    OBVIOUS
  <2>2. TransferOf(s) \in {q \in S : q.n = 1}
    BY <1>1
  <2>3. QED BY <2>1, <2>2
<1>3. QED BY <1>1, <1>2 DEF C!Patchworks

LEMMA PatchworkTypes ==
  ASSUME NEW S \in SUBSET Transfers, NEW parts \in C!Patchworks(S)
  PROVE  /\ \E m \in 1 .. MaxFrames : parts \in [0 .. m - 1 -> {q \in S : q.n = m}]
         /\ DOMAIN parts \subseteq Slots
         /\ \A i \in DOMAIN parts : parts[i] \in Transfers
<1>1. PICK m \in {q.n : q \in S} : parts \in [0 .. m - 1 -> {q \in S : q.n = m}]
  BY DEF C!Patchworks
<1>2. m \in 1 .. MaxFrames
  BY TransferFields
<1>3. 0 .. m - 1 \subseteq Slots
  BY <1>2, BoundsAssumption DEF Slots
<1>4. QED BY <1>1, <1>2, <1>3

LEMMA KeyTypes ==
  ASSUME NEW m \in 1 .. MaxFrames, NEW parts \in [0 .. m - 1 -> Transfers]
  PROVE  KeyOf(parts) \in Payloads \X Payloads
<1>1. m \in Nat /\ m >= 1 /\ 0 \in 0 .. m - 1 /\ m - 1 \in 0 .. m - 1
  BY BoundsAssumption
<1>2. Cardinality(0 .. m - 1) = m
  BY <1>1, FS_Interval
<1>3. Parts(parts) = 0 .. m - 1
  BY DEF Parts
<1>4. parts[0].of \in Payloads /\ parts[m - 1].of \in Payloads
  BY <1>1, TransferFields
<1>5. KeyOf(parts) = <<parts[0].of, parts[m - 1].of>>
  BY <1>2, <1>3 DEF KeyOf
<1>6. QED BY <1>4, <1>5

(* What handing a payload over can do to the session.                      *)
LEMMA HandOverEffect ==
  ASSUME TypeOK, NEW m \in 1 .. MaxFrames, NEW parts \in [0 .. m - 1 -> Transfers],
         HandOver(parts)
  PROVE  /\ \/ accepted' = accepted /\ reader' \in {reader, "none"}
            \/ accepted' = parts /\ reader' = "none"
         /\ keys' \subseteq Payloads \X Payloads
<1>1. KeyOf(parts) \in Payloads \X Payloads
  BY KeyTypes
<1>2. CASE reader \in Devices
  BY <1>1, <1>2 DEF HandOver, HandToDevice, TypeOK, Accept, Refuse, Ignore
<1>3. CASE reader \notin Devices
  BY <1>3 DEF HandOver, HandToPage, TypeOK, Accept, Refuse, Ignore
<1>4. QED BY <1>2, <1>3

(* What reading a symbol can do.                                           *)
LEMMA ReadEffect ==
  ASSUME IInv, ReadFrame \/ ReadPlain
  PROVE  /\ reader # "none" /\ shown' = shown
         /\ heard' = heard \cup {TransferOf(shown)}
         /\ TransferOf(shown) \in Sent /\ TransferOf(shown) \in Transfers
         /\ \/ accepted' = accepted /\ reader' \in {reader, "none"}
            \/ accepted' \in C!Patchworks(heard') /\ reader' = "none"
         /\ keys' \subseteq Payloads \X Payloads
         /\ rx'.total \in 0 .. MaxFrames
         /\ DOMAIN rx'.got \subseteq Slots
         /\ \A i \in DOMAIN rx'.got :
              rx'.got[i] \in Transfers /\ rx'.got[i] \in heard' /\ rx'.got[i].n = rx'.total
<1> DEFINE t == TransferOf(shown)
<1>1. Visible /\ shown' = shown /\ heard' = heard \cup {t}
  BY DEF ReadFrame, ReadPlain
<1>2. shown \in Symbols /\ shown # Dark /\ reader # "none"
  BY <1>1, GatheredFrames DEF Visible
<1>3. t \in Sent /\ t \in Transfers /\ t.n = shown.n /\ t \in heard' /\ shown.n \in 1 .. MaxFrames
  BY <1>1, <1>2, TransferTypes DEF IInv, ShownSent
<1>4. heard' \subseteq Transfers
  BY <1>1, <1>3 DEF IInv, TypeOK
<1>5. TypeOK
  BY DEF IInv
<1> DEFINE parts == [i \in 0 .. shown.n - 1 |-> Gathered[i]]
           plain == [i \in {0} |-> t]
<1>6. ASSUME ReadFrame, 0 .. shown.n - 1 \subseteq DOMAIN Gathered
      PROVE  /\ \/ accepted' = accepted /\ reader' \in {reader, "none"}
                \/ accepted' \in C!Patchworks(heard') /\ reader' = "none"
             /\ keys' \subseteq Payloads \X Payloads
             /\ rx' = NoFrames
  <2>1. HandOver(parts) /\ rx' = NoFrames
    BY <1>6 DEF ReadFrame
  <2>2. parts \in C!Patchworks(heard')
    BY <1>1, <1>6, AssemblyIsPatchwork
  <2>3. parts \in [0 .. shown.n - 1 -> Transfers]
    BY <1>1, <1>6, GatheredFrames
  <2> HIDE DEF parts
  <2>4. QED BY <1>3, <1>5, <2>1, <2>2, <2>3, HandOverEffect
<1>7. ASSUME ReadFrame, ~(0 .. shown.n - 1 \subseteq DOMAIN Gathered)
      PROVE  /\ accepted' = accepted /\ reader' = reader
             /\ keys' \subseteq Payloads \X Payloads
             /\ rx' = [total |-> shown.n, got |-> Gathered]
  BY <1>5, <1>7 DEF ReadFrame, Ignore, TypeOK
<1>8. ASSUME ReadPlain
      PROVE  /\ \/ accepted' = accepted /\ reader' \in {reader, "none"}
                \/ accepted' \in C!Patchworks(heard') /\ reader' = "none"
             /\ keys' \subseteq Payloads \X Payloads
             /\ rx' = rx
  <2>1. rx' = rx
    BY <1>8 DEF ReadPlain
  <2>2. CASE (Refuse \/ Ignore) /\ UNCHANGED keys
    BY <1>5, <2>1, <2>2 DEF Refuse, Ignore, TypeOK
  <2>3. CASE shown.n = 1 /\ HandOver(plain)
    <3>1. plain \in C!Patchworks(heard')
      BY <1>2, <1>3, <2>3, PlainIsPatchwork
    <3>2. plain \in [0 .. 1 - 1 -> Transfers]
      BY <1>3, 0 .. 1 - 1 = {0}
    <3>3. 1 \in 1 .. MaxFrames
      BY BoundsAssumption
    <3> HIDE DEF plain
    <3>4. QED BY <1>5, <2>1, <2>3, <3>1, <3>2, <3>3, HandOverEffect
  <2>4. \/ (Refuse \/ Ignore) /\ UNCHANGED keys
        \/ shown.n = 1 /\ HandOver(plain)
    <3>1. shown.n \in Nat /\ shown.n >= 1
      BY <1>3, BoundsAssumption
    <3>2. ReadPlain
      BY <1>8
    <3>3. QED BY <3>1, <3>2 DEF ReadPlain
  <2>5. QED BY <2>2, <2>3, <2>4
<1>9. /\ rx'.total \in 0 .. MaxFrames
      /\ DOMAIN rx'.got \subseteq Slots
      /\ \A i \in DOMAIN rx'.got :
           rx'.got[i] \in Transfers /\ rx'.got[i] \in heard' /\ rx'.got[i].n = rx'.total
  <2>1. CASE rx' = NoFrames
    <3>1. DOMAIN NoFrames.got = {} /\ NoFrames.total = 0
      BY DEF NoFrames
    <3>2. QED BY <2>1, <3>1, BoundsAssumption
  <2>2. CASE rx' = [total |-> shown.n, got |-> Gathered]
    <3>1. rx'.total = shown.n /\ rx'.got = Gathered
      BY <2>2
    <3>2. QED BY <1>1, <1>3, <3>1, GatheredFrames, BoundsAssumption
  <2>3. CASE rx' = rx
    BY <1>1, <1>2, <2>3 DEF IInv, TypeOK, Collected
  <2>4. QED BY <1>6, <1>7, <1>8, <2>1, <2>2, <2>3
<1>10. QED BY <1>1, <1>2, <1>3, <1>6, <1>7, <1>8, <1>9

-----------------------------------------------------------------------------
(* The steps of the sender touch nothing but the screen.                   *)

(* Every step of the carousel stays on a frame of the transfer shown.      *)
LEMMA TurnTypes ==
  ASSUME shown \in Symbols, shown.at < shown.n, NEW i \in Nat, i < shown.n, TurnTo(i)
  PROVE  /\ shown' \in Symbols /\ shown'.at < shown'.n /\ shown' # Dark
         /\ TransferOf(shown') = TransferOf(shown)
<1>1. i \in Slots
  BY TransferTypes, BoundsAssumption DEF Slots
<1>2. /\ shown' = [shown EXCEPT !.at = i]
      /\ shown' \in Symbols
      /\ shown'.at = i /\ shown'.n = shown.n /\ shown'.of = shown.of /\ shown'.by = shown.by
  BY <1>1 DEF TurnTo, Symbols
<1>3. shown'.by # "nobody"
  BY <1>2 DEF Symbols, Senders
<1>4. QED BY <1>2, <1>3 DEF TransferOf, Dark

LEMMA SenderScreen ==
  ASSUME IInv,
         \/ \E p \in Payloads, by \in Senders, n \in 1 .. MaxFrames, auto \in BOOLEAN :
               Show(p, by, n, auto)
         \/ Tick \/ Tap \/ PageControl
  PROVE  /\ UNCHANGED <<reader, rx, keys, heard, accepted>>
         /\ shown' \in Symbols \cup {Dark}
         /\ shown' # Dark => shown'.at < shown'.n /\ TransferOf(shown') \in Sent
<1>1. ASSUME NEW p \in Payloads, NEW by \in Senders, NEW n \in 1 .. MaxFrames,
             NEW auto \in BOOLEAN, Show(p, by, n, auto)
      PROVE  /\ UNCHANGED <<reader, rx, keys, heard, accepted>>
             /\ shown' \in Symbols /\ shown'.at < shown'.n /\ TransferOf(shown') \in Sent
  <2>1. shown' = [by |-> by, of |-> p, n |-> n, at |-> 0, auto |-> auto]
    BY <1>1 DEF Show
  <2>2. 0 \in Slots /\ n \in Nat /\ 0 < n
    BY BoundsAssumption DEF Slots
  <2>3. shown' \in Symbols /\ shown'.at < shown'.n
    BY <2>1, <2>2 DEF Symbols
  <2>4. TransferOf(shown') = [of |-> p, n |-> n]
    BY <2>1 DEF TransferOf
  <2>5. n \in CountsFor(p, by)
    BY <1>1 DEF Show
  <2>6. TransferOf(shown') \in Sent
    BY <2>4, <2>5 DEF Sent, Transfers
  <2>7. QED BY <1>1, <2>3, <2>6 DEF Show
<1>2. ASSUME shown # Dark
      PROVE  /\ shown \in Symbols /\ shown.at \in Nat /\ shown.n \in Nat \ {0} /\ shown.at < shown.n
             /\ TransferOf(shown) \in Sent
             /\ After(shown.at, shown.n) \in Nat /\ After(shown.at, shown.n) < shown.n
             /\ (shown.at - 1 + shown.n) % shown.n \in Nat
             /\ (shown.at - 1 + shown.n) % shown.n < shown.n
  <2>1. /\ shown \in Symbols /\ shown.at \in Nat /\ shown.n \in Nat \ {0} /\ shown.at < shown.n
        /\ TransferOf(shown) \in Sent
    BY <1>2, TransferTypes, BoundsAssumption DEF IInv, TypeOK, ShownSent, Slots
  <2>2. \A a \in Nat, n \in Nat \ {0} : a % n \in Nat /\ a % n < n
    BY SMTT(30)
  <2>3. shown.at + 1 \in Nat /\ shown.at - 1 + shown.n \in Nat
    BY <2>1
  <2>4. QED BY <2>1, <2>2, <2>3 DEF After
<1>3. CASE Tick
  BY <1>2, <1>3, TurnTypes DEF Tick
<1>4. CASE Tap
  <2>1. UNCHANGED <<reader, rx, keys, heard, accepted>> /\ shown # Dark
    BY <1>4 DEF Tap
  <2>2. shown' = Dark \/ (shown.at + 1 < shown.n /\ TurnTo(shown.at + 1))
    BY <1>4 DEF Tap
  <2>3. QED BY <1>2, <2>1, <2>2, TurnTypes
<1>5. CASE PageControl
  <2>1. UNCHANGED <<reader, rx, keys, heard, accepted>> /\ shown # Dark
    BY <1>5 DEF PageControl
  <2>2. \/ TurnTo(After(shown.at, shown.n))
        \/ TurnTo((shown.at - 1 + shown.n) % shown.n)
        \/ shown' = [shown EXCEPT !.auto = ~shown.auto]
        \/ shown' = Dark
    BY <1>5 DEF PageControl
  <2>3. CASE shown' = [shown EXCEPT !.auto = ~shown.auto]
    <3>1. shown' \in Symbols /\ shown'.at = shown.at /\ shown'.n = shown.n /\ shown'.of = shown.of
      BY <1>2, <2>1, <2>3 DEF Symbols
    <3>2. TransferOf(shown') = TransferOf(shown)
      BY <3>1 DEF TransferOf
    <3>3. QED BY <1>2, <2>1, <3>1, <3>2
  <2>4. QED BY <1>2, <2>1, <2>2, <2>3, TurnTypes
<1>6. QED BY <1>1, <1>3, <1>4, <1>5

-----------------------------------------------------------------------------
(* Every step preserves the invariant. *)

LEMMA NextInv == IInv /\ [Next]_vars => IInv'
<1> SUFFICES ASSUME IInv, [Next]_vars PROVE IInv'
  OBVIOUS
<1>1. CASE \/ \E p \in Payloads, by \in Senders, n \in 1 .. MaxFrames, auto \in BOOLEAN :
                 Show(p, by, n, auto)
           \/ Tick \/ Tap \/ PageControl
  <2>1. /\ UNCHANGED <<reader, rx, keys, heard, accepted>>
        /\ shown' \in Symbols \cup {Dark}
        /\ shown' # Dark => shown'.at < shown'.n /\ TransferOf(shown') \in Sent
    BY <1>1, SenderScreen
  <2>2. TypeOK'
    BY <2>1 DEF IInv, TypeOK
  <2>3. ShownSent' /\ Collected' /\ AcceptedHeard'
    BY <2>1 DEF IInv, ShownSent, Collected, AcceptedHeard
  <2>4. QED BY <2>2, <2>3 DEF IInv
<1>2. ASSUME NEW r \in Readers, Open(r) PROVE IInv'
  <2>1. /\ reader' = r /\ rx' = NoFrames /\ heard' = {} /\ accepted' = <<>>
        /\ shown' = shown /\ keys' = keys
    BY <1>2 DEF Open, Clear
  <2>2. DOMAIN NoFrames.got = {} /\ NoFrames.total = 0
    BY DEF NoFrames
  <2>3. DOMAIN accepted' = {}
    BY <2>1
  <2>4. TypeOK'
    BY <2>1, <2>2, <2>3, BoundsAssumption DEF IInv, TypeOK
  <2>5. ShownSent' /\ Collected' /\ AcceptedHeard'
    BY <2>1, <2>2 DEF IInv, ShownSent, Collected, AcceptedHeard
  <2>6. QED BY <2>4, <2>5 DEF IInv
<1>3. CASE Leave
  BY <1>3 DEF Leave, IInv, TypeOK, ShownSent, Collected, AcceptedHeard
<1>4. CASE NewCeremony
  BY <1>4 DEF NewCeremony, IInv, TypeOK, ShownSent, Collected, AcceptedHeard
<1>5. CASE ReadFrame \/ ReadPlain
  <2>1. ReadFrame \/ ReadPlain
    BY <1>5
  <2> DEFINE t == TransferOf(shown)
  <2>2. /\ reader # "none" /\ shown' = shown
        /\ heard' = heard \cup {t} /\ t \in Sent /\ t \in Transfers
        /\ \/ accepted' = accepted /\ reader' \in {reader, "none"}
           \/ accepted' \in C!Patchworks(heard') /\ reader' = "none"
        /\ keys' \subseteq Payloads \X Payloads
    BY <2>1, ReadEffect
  <2>3. /\ rx'.total \in 0 .. MaxFrames /\ DOMAIN rx'.got \subseteq Slots
        /\ \A i \in DOMAIN rx'.got :
             rx'.got[i] \in Transfers /\ rx'.got[i] \in heard' /\ rx'.got[i].n = rx'.total
    BY <2>1, ReadEffect
  <2> HIDE DEF t
  <2>4. heard' \in SUBSET Transfers
    BY <2>2 DEF IInv, TypeOK
  <2>5. reader' \in Readers \cup {"none"}
    BY <2>2 DEF IInv, TypeOK
  <2>6. DOMAIN accepted' \subseteq Slots /\ \A i \in DOMAIN accepted' : accepted'[i] \in Transfers
    BY <2>2, <2>4, PatchworkTypes DEF IInv, TypeOK
  <2>7. TypeOK'
    BY <2>2, <2>3, <2>4, <2>5, <2>6 DEF IInv, TypeOK
  <2>8. ShownSent' /\ Collected'
    BY <2>2, <2>3 DEF IInv, ShownSent, Collected
  <2>9. AcceptedHeard'
    BY <2>2 DEF IInv, AcceptedHeard
  <2>10. QED BY <2>7, <2>8, <2>9 DEF IInv
<1>6. CASE UNCHANGED vars
  BY <1>6 DEF vars, IInv, TypeOK, ShownSent, Collected, AcceptedHeard
<1>7. QED BY <1>1, <1>2, <1>3, <1>4, <1>5, <1>6 DEF Next

(* The inductive invariant holds in every reachable state.                 *)
THEOREM Invariance == Spec => []IInv
BY InitInv, NextInv, PTL DEF Spec

(* Every variable of the transport keeps its type: no frame number leaves  *)
(* the slot table, whatever is shown.                                      *)
THEOREM TypeCorrect == Spec => []TypeOK
<1>1. IInv => TypeOK
  BY DEF IInv
<1>2. QED BY <1>1, Invariance, PTL

(* What was accepted is made of transfers heard, all of one length.        *)
LEMMA AcceptedParts ==
  ASSUME IInv, accepted # <<>>
  PROVE  \E m \in 1 .. MaxFrames : accepted \in [0 .. m - 1 -> {q \in heard : q.n = m}]
<1>1. heard \in SUBSET Transfers /\ accepted \in C!Patchworks(heard)
  BY DEF IInv, TypeOK, AcceptedHeard
<1>2. QED BY <1>1, PatchworkTypes

(* Parts of one length that are all of one transfer are that transfer.     *)
LEMMA OneTransferIsWhole ==
  ASSUME IInv, accepted # <<>>,
         \A q, r \in heard : q.n = r.n => q = r
  PROVE  Whole(accepted)
<1>1. PICK m \in 1 .. MaxFrames : accepted \in [0 .. m - 1 -> {q \in heard : q.n = m}]
  BY AcceptedParts
<1>2. 0 \in 0 .. m - 1
  BY <1>1, BoundsAssumption
<1>3. accepted[0] \in heard /\ accepted[0].n = m /\ accepted[0] \in Transfers
  BY <1>1, <1>2 DEF IInv, TypeOK
<1>4. \A i \in 0 .. m - 1 : accepted[i] = accepted[0]
  BY <1>1, <1>3
<1>5. accepted = [i \in 0 .. m - 1 |-> accepted[0]]
  BY <1>1, <1>4
<1>6. QED BY <1>3, <1>5 DEF Whole

(* An accepted payload is one sender's from its first part to its last,    *)
(* unless two transfers of the same length were read in that session.      *)
THEOREM MixesOnlyAlike == Spec => []WholeUnlessShared
<1>1. IInv => WholeUnlessShared
  BY OneTransferIsWhole DEF WholeUnlessShared
<1>2. QED BY <1>1, Invariance, PTL

(* Where no two payloads are ever shown in the same number of frames, the  *)
(* frame count does the work of a session identifier: nothing mixed is     *)
(* ever accepted.                                                          *)
THEOREM DistinctCountsNeverMix ==
  ASSUME \A q, r \in Sent : q.n = r.n => q = r
  PROVE  Spec => [](accepted # <<>> => Whole(accepted))
<1>1. IInv => (accepted # <<>> => Whole(accepted))
  <2>1. ASSUME IInv, accepted # <<>> PROVE Whole(accepted)
    <3>1. \A q, r \in heard : q.n = r.n => q = r
      BY <2>1 DEF IInv, Collected
    <3>2. QED BY <2>1, <3>1, OneTransferIsWhole
  <2>2. QED BY <2>1
<1>2. QED BY <1>1, Invariance, PTL

-----------------------------------------------------------------------------
(* A whole transfer is the bytes of its payload. *)

(* The number of frames of a density, and the payload, are those the split *)
(* lemma asks for.                                                         *)
LEMMA NeededFits ==
  ASSUME NEW s \in Nat, NEW d \in {40, 227, 248}
  PROVE  /\ FramesNeeded(s, d) \in Nat
         /\ s <= FramesNeeded(s, d) * d
         /\ FramesNeeded(s, d) >= 1 => (FramesNeeded(s, d) - 1) * d < s
<1>1. CASE d = 40
  BY <1>1, SMTT(30) DEF FramesNeeded
<1>2. CASE d = 227
  BY <1>2, SMTT(30) DEF FramesNeeded
<1>3. CASE d = 248
  BY <1>3, SMTT(30) DEF FramesNeeded
<1>4. QED BY <1>1, <1>2, <1>3

LEMMA SentSplits ==
  ASSUME NEW q \in Sent, q.n >= 2
  PROVE  \E d \in {40, 227, 248} :
           (q.n - 1) * d < Size[q.of] /\ Size[q.of] <= q.n * d
<1>1. q.of \in Payloads /\ q.n \in Nat /\ Size[q.of] \in Nat
  BY TransferFields, SizeAssumption DEF Sent
<1>2. PICK by \in Senders : q.n \in CountsFor(q.of, by)
  BY DEF Sent
<1>3. CASE Kind[q.of] = "kpub"
  <2>1. q.n = 2
    BY <1>1, <1>2, <1>3 DEF CountsFor
  <2>2. Size[q.of] = 79
    BY <1>1, <1>3, SizeAssumption DEF KpubRawSize
  <2>3. QED BY <2>1, <2>2
<1>4. CASE Kind[q.of] # "kpub"
  <2>1. q.n \in {FramesNeeded(Size[q.of], d) : d \in Densities[by]}
    BY <1>1, <1>2, <1>4 DEF CountsFor
  <2>2. Densities[by] \subseteq {40, 227, 248}
    BY DEF Densities, Senders
  <2>3. PICK d \in {40, 227, 248} : q.n = FramesNeeded(Size[q.of], d)
    BY <2>1, <2>2
  <2>4. QED BY <1>1, <2>3, NeededFits
<1>5. QED BY <1>3, <1>4

(* What a reader accepts as one transfer is its payload, byte for byte: no *)
(* frame is empty, none overlaps the next, none is left out, for every     *)
(* payload size and every density.                                         *)
THEOREM AcceptedBytesComplete == Spec => []BytesComplete
<1>1. IInv => BytesComplete
  <2>1. SUFFICES ASSUME IInv, Whole(accepted), DOMAIN accepted # {0}
                 PROVE  BytesComplete
    BY DEF BytesComplete
  <2>2. PICK q \in Transfers : accepted = [i \in 0 .. q.n - 1 |-> q]
    BY <2>1 DEF Whole
  <2>3. q.n \in Nat \ {0} /\ q.of \in Payloads
    BY TransferFields
  <2>4. q.n >= 2
    <3>1. SUFFICES ASSUME q.n = 1 PROVE FALSE
      BY <2>3
    <3>2. DOMAIN accepted = 0 .. 0 /\ 0 .. 0 = {0}
      BY <2>2, <3>1
    <3>3. QED BY <2>1, <3>2
  <2>5. accepted[0] = q /\ 0 \in DOMAIN accepted /\ accepted # <<>>
    <3>1. 0 \in 0 .. q.n - 1
      BY <2>3
    <3>2. accepted[0] = q /\ 0 \in DOMAIN accepted
      BY <2>2, <3>1
    <3>3. DOMAIN <<>> = {}
      OBVIOUS
    <3>4. QED BY <3>2, <3>3
  <2>6. q \in heard
    <3>1. PICK m \in 1 .. MaxFrames : accepted \in [0 .. m - 1 -> {r \in heard : r.n = m}]
      BY <2>1, <2>5, AcceptedParts
    <3>2. QED BY <2>5, <3>1
  <2>7. PICK d \in {40, 227, 248} : (q.n - 1) * d < Size[q.of] /\ Size[q.of] <= q.n * d
    BY <2>1, <2>4, <2>6, SentSplits DEF IInv, Collected
  <2>8. Size[q.of] \in Nat /\ d \in Nat
    BY <2>3, SizeAssumption
  <2> DEFINE n == q.n
             size == Size[q.of]
  <2>9. /\ Start(size, n, 0) = 0
        /\ \A i \in 0 .. n - 1 :
             /\ FragLen(size, n, i) \in 1 .. d
             /\ Start(size, n, i) + FragLen(size, n, i)
                  = IF i = n - 1 THEN size ELSE Start(size, n, i + 1)
    <3>1. n \in Nat /\ size \in Nat /\ d \in Nat /\ n >= 2 /\ (n - 1) * d < size /\ size <= n * d
      BY <2>3, <2>4, <2>7, <2>8
    <3> HIDE DEF n, size
    <3>2. QED BY <3>1, SplitCovers
  <2>10. 1 .. d \subseteq 1 .. 253
    OBVIOUS
  <2>11. QED BY <2>5, <2>9, <2>10 DEF BytesComplete
<1>2. QED BY <1>1, Invariance, PTL

-----------------------------------------------------------------------------
(* The transport implements Courier. *)

(* Every reader accepts only patchworks of what it heard since it began to *)
(* listen: the initial state is Courier's, and every step is one of        *)
(* Courier's or leaves its variables alone.                                *)
THEOREM KeepsCouriersPromise == Spec => KeepsPromise
<1>1. Init => C!Init
  BY DEF Init, C!Init
<1>2. IInv /\ [Next]_vars => [C!Next]_(C!cvars)
  <2>1. SUFFICES ASSUME IInv, [Next]_vars PROVE [C!Next]_(C!cvars)
    OBVIOUS
  <2>2. CASE \/ \E p \in Payloads, by \in Senders, n \in 1 .. MaxFrames, auto \in BOOLEAN :
                   Show(p, by, n, auto)
             \/ Tick \/ Tap \/ PageControl
    <3>1. UNCHANGED <<reader, heard, accepted>>
      BY <2>1, <2>2, SenderScreen
    <3>2. QED BY <3>1 DEF C!cvars
  <2>3. ASSUME NEW r \in Readers, Open(r) PROVE C!Listen
    <3>1. r # "none"
      BY DEF Readers, Devices, PageScanners
    <3>2. QED BY <2>3, <3>1 DEF Open, C!Listen
  <2>4. CASE Leave
    BY <2>4 DEF Leave, C!Stop, C!Next
  <2>5. CASE NewCeremony
    BY <2>5 DEF NewCeremony, C!cvars
  <2>6. CASE ReadFrame \/ ReadPlain
    <3>1. /\ reader # "none"
          /\ \E q \in Transfers : heard' = heard \cup {q}
          /\ \/ accepted' = accepted /\ reader' \in {reader, "none"}
             \/ accepted' \in C!Patchworks(heard') /\ reader' = "none"
      BY <2>1, <2>6, ReadEffect
    <3>2. CASE accepted' = accepted
      BY <3>1, <3>2 DEF C!Hear, C!Next
    <3>3. CASE accepted' \in C!Patchworks(heard') /\ reader' = "none"
      BY <3>1, <3>3 DEF C!Accept, C!Next
    <3>4. QED BY <3>1, <3>2, <3>3
  <2>7. CASE UNCHANGED vars
    BY <2>7 DEF vars, C!cvars
  <2>8. QED BY <2>1, <2>2, <2>3, <2>4, <2>5, <2>6, <2>7 DEF Next, C!Next
<1>3. QED BY <1>1, <1>2, Invariance, PTL DEF Spec, KeepsPromise, C!Spec
=============================================================================
