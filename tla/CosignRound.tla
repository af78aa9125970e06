------------------------------ MODULE CosignRound ------------------------------
(***************************************************************************)
(* A multisig signing round: the KasSee page holds a bundle under review,  *)
(* shows it to one signer after another as a standard bundle (PSKB) or as  *)
(* a compact one (KSPT), scans back what each signer shows, counts the     *)
(* signatures and broadcasts.                                              *)
(*                                                                         *)
(* A key is <<device, place>>: its place is "account", "address" (both on  *)
(* the 44' subtree) or the path of a 45' address.  A signature is for one  *)
(* transaction; the two wire formats name its key differently, by the      *)
(* compressed key (PSKB) and by its position in the redeem script (KSPT).  *)
(***************************************************************************)
EXTENDS Integers, FiniteSets, Sequences, Functions, TLC

CONSTANTS Devices,     \* the signers; one seed is selected on each
          Names,       \* names for the transactions the page may build
          Plans,       \* the transactions, each a sequence of inputs [ring, hint]
          Paths,       \* the 45' addresses within the search depth
          Odd,         \* the devices whose keys have an odd y
          M,           \* signatures an input needs
          MaxSigs,     \* MAX_SIGS_PER_INPUT
          Detours,     \* ways to leave the straight path, see below
          None         \* nothing held, shown or hinted

\* "mixed": one round uses both formats; "stray": the answer to another
\* transaction is scanned while this one is under review.
ASSUME DetoursAssumption == Detours \subseteq {"mixed", "stray"}
ASSUME QuorumAssumption == MaxSigs \in Nat /\ M \in 1..MaxSigs
ASSUME DevicesAssumption == IsFiniteSet(Devices)
ASSUME PathsAssumption == {None, "account", "address", "search"} \cap Paths = {}

\* A ring has one key of each of its devices and at most MAX_MULTISIG_KEYS of
\* them, which equals MAX_SIGS_PER_INPUT; a hint names a 45' address, and so do
\* the keys of an input that has one.
Keys == Devices \X (Paths \cup {"account", "address"})
Inputs == {in \in [ring : Seq(Keys), hint : Paths \cup {None}] :
             /\ Len(in.ring) <= MaxSigs
             /\ \A p, q \in DOMAIN in.ring : in.ring[p][1] = in.ring[q][1] => p = q
             /\ in.hint # None => Range(in.ring) \subseteq Devices \X Paths}
ASSUME PlansAssumption == \A plan \in Plans :
  DOMAIN plan \subseteq Names /\ plan \in [DOMAIN plan -> Seq(Inputs) \ {<<>>}]
ASSUME NoneAssumption == None \notin Keys \cup {"search", "pskb", "kspt"}

VARIABLES inputs,    \* the inputs of each transaction
          review,    \* _psktReviewHex: the bundle under review on the page
          wire,      \* the format this round is relayed in
          onPage,    \* the format of the QR the page shows, None if it shows none
          onDevice,  \* the QR each device shows
          approved,  \* <<device, transaction>>: approved on the device's own screen
          ledger     \* transactions the node has accepted

vars == <<inputs, review, wire, onPage, onDevice, approved, ledger>>

Indices(t) == 1..Len(inputs[t])
Position(in, key) == CHOOSE p \in 1..Len(in.ring) : in.ring[p] = key
First(s, n) == SubSeq(s, 1, IF n < Len(s) THEN n ELSE Len(s))

\* A set as the sequence `rank` puts it in: the j-th member has j - 1 before it.
InOrder(S, rank) ==
  [j \in 1..Cardinality(S) |->
    CHOOSE e \in S : Cardinality({f \in S : rank[f] < rank[e]}) = j - 1]
ByPosition(in, S) == InOrder(S, [k \in S |-> Position(in, k)])

-----------------------------------------------------------------------------
(***************************************************************************)
(* The signer's key search (sign_transaction_multisig).  One derived key   *)
(* is kept from input to input, filed under the hint it came from or under *)
(* the key set a hintless search was made for.                             *)
(***************************************************************************)
NoCache == [under |-> None, for |-> <<>>, key |-> None]

\* The first attempt on an input: the account key, or the kept key, or the
\* table of 44' address keys when no 45' key has been tried.
FirstMatch(d, cache, in) ==
  IF <<d, "account">> \in Range(in.ring) THEN {<<d, "account">>}
  ELSE IF in.hint = None /\ cache.key = None
       THEN {<<d, "address">>} \cap Range(in.ring)
       ELSE {cache.key} \cap Range(in.ring)

Hinted(d, cache, in) ==
  IF in.hint # None /\ cache.under # in.hint
  THEN [cache EXCEPT !.under = in.hint, !.key = <<d, in.hint>>]
  ELSE cache

(* Mutant: a search stands for every set of keys. *)
MutSearched(d, cache, in) ==
  LET own == {<<d, p>> : p \in Paths} \cap Range(in.ring)
  IN IF in.hint = None /\ cache.under # "search"
     THEN [under |-> "search", for |-> in.ring,
           key |-> IF own = {} THEN None ELSE CHOOSE k \in own : TRUE]
     ELSE cache

\* The search over families, chains and indices a hintless input gets when the
\* first attempt signed nothing.
Searched(d, cache, in) ==
  LET own == {<<d, p>> : p \in Paths} \cap Range(in.ring)
  IN IF in.hint = None /\ ~(cache.under = "search" /\ cache.for = in.ring)
     THEN [under |-> "search", for |-> in.ring,
           key |-> IF own = {} THEN None ELSE CHOOSE k \in own : TRUE]
     ELSE cache

\* One input: the keys signed with that are not in `have`, and the cache left.
SignOne(d, cache, in, have) ==
  LET hinted   == Hinted(d, cache, in)
      first    == FirstMatch(d, hinted, in) \ have
      searched == Searched(d, hinted, in)
  IN IF first # {} THEN [new |-> first, cache |-> hinted]
     ELSE [new |-> FirstMatch(d, searched, in) \ have, cache |-> searched]

\* The keys device d signs with on each input, given those already signed.
NewKeys(d, ins, have) ==
  LET after[i \in 0..Len(ins)] ==
        IF i = 0 THEN [new |-> {}, cache |-> NoCache]
        ELSE SignOne(d, after[i - 1].cache, ins[i], have[i])
  IN [i \in 1..Len(ins) |-> after[i].new]

\* A device's keys in an input: what it should find there.
Owns(d, in) == {k \in Range(in.ring) : k[1] = d /\ (in.hint = None \/ k[2] = in.hint)}

-----------------------------------------------------------------------------
(***************************************************************************)
(* The two payloads.  An entry of a PSKB input is [key, prefix, of]; at    *)
(* most one entry has a given key and prefix.  A KSPT input is a sequence  *)
(* of [pos, of] in the order the signatures were made.                     *)
(***************************************************************************)
Prefix(key) == IF key[1] \in Odd THEN 3 ELSE 2
Named(entries, key, prefix) == \E e \in entries : e.key = key /\ e.prefix = prefix

Bundle(t, sigs) == [kind |-> "pskb", of |-> t, sigs |-> sigs]
Blank(t) == Bundle(t, [i \in Indices(t) |-> {}])

(* Mutant: the records are written in the order of the map. *)
MutRecords(in, entries) ==
  LET sorted == InOrder(entries, [e \in entries |-> e.prefix * (MaxSigs + 1) + Position(in, e.key)])
  IN [j \in 1..Len(sorted) |-> [pos |-> Position(in, sorted[j].key), of |-> sorted[j].of]]

\* encode_input_kspt_v2_relay: one record per entry of the map, sorted by
\* position (stably: 02 is before 03 in the map).
Records(in, entries) ==
  LET sorted == InOrder(entries, [e \in entries |-> 2 * Position(in, e.key) + e.prefix])
  IN [j \in 1..Len(sorted) |-> [pos |-> Position(in, sorted[j].key), of |-> sorted[j].of]]

Compact(b) ==
  [kind |-> "kspt", of |-> b.of, done |-> FALSE,
   sigs |-> [i \in Indices(b.of) |-> Records(inputs[b.of][i], b.sigs[i])]]

Payload(b, format) == IF format = "pskb" THEN b ELSE Compact(b)

(***************************************************************************)
(* The device's answer.  A KSPT carries the earlier signatures into the    *)
(* signer, which skips their positions; a PSKB keeps them aside and adds   *)
(* the new ones afterwards, unless an entry has that compressed key.       *)
(***************************************************************************)
PositionsIn(records) == {records[j].pos : j \in 1..Len(records)}

\* The device's parsers refuse an input with more than MaxSigs signatures.
ParsesPskb(p) == \A i \in Indices(p.of) : Cardinality(p.sigs[i]) <= MaxSigs
ParsesKspt(p) == \A i \in Indices(p.of) : Len(p.sigs[i]) <= MaxSigs
Parses(p) == IF p.kind = "pskb" THEN ParsesPskb(p) ELSE ParsesKspt(p)

KsptKeys(d, p) ==
  LET ins == inputs[p.of]
      have == [i \in Indices(p.of) |-> {ins[i].ring[n] : n \in PositionsIn(p.sigs[i])}]
  IN NewKeys(d, ins, have)

\* The signatures of an input after signing, the new ones in script order.
KsptSigned(d, p, i) ==
  LET in == inputs[p.of][i]
      ks == ByPosition(in, KsptKeys(d, p)[i])
      added == [j \in 1..Len(ks) |-> [pos |-> Position(in, ks[j]), of |-> p.of]]
  IN First(p.sigs[i] \o added, MaxSigs)


IsFullySigned(sigs) == \A i \in DOMAIN sigs : Len(sigs[i]) >= M

KsptAnswer(d, p) ==
  LET sigs == [i \in Indices(p.of) |-> KsptSigned(d, p, i)]
  IN [kind |-> "kspt", of |-> p.of, sigs |-> sigs, done |-> IsFullySigned(sigs)]

PskbKeys(d, p) == NewKeys(d, inputs[p.of], [i \in Indices(p.of) |-> {}])

\* move_ksp_sigs_to_pskt: the new keys no entry has, while there is room.
Moved(d, p, i) ==
  LET unnamed == {k \in PskbKeys(d, p)[i] : ~Named(p.sigs[i], k, Prefix(k))}
  IN Range(First(ByPosition(inputs[p.of][i], unnamed), MaxSigs - Cardinality(p.sigs[i])))

PskbAnswer(d, p) ==
  Bundle(p.of, [i \in Indices(p.of) |->
    p.sigs[i] \cup {[key |-> k, prefix |-> Prefix(k), of |-> p.of] : k \in Moved(d, p, i)}])

\* No key of this device in any input: refused, nothing is shown.
Refuses(d, p) ==
  LET new == IF p.kind = "pskb" THEN PskbKeys(d, p) ELSE KsptKeys(d, p)
  IN \A i \in Indices(p.of) : new[i] = {}

Answer(d, p) == IF p.kind = "pskb" THEN PskbAnswer(d, p) ELSE KsptAnswer(d, p)

-----------------------------------------------------------------------------
(***************************************************************************)
(* What the page makes of an answer.  The merge reads a position's key out *)
(* of the redeem script of the bundle it holds, files it under 02, leaves  *)
(* a key it already has alone, and compares nothing but the number of      *)
(* inputs.                                                                 *)
(***************************************************************************)
(* Mutant: the answer to any transaction is merged. *)
MutMerges(b, p) == TRUE

Merges(b, p) == Len(inputs[b.of]) = Len(inputs[p.of])

\* xonly_at_position
KeyAt(in, pos) == in.ring[pos]

Merge(b, p) ==
  LET fresh(in, entries, records) ==
        {j \in 1..Len(records) :
           /\ ~Named(entries, KeyAt(in, records[j].pos), 2)
           /\ \A h \in 1..(j - 1) : KeyAt(in, records[h].pos) # KeyAt(in, records[j].pos)}
      merged(in, entries, records) ==
        entries \cup {[key |-> KeyAt(in, records[j].pos), prefix |-> 2, of |-> records[j].of] :
                        j \in fresh(in, entries, records)}
  IN [b EXCEPT !.sigs = [i \in Indices(b.of) |->
       IF i \in DOMAIN p.sigs THEN merged(inputs[b.of][i], b.sigs[i], p.sigs[i]) ELSE b.sigs[i]]]

\* pskt_summary: the badge of an input, and the Finalize button.
SigsPresent(b, i) == Cardinality(b.sigs[i])
FinalizeReady(b) == \A i \in Indices(b.of) : SigsPresent(b, i) >= M

\* checkKsptSignatureStatus: the flag, or a signature on any input.
LooksSigned(p) == p.done \/ \E i \in Indices(p.of) : p.sigs[i] # <<>>

-----------------------------------------------------------------------------
(***************************************************************************)
(* The node.  CHECKMULTISIG takes the keys in order: each signature has to *)
(* be for a later key than the one before it, and for this transaction.    *)
(***************************************************************************)
ChecksOut(t, records) ==
  /\ Len(records) = M
  /\ \A j \in 1..M : records[j].of = t
  /\ \A j \in 1..(M - 1) : records[j].pos < records[j + 1].pos

\* build_p2sh_multisig_sig_script: the first M in redeem script order.
ScriptOf(b, i) == First(Records(inputs[b.of][i], b.sigs[i]), M)
NodeAccepts(b) == \A i \in Indices(b.of) : ChecksOut(b.of, ScriptOf(b, i))

\* broadcast_signed: the length of a redeem script is written on two bytes
\* (v3, v5) and read on one, so what follows is read one byte early.
RedeemLengthWritten == 2
RedeemLengthRead == 1
NodeAcceptsHex(p) ==
  /\ RedeemLengthRead = RedeemLengthWritten
  /\ \A i \in Indices(p.of) :
       LET s == SortSeq(p.sigs[i], LAMBDA r, q : r.pos < q.pos)
       IN ChecksOut(p.of, First(s, M))

-----------------------------------------------------------------------------
Init ==
  /\ inputs \in Plans
  /\ review = None
  /\ wire = "pskb"
  /\ onPage = None
  /\ onDevice = [d \in Devices |-> None]
  /\ approved = {}
  /\ ledger = {}

\* The page has built a spend and opens it for review (openPsktReview).
Build(t, format) ==
  /\ t \notin ledger
  /\ review' = Blank(t)
  /\ wire' = format
  /\ onPage' = None
  /\ UNCHANGED <<inputs, onDevice, approved, ledger>>

\* Back from the review; a reload of the page loses the same.
Back ==
  /\ review # None
  /\ review' = None
  /\ onPage' = None
  /\ UNCHANGED <<inputs, wire, onDevice, approved, ledger>>

Relay(format) ==
  /\ review # None
  /\ format = wire \/ "mixed" \in Detours
  /\ onPage' = format
  /\ UNCHANGED <<inputs, review, wire, onDevice, approved, ledger>>

(* Mutant: what comes in the compact form is signed without a review. *)
MutSign(d) ==
  /\ onPage # None
  /\ LET p == Payload(review, onPage) IN
     /\ Parses(p)
     /\ approved' = IF p.kind = "kspt" THEN approved ELSE approved \cup {<<d, p.of>>}
     /\ onDevice' = [onDevice EXCEPT ![d] = IF Refuses(d, p) THEN None ELSE Answer(d, p)]
  /\ UNCHANGED <<inputs, review, wire, onPage, ledger>>

\* A device scans what the page shows, its owner approves what the device
\* shows, and it signs with the selected seed.
Sign(d) ==
  /\ onPage # None
  /\ LET p == Payload(review, onPage) IN
     /\ Parses(p)
     /\ approved' = approved \cup {<<d, p.of>>}
     /\ onDevice' = [onDevice EXCEPT ![d] = IF Refuses(d, p) THEN None ELSE Answer(d, p)]
  /\ UNCHANGED <<inputs, review, wire, onPage, ledger>>

\* The straight path: the page scans answers of this round's format, to the
\* transaction under review.
Expected(p) ==
  IF review = None THEN TRUE
  ELSE /\ p.kind = wire \/ "mixed" \in Detours
       /\ \/ p.of = review.of \/ p.kind = "pskb" \/ "stray" \in Detours
          \/ Len(inputs[p.of]) # Len(inputs[review.of])

\* broadcast_signed, for what the page does not merge.
Broadcast(p) == IF NodeAcceptsHex(p) THEN ledger \cup {p.of} ELSE ledger

\* handleSignedScan: a PSKB replaces the bundle under review and a KSPT is
\* merged into it; with no bundle, or one it will not merge into, a KSPT goes
\* to the broadcast screen and from there to the node (handleBroadcastHex).
Scan(d) ==
  LET p == onDevice[d] IN
  /\ p # None
  /\ Expected(p)
  /\ IF p.kind = "pskb"
     THEN review' = p /\ wire' = p.kind /\ UNCHANGED ledger
     ELSE IF review # None /\ LooksSigned(p) /\ Merges(review, p)
     THEN review' = Merge(review, p) /\ UNCHANGED <<wire, ledger>>
     ELSE ledger' = Broadcast(p) /\ UNCHANGED <<review, wire>>
  /\ onPage' = None
  /\ UNCHANGED <<inputs, onDevice, approved>>

\* handlePsktFinalize: a refusal leaves the review as it was.
Finalize ==
  /\ review # None
  /\ FinalizeReady(review)
  /\ IF NodeAccepts(review)
     THEN ledger' = ledger \cup {review.of} /\ review' = None
     ELSE UNCHANGED <<ledger, review>>
  /\ onPage' = None
  /\ UNCHANGED <<inputs, wire, onDevice, approved>>

Next ==
  \/ \E t \in DOMAIN inputs, format \in {"pskb", "kspt"} : Build(t, format)
  \/ Back
  \/ \E format \in {"pskb", "kspt"} : Relay(format)
  \/ \E d \in Devices : Sign(d) \/ Scan(d)
  \/ Finalize

Spec == Init /\ [][Next]_vars
-----------------------------------------------------------------------------
\* An answer the device flags as fully signed is: with no other answer it
\* makes a bundle the node accepts (is_fully_signed).
DoneIsEnough ==
  \A d \in Devices : LET p == onDevice[d] IN
    p # None /\ p.kind = "kspt" /\ p.done => NodeAccepts(Merge(Blank(p.of), p))

\* What is called complete is: the button is offered only for a transaction the
\* node accepts, on every input the signatures finalizing takes are for distinct
\* keys, in order, and sign this very transaction (openPsktReview,
\* build_p2sh_multisig_sig_script), and the device's own flag is right as well.
ReadyIsAccepted ==
  /\ review # None /\ FinalizeReady(review) => NodeAccepts(review)
  /\ DoneIsEnough

\* The badge of an input counts cosigners: every signature is by a different
\* key, and by a device whose owner approved this transaction on its screen.
CountedApproved ==
  review # None => \A i \in Indices(review.of) :
    /\ SigsPresent(review, i) = Cardinality({e.key : e \in review.sigs[i]})
    /\ \A e \in review.sigs[i] : <<e.key[1], review.of>> \in approved

\* Wherever the round stands, asking any signer gives exactly the signatures
\* it owes: on every input its own key is found, whatever key the inputs
\* before left in its cache, and nothing the page held is lost.
AfterAsking(d, p) ==
  IF Refuses(d, p) THEN review
  ELSE IF p.kind = "pskb" THEN Answer(d, p) ELSE Merge(review, Answer(d, p))

NextSignerHelps ==
  review # None => LET p == Payload(review, wire) IN
    /\ Parses(p)
    /\ \A d \in Devices : LET after == AfterAsking(d, p) IN
         \A i \in Indices(review.of) :
           /\ review.sigs[i] \subseteq after.sigs[i]
           /\ {e.key : e \in after.sigs[i]}
                = {e.key : e \in review.sigs[i]} \cup Owns(d, inputs[review.of][i])

\* What the round promises: a transaction is paid only after M signers have
\* approved it, each on its own screen.
Promise == INSTANCE Threshold WITH Signers <- Devices, paid <- ledger
KeepsPromise == Promise!Spec

\* A complete answer is accepted by the node too when it is scanned with
\* nothing under review (handleBroadcastHex): the code does not hold to it.
HexIsAccepted == \A d \in Devices : LET p == onDevice[d] IN
  p # None /\ p.kind = "kspt" /\ p.done => NodeAcceptsHex(p)
=============================================================================
