--------------------------- MODULE WatchPage_proof ---------------------------
(***************************************************************************)
(* Whatever the page shows is of the wallet it holds (OwnShown), change    *)
(* never goes to an address a refresh has shown as funded while a derived  *)
(* one is free (FreshChange), a document is what was asked for (AsAsked)   *)
(* and the node is sent what the page made (SentIsMade): for any wallets,  *)
(* coins, amounts, documents, ceilings and calls under way.                *)
(*                                                                         *)
(* A call is always of the wallet held, as a wallet is only left when no   *)
(* call is under way, and a page without a wallet is bare (Own).  An       *)
(* address once shown as funded is funded now or used, but between the two *)
(* answers of a refresh, when it may be known from the snapshot only       *)
(* (Known); the answer that ends the refresh files it, as the calls of a   *)
(* refresh reach every address known (Reached).  The rows shown are        *)
(* the list last answered, as only one is waited for (Listed), and their   *)
(* coins have one order.  What is under review carries the made document   *)
(* through the formats there and back (Conveyed).                          *)
(***************************************************************************)
EXTENDS WatchPage, FiniteSetTheorems, SequenceTheorems, WellFoundedInduction, TLAPS

At(S) == {c.at : c \in S}
Seen == IF page.snapshot = None THEN {} ELSE page.snapshot

Shaped ==
  /\ page = [wallet |-> page.wallet, refreshing |-> page.refreshing, balance |-> page.balance,
             funded |-> page.funded, used |-> page.used, snapshot |-> page.snapshot,
             cached |-> page.cached, rows |-> page.rows, ticked |-> page.ticked,
             list |-> page.list, derived |-> page.derived]
  /\ told = [funded |-> told.funded, moved |-> told.moved, half |-> told.half]

\* A page without a wallet is bare and waits for nothing.
Bare == /\ calls = {} /\ page.balance = None /\ page.funded = {} /\ page.used = {}
        /\ page.snapshot = None /\ page.cached = <<>> /\ page.rows = <<>>

\* A coin list is a list, and what is waited for is the held wallet's.
Own == /\ Shaped
       /\ page.wallet = None => Bare
       /\ \A call \in calls : call.of = page.wallet
       /\ OwnShown

\* Where an address once shown as funded is remembered; in the middle of a
\* refresh no coin has left since its first answer.
Known ==
  /\ chain \subseteq born /\ Seen \subseteq born
  /\ told.half \in BOOLEAN
  /\ ~told.half => /\ told.funded \subseteq page.funded \cup page.used
                   /\ page.funded \subseteq At(Seen) \cup page.used
  /\ told.half => /\ told.funded \subseteq page.funded \cup page.used \cup At(Seen)
                  /\ page.funded \subseteq At(chain)
                  /\ At(Seen \cap chain) \subseteq page.funded

\* The coins there ever were are coins that may be.
Minted == born \subseteq Coins

\* One refresh asks at a time, and about every address where coins are known to
\* have been: those are among the addresses derived.
Asking == {"balance", "utxos"}
Reached ==
  /\ page.derived \in Nat
  /\ \A call \in calls : call.upto \in Nat /\ call.upto <= page.derived
  /\ \A one, two \in calls : one.kind \in Asking /\ two.kind \in Asking => one = two
  /\ \A call \in calls : call.kind \in Asking =>
       /\ page.refreshing = TRUE
       /\ \A at \in page.funded \cup At(Seen) : at[2] <= call.upto
  /\ \A at \in page.funded \cup At(Seen) : at[2] \in Nat /\ at[2] <= page.derived

\* The desk keeps what was asked for.
DeskShaped ==
  desk = [asked |-> desk.asked, review |-> desk.review, made |-> desk.made,
          shown |-> desk.shown, answer |-> desk.answer, sent |-> desk.sent]

Straight == Own /\ Known /\ Minted /\ Reached /\ DeskShaped

-----------------------------------------------------------------------------
(* The operators. *)

\* A non-empty set of naturals has a least member, the one Min picks.
LEMMA MinIn ==
  ASSUME NEW T, T \subseteq Nat, T # {}
  PROVE  Min(T) \in T /\ \A y \in T : Min(T) <= y
<1>1. IsWellFoundedOn({ss \in Nat \X Nat : ss[1] < ss[2]}, Nat)
  BY Zenon, NatLessThanWellFounded DEF OpToRel
<1>2. PICK x \in T : \A y \in T : ~ (<<y, x>> \in {ss \in Nat \X Nat : ss[1] < ss[2]})
  BY <1>1, WFMin, Zenon
<1>3. ASSUME NEW y \in T PROVE x <= y
  <2>1. x \in Nat /\ y \in Nat /\ <<y, x>> \in Nat \X Nat
    OBVIOUS
  <2>2. ~(y < x)
    BY <1>2, <2>1, Zenon
  <2> QED
    BY <2>1, <2>2
<1> QED
  BY <1>3 DEF Min

\* A natural without a bound on a finite stretch has a first such stretch:
\* there is none.
LEMMA Bounded ==
  ASSUME NEW n \in Nat, NEW f, \A k \in 1 .. n : f[k] \in Nat
  PROVE  \E b \in Nat : \A k \in 1 .. n : f[k] <= b
<1> DEFINE Loose == {m \in 0 .. n : ~ \E b \in Nat : \A k \in 1 .. m : f[k] <= b}
<1>1. SUFFICES ASSUME Loose # {} PROVE FALSE
  <2>1. n \in 0 .. n
    OBVIOUS
  <2> QED
    BY <1>1, <2>1
<1>2. PICK m \in Loose : \A y \in Loose : m <= y
  <2>1. Loose \subseteq Nat
    OBVIOUS
  <2> QED
    BY <1>1, <2>1, MinIn
<1>3. m # 0
  <2>1. \A k \in 1 .. 0 : f[k] <= 0
    OBVIOUS
  <2> QED
    BY <2>1
<1>4. m - 1 \in 0 .. n /\ m - 1 \notin Loose /\ m \in 1 .. n
  <2>1. m \in 1 .. n
    BY <1>3
  <2>2. m - 1 \in 0 .. n /\ ~(m <= m - 1)
    BY <2>1
  <2> HIDE DEF Loose
  <2> QED
    BY <1>2, <2>1, <2>2
<1>5. PICK b \in Nat : \A k \in 1 .. m - 1 : f[k] <= b
  BY <1>4
<1>6. \A k \in 1 .. m : k \in 1 .. m - 1 \/ k = m
  BY <1>4
<1>7. f[m] \in Nat
  BY <1>4
<1>8. \A k \in 1 .. m : f[k] <= b + f[m]
  <2>1. \A k \in 1 .. m : f[k] \in Nat
    BY <1>4
  <2> QED
    <3>1. ASSUME NEW k \in 1 .. m PROVE f[k] <= b + f[m]
      <4>1. f[k] \in Nat /\ (f[k] <= b \/ f[k] = f[m])
        BY <1>5, <1>6, <2>1, Zenon
      <4> QED
        BY <4>1, <1>7
    <3> QED
      BY <3>1
<1>9. b + f[m] \in Nat
  BY <1>7
<1> QED
  BY <1>8, <1>9

\* A bounded set of naturals has a greatest member, the one Max picks.
LEMMA MaxIn ==
  ASSUME NEW T, T \subseteq Nat, T # {}, NEW b \in Nat, \A y \in T : y <= b
  PROVE  Max(T) \in T /\ \A y \in T : y <= Max(T)
<1> DEFINE Over == {u \in Nat : \A y \in T : y <= u}
<1>1. PICK u \in Over : \A v \in Over : u <= v
  <2>1. Over \subseteq Nat /\ b \in Over
    OBVIOUS
  <2> QED
    BY <2>1, MinIn
<1>2. u \in T
  <2>1. SUFFICES ASSUME u \notin T PROVE FALSE
    OBVIOUS
  <2>2. PICK y \in T : TRUE
    OBVIOUS
  <2>3. \A z \in T : z < u
    BY <2>1, <1>1
  <2>4. u - 1 \in Over
    BY <2>2, <2>3
  <2> QED
    BY <1>1, <2>4
<1>3. \A y \in T : u >= y
  BY <1>1
<1> QED
  BY <1>2, <1>3 DEF Max

LEMMA AtMono ==
  ASSUME NEW S, NEW T, S \subseteq T
  PROVE  At(S) \subseteq At(T)
BY DEF At

\* A list of a wallet's coins has no other coins.
LEMMA ListOf ==
  ASSUME NEW S, NEW q \in ByAmount(S)
  PROVE  Range(q) = S
BY DEF ByAmount

LEMMA OrderedOf ==
  ASSUME NEW S, NEW q \in Ordered(S)
  PROVE  Range(q) = S
BY ListOf DEF Ordered

LEMMA EmptyList == Range(<<>>) = {}
<1>1. <<>> \in Seq({None}) /\ Len(<<>>) = 0
  BY EmptySeq
<1>2. DOMAIN <<>> = 1 .. Len(<<>>)
  BY <1>1, LenProperties
<1>3. 1 .. Len(<<>>) = {}
  BY <1>1
<1> QED
  BY <1>2, <1>3, Zenon DEF Range

\* The address the change goes to is neither funded nor used, if there is one
\* left of the m derived; if none is, it is the last.
LEMMA NextIsFresh ==
  ASSUME NEW m
  PROVE  \/ NextIndex(m) \notin Skipped
         \/ 1..m \subseteq Skipped /\ NextIndex(m) = m
<1> DEFINE free == (1..m) \ Skipped
<1>1. CASE free = {}
  BY <1>1 DEF NextIndex
<1>2. CASE free # {}
  <2>1. free \subseteq Nat
    OBVIOUS
  <2>2. Min(free) \in free
    BY <1>2, <2>1, MinIn
  <2> QED
    BY <1>2, <2>2 DEF NextIndex
<1> QED
  BY <1>1, <1>2

\* What is put after a first output has its place there.
LEMMA Second ==
  ASSUME NEW a, NEW t, NEW b, t = <<>> \/ t = <<b>>, NEW n \in 2 .. Len(<<a>> \o t)
  PROVE  (<<a>> \o t)[n] = b
<1> DEFINE S == {a, b}
<1>1. <<a>> \in Seq(S) /\ <<b>> \in Seq(S) /\ <<>> \in Seq(S)
  OBVIOUS
<1>2. Len(<<a>>) = 1 /\ <<a>>[1] = a /\ Len(t) \in 0 .. 1
  <2>1. CASE t = <<>>
    BY <2>1
  <2>2. CASE t = <<b>>
    BY <2>2
  <2> QED
    BY <2>1, <2>2
<1>3. t \in Seq(S)
  BY <1>1
<1>4. Len(<<a>> \o t) = 1 + Len(t)
  BY <1>1, <1>2, <1>3, ConcatProperties
<1>5. n \in 2 .. 1 + Len(t)
  BY <1>4, Zenon
<1>6. n = 2 /\ Len(t) = 1
  <2>1. PICK m \in 0 .. 1 : Len(t) = m
    BY <1>2
  <2>2. n \in 2 .. 1 + m
    BY <1>5, <2>1, Zenon
  <2>3. n = 2 /\ m = 1
    BY <2>2
  <2> QED
    BY <2>1, <2>3
<1>7. t[1] = b
  BY <1>6
<1>8. n \in 1 .. Len(<<a>>) + Len(t)
  BY <1>2, <1>6
<1>9. (<<a>> \o t)[n] = IF n <= Len(<<a>>) THEN <<a>>[n] ELSE t[n - Len(<<a>>)]
  BY <1>1, <1>3, <1>8, ConcatProperties
<1> QED
  BY <1>2, <1>6, <1>7, <1>9

\* The second output of a document, if any, is the change.
ComesBack(outs, next) == \A n \in 2..Len(outs) : outs[n].to = <<page.wallet, next>>
LEMMA ChangeGoes ==
  ASSUME NEW coins, NEW to, NEW amount, NEW fee, NEW next
  PROVE  ComesBack(Outputs(coins, to, amount, fee, next), next)
<1> DEFINE rest == Total(coins) - amount - fee
           change == Output(<<page.wallet, next>>, rest)
           first == Output(to, amount)
           more == IF rest >= Dust THEN <<change>> ELSE <<>>
<1>1. Outputs(coins, to, amount, fee, next) = <<first>> \o more
  BY DEF Outputs
<1>2. change.to = <<page.wallet, next>>
  BY DEF Output
<1> HIDE DEF rest, change, first, more
<1>3. more = <<>> \/ more = <<change>>
  BY DEF more
<1>4. ASSUME NEW n \in 2 .. Len(<<first>> \o more)
      PROVE  (<<first>> \o more)[n].to = <<page.wallet, next>>
  BY <1>2, <1>3, Second
<1> QED
  BY <1>1, <1>4 DEF ComesBack

-----------------------------------------------------------------------------
(* Actions. *)

Quiet == "switch in flight" \notin Detours
NoBlink == Quiet /\ "blink" \notin Detours

LEMMA InitStraight == Init => Straight
<1> SUFFICES ASSUME Init PROVE Straight
  OBVIOUS
<1>1. Own
  BY DEF Init, InitPage, InitTold, Own, Shaped, Bare, OwnShown, Range
<1>2. Known
  BY DEF Init, InitPage, InitTold, Known, Seen, At
<1>3. Minted
  BY PageAssumption DEF Init, Minted
<1>4. DeskShaped
  BY DEF Init, InitDesk, DeskShaped
<1>5. Reached
  BY PageAssumption DEF Init, InitPage, Reached, Seen, At
<1> QED
  BY <1>1, <1>2, <1>3, <1>4, <1>5 DEF Straight

\* A step that changes nothing a wallet's page is told by.
SamePage ==
  /\ page'.funded = page.funded /\ page'.used = page.used /\ page'.snapshot = page.snapshot
SameWorld == chain' = chain /\ born' = born
SameTold == told'.funded = told.funded /\ told'.half = told.half

LEMMA KnownMinted ==
  ASSUME Known, Minted, SamePage, SameWorld, SameTold
  PROVE  Known' /\ Minted'
<1>1. Seen' = Seen
  BY DEF Seen, SamePage
<1>2. Known'
  BY <1>1 DEF Known, SamePage, SameWorld, SameTold
<1>3. Minted'
  BY DEF Minted, SameWorld
<1> QED
  BY <1>2, <1>3

\* Asking and being answered leave the calls the wallet's.
LEMMA AskOwn ==
  ASSUME Own, NEW kind, Ask(kind)
  PROVE  \A call \in calls' : call.of = page.wallet
BY DEF Own, Ask, Call, CallOf

LEMMA FollowsOwn ==
  ASSUME Own, NEW call \in calls, NEW kind, Follows(call, kind)
  PROVE  /\ page.wallet # None /\ call.of = page.wallet
         /\ \A other \in calls' : other.of = page.wallet
BY DEF Own, Bare, Follows, Call, CallOf

LEMMA AnsweredOwn ==
  ASSUME Own, NEW call \in calls, NEW kind, Answered(call, kind)
  PROVE  /\ page.wallet # None /\ call.of = page.wallet
         /\ \A other \in calls' : other.of = page.wallet
BY DEF Own, Bare, Answered

\* What the page is after a step that is none of the wallet's own: fields of
\* its own coins, for the same wallet.
Aside == SamePage /\ SameWorld /\ SameTold

LEMMA ImportKept ==
  ASSUME Own, Import
  PROVE  Own' /\ Aside
<1>1. PICK w \in Wallets : page' = [page EXCEPT !.wallet = w, !.refreshing = FALSE]
  BY DEF Import
<1>2. /\ Bare /\ calls' = calls /\ told' = told /\ chain' = chain /\ born' = born
  BY DEF Import, Own
<1>3. /\ Shaped' /\ SamePage
      /\ page'.balance = page.balance /\ page'.cached = page.cached /\ page'.rows = page.rows
  BY <1>1, <1>2 DEF Own, Shaped, SamePage
<1>4. Bare'
  BY <1>2, <1>3 DEF Bare, SamePage
<1>5. OwnShown'
  BY <1>4 DEF Bare, OwnShown, Range
<1>6. \A call \in calls' : call.of = page'.wallet
  BY <1>4 DEF Bare
<1> QED
  BY <1>2, <1>3, <1>4, <1>5, <1>6 DEF Own, Aside, SameWorld, SameTold

\* A step of a page with a wallet keeps it the wallet's.
LEMMA OwnFrom ==
  ASSUME Own, Shaped', page.wallet # None, page'.wallet = page.wallet,
         \A call \in calls' : call.of = page.wallet,
         page'.balance = None \/ page'.balance = page.balance \/ page'.balance.of = page.wallet,
         \A at \in page'.funded \cup page'.used : at[1] = page.wallet,
         page'.snapshot = page.snapshot \/ \A c \in page'.snapshot : c.at[1] = page.wallet,
         \A c \in Range(page'.cached) \cup Range(page'.rows) : c.at[1] = page.wallet
  PROVE  Own'
BY DEF Own, OwnShown

\* Such a step that leaves the addresses alone.
LEMMA OwnAside ==
  ASSUME Own, Shaped', page.wallet # None, page'.wallet = page.wallet, Aside,
         \A call \in calls' : call.of = page.wallet,
         page'.balance \in {None, page.balance},
         page'.cached = page.cached \/ \A c \in Range(page'.cached) : c.at[1] = page.wallet,
         page'.rows = page.rows \/ \A c \in Range(page'.rows) : c.at[1] = page.wallet
  PROVE  Own'
<1>1. \A at \in page'.funded \cup page'.used : at[1] = page.wallet
  BY DEF Own, OwnShown, Aside, SamePage
<1>2. \A c \in Range(page'.cached) \cup Range(page'.rows) : c.at[1] = page.wallet
  BY DEF Own, OwnShown
<1> QED
  BY <1>1, <1>2, OwnFrom DEF Aside, SamePage

LEMMA AskingKept ==
  ASSUME Own, StartRefresh \/ OpenSend \/ ShowUtxos
  PROVE  Own' /\ Aside
<1>1. PICK kind \in {"balance", "send", "utxos list"} : Ask(kind)
  BY DEF StartRefresh, OpenSend, ShowUtxos
<1>2. page.wallet # None /\ told' = told /\ SameWorld
  BY DEF StartRefresh, OpenSend, ShowUtxos, SameWorld
<1>3. /\ Shaped' /\ SamePage /\ page'.wallet = page.wallet /\ page'.balance = page.balance
      /\ page'.cached \in {page.cached, <<>>} /\ page'.rows = page.rows
  <2>1. CASE StartRefresh
    BY <2>1, <1>2 DEF StartRefresh, Own, Shaped, SamePage
  <2>2. CASE OpenSend
    BY <2>2, <1>2 DEF OpenSend, Own, Shaped, SamePage
  <2>3. CASE ShowUtxos
    BY <2>3, <1>2 DEF ShowUtxos, Own, Shaped, SamePage
  <2> QED
    BY <2>1, <2>2, <2>3
<1>4. Aside
  BY <1>2, <1>3 DEF Aside, SameTold
<1>5. \A call \in calls' : call.of = page.wallet
  BY <1>1, AskOwn
<1>6. page'.cached = page.cached \/ \A c \in Range(page'.cached) : c.at[1] = page.wallet
  <2>1. CASE page'.cached = <<>>
    BY <2>1, EmptyList
  <2> QED
    BY <1>3, <2>1
<1> QED
  BY <1>2, <1>3, <1>4, <1>5, <1>6, OwnAside

LEMMA FailsKept ==
  ASSUME Own, BalanceFails \/ UtxosFail \/ ListFails
  PROVE  Own' /\ Aside
<1>1. /\ page.wallet # None /\ \A other \in calls' : other.of = page.wallet
  <2>1. CASE BalanceFails
    BY <2>1, AnsweredOwn DEF BalanceFails
  <2>2. CASE UtxosFail
    BY <2>2, FollowsOwn DEF UtxosFail
  <2>3. CASE ListFails
    BY <2>3 DEF ListFails, Own, Bare
  <2> QED
    BY <2>1, <2>2, <2>3
<1>2. told' = told /\ SameWorld
  BY DEF BalanceFails, UtxosFail, ListFails, SameWorld
<1>3. /\ Shaped' /\ SamePage /\ page'.wallet = page.wallet
      /\ page'.balance \in {None, page.balance}
      /\ page'.cached = page.cached /\ page'.rows = page.rows
  <2>1. CASE BalanceFails
    BY <2>1, <1>2 DEF BalanceFails, Own, Shaped, SamePage
  <2>2. CASE UtxosFail
    BY <2>2, <1>2 DEF UtxosFail, Own, Shaped, SamePage
  <2>3. CASE ListFails
    BY <2>3, <1>2 DEF ListFails, Own, Shaped, SamePage
  <2> QED
    BY <2>1, <2>2, <2>3
<1>4. Aside
  BY <1>2, <1>3 DEF Aside, SameTold
<1> QED
  BY <1>1, <1>3, <1>4, OwnAside

LEMMA ListsKept ==
  ASSUME Own, SendAnswers \/ UtxosListAnswers
  PROVE  Own' /\ Aside
<1>1. PICK call \in calls :
        \/ /\ Answered(call, "send") /\ UNCHANGED <<theme, chain, born, moves, told, desk>>
           /\ \E n \in Reach(call) : \E q \in Ordered(CoinsOf(call.of, n)) :
                page' = [page EXCEPT !.cached = q]
        \/ /\ Answered(call, "utxos list") /\ \E moved : told' = [told EXCEPT !.moved = moved]
           /\ UNCHANGED <<theme, chain, born, moves, desk>>
           /\ \E n \in Reach(call) : \E q \in ByAmount(CoinsOf(call.of, n)) :
                page' = [page EXCEPT !.cached = q, !.rows = q, !.list = "utxos"]
  BY DEF SendAnswers, UtxosListAnswers
<1>2. /\ page.wallet # None /\ call.of = page.wallet
      /\ \A other \in calls' : other.of = page.wallet
  BY <1>1, AnsweredOwn
<1>3. PICK q, n : /\ Range(q) = CoinsOf(page.wallet, n)
                  /\ \/ page' = [page EXCEPT !.cached = q]
                     \/ page' = [page EXCEPT !.cached = q, !.rows = q, !.list = "utxos"]
  BY <1>1, <1>2, ListOf, OrderedOf
<1>4. \A c \in Range(q) : c.at[1] = page.wallet
  BY <1>3 DEF CoinsOf, Owned
<1>5. /\ Shaped' /\ SamePage /\ page'.wallet = page.wallet /\ page'.balance = page.balance
      /\ page'.cached = q /\ (page'.rows = page.rows \/ page'.rows = q)
  <2>1. told' = [funded |-> told'.funded, moved |-> told'.moved, half |-> told'.half]
    BY <1>1 DEF Own, Shaped
  <2>2. CASE page' = [page EXCEPT !.cached = q]
    BY <2>1, <2>2 DEF Own, Shaped, SamePage
  <2>3. CASE page' = [page EXCEPT !.cached = q, !.rows = q, !.list = "utxos"]
    BY <2>1, <2>3 DEF Own, Shaped, SamePage
  <2> QED
    BY <1>3, <2>2, <2>3
<1>6. Aside
  BY <1>1, <1>5 DEF Aside, SameTold, SameWorld, Own, Shaped
<1> QED
  BY <1>2, <1>4, <1>5, <1>6, OwnAside

\* The rows shown are the cached list; ticks and documents leave the coins.
LEMMA RowsKept ==
  ASSUME Own, ShowRows \/ Tick
  PROVE  Own' /\ Aside
<1>1. calls' = calls /\ told' = told /\ SameWorld
  BY DEF ShowRows, Tick, SameWorld
<1>2. page.wallet # None
  <2>1. CASE ShowRows
    BY <2>1 DEF ShowRows, Own, Bare
  <2>2. CASE Tick
    <3>1. DOMAIN page.rows # {}
      BY <2>2 DEF Tick
    <3>2. page.rows # <<>>
      BY <3>1
    <3> QED
      BY <3>2 DEF Own, Bare
  <2> QED
    BY <2>1, <2>2
<1>3. /\ Shaped' /\ SamePage /\ page'.wallet = page.wallet /\ page'.balance = page.balance
      /\ page'.cached = page.cached /\ (page'.rows = page.rows \/ page'.rows = page.cached)
  <2>1. CASE ShowRows
    BY <2>1, <1>1 DEF ShowRows, Own, Shaped, SamePage
  <2>2. CASE Tick
    <3>1. PICK i : page' = [page EXCEPT !.ticked = @ \cup {i}]
      BY <2>2 DEF Tick
    <3> QED
      BY <3>1, <1>1 DEF Own, Shaped, SamePage
  <2> QED
    BY <2>1, <2>2
<1>4. Aside
  BY <1>1, <1>3 DEF Aside, SameTold
<1>5. \A c \in Range(page.cached) : c.at[1] = page.wallet
  BY DEF Own, OwnShown
<1>6. \A call \in calls' : call.of = page.wallet
  BY <1>1 DEF Own
<1> QED
  BY <1>2, <1>3, <1>4, <1>5, <1>6, OwnAside

\* What making a document does to the page.
Makes == /\ \E m \in Deriving : page' = [page EXCEPT !.list = None, !.derived = m]
         /\ UNCHANGED <<chain, born, calls, told>>

LEMMA DocumentsMake ==
  ASSUME CreateTicked \/ CreateSend \/ Consolidate \/ ConsolidateTicked
  PROVE  /\ Makes /\ desk = InitDesk /\ Settled
         /\ \E q, asked, to, amount, fee : \E m \in Deriving :
              Make(q, asked, to, amount, fee, m)
<1>1. \E q, asked, to, amount, fee : \E m \in Deriving : Make(q, asked, to, amount, fee, m)
  BY DEF CreateTicked, CreateSend, Consolidate, ConsolidateTicked
<1>2. Makes
  BY <1>1 DEF Make, Makes
<1>3. desk = InitDesk /\ Settled
  BY DEF CreateTicked, CreateSend, Consolidate, ConsolidateTicked
<1> QED
  BY <1>1, <1>2, <1>3

LEMMA MakesKept ==
  ASSUME Own, Makes
  PROVE  Own' /\ Aside
<1>0. PICK m : page' = [page EXCEPT !.list = None, !.derived = m]
  BY DEF Makes
<1>1. /\ Shaped' /\ SamePage /\ page'.wallet = page.wallet /\ page'.balance = page.balance
      /\ page'.cached = page.cached /\ page'.rows = page.rows
  BY <1>0 DEF Makes, Own, Shaped, SamePage
<1>2. Aside
  BY <1>1 DEF Aside, SameWorld, SameTold, Makes
<1>3. OwnShown'
  BY <1>1 DEF Own, OwnShown, SamePage
<1>4. calls' = calls
  BY DEF Makes
<1> QED
  BY <1>1, <1>2, <1>3, <1>4 DEF Own, Bare, SamePage

\* More addresses are derived.
LEMMA DerivesKept ==
  ASSUME Own, Derives
  PROVE  Own' /\ Aside
<1>0. PICK m : page' = [page EXCEPT !.derived = m]
  BY DEF Derives
<1>1. /\ calls' = calls /\ told' = [told EXCEPT !.moved = TRUE] /\ SameWorld
  BY DEF Derives, SameWorld
<1>2. /\ Shaped' /\ SamePage /\ page'.wallet = page.wallet /\ page'.balance = page.balance
      /\ page'.cached = page.cached /\ page'.rows = page.rows
  BY <1>0, <1>1 DEF Own, Shaped, SamePage
<1>3. Aside
  BY <1>1, <1>2 DEF Aside, SameTold, Own, Shaped
<1>4. OwnShown'
  BY <1>2 DEF Own, OwnShown, SamePage
<1> QED
  BY <1>1, <1>2, <1>3, <1>4 DEF Own, Bare, SamePage

\* What goes on at the desk leaves the page alone.
LEMMA StillKept ==
  ASSUME Own, UNCHANGED <<chain, born, page, calls, told>>
  PROVE  Own' /\ Aside
BY DEF Own, Shaped, Bare, OwnShown, Aside, SamePage, SameWorld, SameTold

-----------------------------------------------------------------------------
(* The steps that move coins and addresses. *)

LEMMA MovesKept ==
  ASSUME Own, Arrives \/ Leaves
  PROVE  Own'
<1>1. page' = page /\ calls' = calls /\ told' = [told EXCEPT !.moved = TRUE]
  BY DEF Arrives, Leaves, Moves
<1> QED
  BY <1>1 DEF Own, Shaped, Bare, OwnShown

LEMMA ArrivesKnown ==
  ASSUME Own, Known, Minted, Arrives
  PROVE  Known' /\ Minted'
<1>1. /\ page' = page /\ told'.funded = told.funded /\ told'.half = told.half
  BY DEF Arrives, Moves, Own, Shaped
<1>2. PICK c \in Coins \ born : chain' = chain \cup {c} /\ born' = born \cup {c}
  BY DEF Arrives
<1>3. Seen' = Seen /\ c \notin Seen
  BY <1>1, <1>2 DEF Seen, Known
<1>4. Seen \cap chain' = Seen \cap chain
  BY <1>2, <1>3
<1>5. At(chain) \subseteq At(chain') /\ At(born) \subseteq At(born')
  BY <1>2, AtMono
<1>6. Known'
  BY <1>1, <1>2, <1>3, <1>4, <1>5 DEF Known
<1>7. Minted'
  BY <1>2 DEF Minted
<1> QED
  BY <1>6, <1>7

LEMMA LeavesKnown ==
  ASSUME NoBlink, Own, Known, Minted, Leaves
  PROVE  Known' /\ Minted'
<1>1. /\ page' = page /\ told'.funded = told.funded /\ told'.half = told.half
  BY DEF Leaves, Moves, Own, Shaped
<1>2. chain' \subseteq chain /\ born' = born /\ ~told.half
  BY DEF Leaves, NoBlink
<1>3. Seen' = Seen
  BY <1>1 DEF Seen
<1> QED
  BY <1>1, <1>2, <1>3 DEF Known, Minted

LEMMA ResetKept ==
  ASSUME Quiet, Own, Reset
  PROVE  Own' /\ (Known /\ Minted => Known' /\ Minted')
<1>1. calls = {} /\ calls' = {}
  BY DEF Reset, Quiet
<1>2. page' = InitPage(page.refreshing) /\ told' = InitTold /\ SameWorld
  BY DEF Reset, SameWorld
<1>3. Shaped' /\ Bare' /\ Seen' = {} /\ told'.funded = {} /\ ~told'.half
  BY <1>1, <1>2 DEF InitPage, InitTold, Shaped, Bare, Seen
<1>4. OwnShown'
  BY <1>3, EmptyList DEF Bare, OwnShown
<1>5. ASSUME Known, Minted PROVE Known' /\ Minted'
  <2>1. told'.half = FALSE
    BY <1>2 DEF InitTold
  <2> QED
    BY <1>2, <1>3, <1>5, <2>1 DEF Known, Minted, Bare, SameWorld
<1> QED
  BY <1>1, <1>3, <1>4, <1>5 DEF Own

\* An answer reaches as far as the call asked, and no further than there are
\* addresses.
LEMMA Reaches ==
  ASSUME Reached, NEW call \in calls, NEW n \in Reach(call)
  PROVE  n \in Nat /\ call.upto \in Nat /\ call.upto <= n /\ n <= page.derived
BY DEF Reached, Reach

\* A wallet's coins at its first addresses lie at those.
LEMMA CoinsAt ==
  ASSUME NEW w, NEW n
  PROVE  /\ CoinsOf(w, n) \subseteq chain
         /\ \A at \in At(CoinsOf(w, n)) : at[1] = w /\ at[2] <= n
         /\ At(CoinsOf(w, n)) \subseteq At(chain)
         /\ \A at \in At(chain) : at[1] = w /\ at[2] <= n => at \in At(CoinsOf(w, n))
BY DEF At, Owned, CoinsOf

\* The first answer of a refresh: the addresses of the coins there are.
LEMMA BalanceEffect ==
  ASSUME Own, BalanceAnswers
  PROVE  /\ Shaped' /\ SameWorld /\ page.wallet # None /\ page'.wallet = page.wallet
         /\ \A other \in calls' : other.of = page.wallet
         /\ page'.balance.of = page.wallet /\ page'.refreshing = TRUE
         /\ \E call \in calls : \E n \in Reach(call) :
              /\ call.kind = "balance" /\ Follows(call, "utxos")
              /\ page'.funded = At(CoinsOf(page.wallet, n))
              /\ told'.funded = told.funded \cup At(CoinsOf(page.wallet, n))
         /\ page'.used = page.used /\ page'.snapshot = page.snapshot
         /\ page'.cached = page.cached /\ page'.rows = page.rows
         /\ page'.list = page.list /\ page'.ticked = page.ticked
         /\ page'.derived = page.derived /\ told'.moved = told.moved
         /\ told'.half = TRUE
<1>1. PICK call, n :
        /\ call \in calls /\ n \in Reach(call)
        /\ call.kind = "balance"
        /\ page' = [page EXCEPT !.balance = [of |-> call.of, total |-> Total(CoinsOf(call.of, n))],
                                !.funded = At(CoinsOf(call.of, n)),
                                !.refreshing = page.wallet # None]
        /\ told' = [told EXCEPT !.funded = @ \cup At(CoinsOf(call.of, n)), !.half = TRUE]
        /\ Follows(call, "utxos")
  BY DEF BalanceAnswers, At
<1>2. /\ page.wallet # None /\ call.of = page.wallet
      /\ \A other \in calls' : other.of = page.wallet
  BY <1>1, FollowsOwn
<1>3. SameWorld
  BY DEF BalanceAnswers, SameWorld
<1> DEFINE at == At(CoinsOf(page.wallet, n))
           balance == [of |-> page.wallet, total |-> Total(CoinsOf(page.wallet, n))]
<1>4. balance.of = page.wallet
  OBVIOUS
<1>5. /\ page' = [page EXCEPT !.balance = balance, !.funded = at, !.refreshing = TRUE]
      /\ told' = [told EXCEPT !.funded = @ \cup at, !.half = TRUE]
  BY <1>1, <1>2
<1> HIDE DEF at, balance
<1>6. /\ Shaped' /\ page'.wallet = page.wallet /\ page'.balance = balance
      /\ page'.refreshing = TRUE
      /\ page'.funded = at /\ page'.used = page.used /\ page'.snapshot = page.snapshot
      /\ page'.cached = page.cached /\ page'.rows = page.rows
      /\ page'.list = page.list /\ page'.ticked = page.ticked
      /\ page'.derived = page.derived /\ told'.moved = told.moved
      /\ told'.funded = told.funded \cup at /\ told'.half = TRUE
  BY <1>5 DEF Own, Shaped
<1> QED
  BY <1>1, <1>2, <1>3, <1>4, <1>6 DEF at

LEMMA BalanceOwn ==
  ASSUME Own, BalanceAnswers
  PROVE  Own'
<1>1. \A at \in page'.funded \cup page'.used : at[1] = page.wallet
  <2>1. \A n : \A at \in At(CoinsOf(page.wallet, n)) : at[1] = page.wallet
    BY CoinsAt
  <2>2. \A at \in page.used : at[1] = page.wallet
    BY DEF Own, OwnShown
  <2>3. page'.used = page.used /\ \E n : page'.funded = At(CoinsOf(page.wallet, n))
    BY BalanceEffect
  <2> QED
    BY <2>1, <2>2, <2>3
<1>2. \A c \in Range(page'.cached) \cup Range(page'.rows) : c.at[1] = page.wallet
  BY BalanceEffect DEF Own, OwnShown
<1> QED
  BY <1>1, <1>2, BalanceEffect, OwnFrom

LEMMA BalanceKnown ==
  ASSUME Own, Known, Minted, Reached, BalanceAnswers
  PROVE  Known' /\ Minted'
<1>0. PICK call, n :
        /\ call \in calls /\ n \in Reach(call)
        /\ call.kind = "balance" /\ page'.funded = At(CoinsOf(page.wallet, n))
        /\ told'.funded = told.funded \cup At(CoinsOf(page.wallet, n))
  BY BalanceEffect
<1> DEFINE at == At(CoinsOf(page.wallet, n))
<1>1. at \subseteq At(chain)
  BY CoinsAt
<1>2. Seen' = Seen
  BY BalanceEffect DEF Seen
<1>3. /\ page'.funded = at /\ page'.used = page.used /\ chain' = chain /\ born' = born
      /\ told'.funded = told.funded \cup at /\ told'.half = TRUE
  BY <1>0, BalanceEffect DEF SameWorld
<1>4. \A a \in page.funded \cup At(Seen) : a[2] <= n
  <2>1. call.kind \in Asking
    BY <1>0 DEF Asking
  <2>2. \A a \in page.funded \cup At(Seen) :
          a[2] \in Nat /\ a[2] <= call.upto
    BY <1>0, <2>1 DEF Reached
  <2>3. n \in Nat /\ call.upto \in Nat /\ call.upto <= n
    BY <1>0, Reaches
  <2> QED
    BY <2>2, <2>3
<1>5. \A a \in page.funded : a \in At(chain) => a \in at
  BY <1>4, CoinsAt DEF Own, OwnShown
<1>6. At(Seen \cap chain) \subseteq at
  <2>1. \A c \in Seen : c.at[1] = page.wallet
    BY DEF Seen, Own, OwnShown
  <2>2. \A c \in Seen : c.at[2] <= n
    BY <1>4 DEF At
  <2>3. Seen \cap chain \subseteq CoinsOf(page.wallet, n)
    BY <2>1, <2>2 DEF CoinsOf, Owned
  <2> QED
    BY <2>3, AtMono
<1> HIDE DEF at
<1>7. told.funded \subseteq at \cup page.used \cup At(Seen)
  <2>1. CASE told.half
    BY <2>1, <1>5 DEF Known
  <2>2. CASE ~told.half
    BY <2>2 DEF Known
  <2> QED
    BY <2>1, <2>2 DEF Known
<1>8. Known'
  BY <1>1, <1>2, <1>3, <1>6, <1>7 DEF Known
<1>9. Minted'
  BY <1>3 DEF Minted
<1> QED
  BY <1>8, <1>9

\* The second answer: what went since the last look leaves its address used.
LEMMA UtxosEffect ==
  ASSUME Own, UtxosAnswer
  PROVE  /\ Shaped' /\ SameWorld /\ page.wallet # None /\ page'.wallet = page.wallet
         /\ \A other \in calls' : other.of = page.wallet
         /\ page'.balance = page.balance /\ page'.funded = page.funded
         /\ \E call \in calls : \E n \in Reach(call) :
              /\ call.kind = "utxos" /\ Follows(call, "scan")
              /\ page'.used = page.used \cup At(Seen \ CoinsOf(page.wallet, n))
              /\ page'.snapshot = CoinsOf(page.wallet, n)
         /\ page'.cached = page.cached /\ page'.rows = page.rows
         /\ page'.list = page.list /\ page'.ticked = page.ticked
         /\ page'.derived = page.derived /\ page'.refreshing = FALSE
         /\ told'.funded = told.funded /\ told'.half = FALSE /\ told'.moved = told.moved
<1>1. PICK call, n :
        /\ call \in calls /\ n \in Reach(call)
        /\ call.kind = "utxos"
        /\ page' = Track(CoinsOf(call.of, n))
        /\ told' = [told EXCEPT !.half = FALSE]
        /\ Follows(call, "scan")
  BY DEF UtxosAnswer
<1>2. /\ page.wallet # None /\ call.of = page.wallet
      /\ \A other \in calls' : other.of = page.wallet
  BY <1>1, FollowsOwn
<1>3. SameWorld
  BY DEF UtxosAnswer, SameWorld
<1> DEFINE new == CoinsOf(page.wallet, n)
           used == page.used \cup GoneFrom(page.snapshot, new)
<1>4. GoneFrom(page.snapshot, new) = At(Seen \ new)
  <2> HIDE DEF new
  <2>1. CASE page.snapshot = None
    BY <2>1 DEF GoneFrom, Seen, At
  <2>2. CASE page.snapshot # None
    <3>1. Owned(page.wallet, page.snapshot \ new) = page.snapshot \ new
      BY <2>2 DEF Own, OwnShown, Owned
    <3> QED
      BY <1>2, <2>2, <3>1 DEF GoneFrom, Seen, At
  <2> QED
    BY <2>1, <2>2
<1>5. page' = [page EXCEPT !.used = used, !.snapshot = new, !.refreshing = FALSE]
  BY <1>1, <1>2 DEF Track
<1> HIDE DEF new, used
<1>6. /\ Shaped' /\ page'.wallet = page.wallet /\ page'.balance = page.balance
      /\ page'.funded = page.funded /\ page'.used = used /\ page'.snapshot = new
      /\ page'.cached = page.cached /\ page'.rows = page.rows
      /\ page'.list = page.list /\ page'.ticked = page.ticked
      /\ page'.derived = page.derived /\ page'.refreshing = FALSE
      /\ told'.funded = told.funded /\ told'.half = FALSE /\ told'.moved = told.moved
  BY <1>1, <1>5 DEF Own, Shaped
<1> QED
  BY <1>1, <1>2, <1>3, <1>4, <1>6 DEF new, used

LEMMA UtxosOwn ==
  ASSUME Own, UtxosAnswer
  PROVE  Own'
<1>0. PICK n : /\ page'.used = page.used \cup At(Seen \ CoinsOf(page.wallet, n))
               /\ page'.snapshot = CoinsOf(page.wallet, n)
  BY UtxosEffect
<1> DEFINE new == CoinsOf(page.wallet, n)
<1>1. \A at \in At(Seen \ new) : at[1] = page.wallet
  BY DEF Own, OwnShown, Seen, At
<1>2. \A c \in new : c.at[1] = page.wallet
  BY DEF CoinsOf, Owned
<1>3. /\ page'.used = page.used \cup At(Seen \ new) /\ page'.snapshot = new
      /\ page'.funded = page.funded
  BY <1>0, UtxosEffect
<1> HIDE DEF new
<1>4. \A at \in page'.funded \cup page'.used : at[1] = page.wallet
  BY <1>1, <1>3 DEF Own, OwnShown
<1>5. \A c \in Range(page'.cached) \cup Range(page'.rows) : c.at[1] = page.wallet
  BY UtxosEffect DEF Own, OwnShown
<1>6. \A c \in page'.snapshot : c.at[1] = page.wallet
  BY <1>2, <1>3
<1> QED
  BY <1>4, <1>5, <1>6, UtxosEffect, OwnFrom

LEMMA UtxosKnown ==
  ASSUME Own, Known, Minted, Reached, UtxosAnswer
  PROVE  Known' /\ Minted'
<1>0. PICK call, n :
        /\ call \in calls /\ n \in Reach(call)
        /\ call.kind = "utxos"
        /\ page'.used = page.used \cup At(Seen \ CoinsOf(page.wallet, n))
        /\ page'.snapshot = CoinsOf(page.wallet, n)
  BY UtxosEffect
<1> DEFINE new == CoinsOf(page.wallet, n)
           gone == At(Seen \ new)
<1>1. new \subseteq chain /\ chain \subseteq born
  BY CoinsAt DEF Known
<1>2. \A a \in page.funded \cup At(Seen) : a[2] <= n
  <2>1. call.kind \in Asking
    BY <1>0 DEF Asking
  <2>2. \A a \in page.funded \cup At(Seen) :
          a[2] \in Nat /\ a[2] <= call.upto
    BY <1>0, <2>1 DEF Reached
  <2>3. n \in Nat /\ call.upto \in Nat /\ call.upto <= n
    BY <1>0, Reaches
  <2> QED
    BY <2>2, <2>3
<1>3. Seen \cap chain \subseteq new
  <2>1. \A c \in Seen : c.at[1] = page.wallet
    BY DEF Seen, Own, OwnShown
  <2>2. \A c \in Seen : c.at[2] <= n
    BY <1>2 DEF At
  <2> QED
    BY <2>1, <2>2 DEF CoinsOf, Owned
<1>4. At(Seen) \subseteq gone \cup At(Seen \cap chain) /\ At(Seen) \subseteq gone \cup At(new)
  <2>1. Seen \subseteq (Seen \ new) \cup (Seen \cap chain)
    BY <1>1
  <2>2. Seen \subseteq (Seen \ new) \cup new
    OBVIOUS
  <2> QED
    BY <2>1, <2>2 DEF At
<1>5. \A at \in page.funded : at \in At(chain) => at \in At(new)
  BY <1>2, CoinsAt DEF Own, OwnShown
<1>7. /\ page'.used = page.used \cup gone /\ page'.snapshot = new /\ page'.funded = page.funded
      /\ told'.funded = told.funded /\ told'.half = FALSE /\ chain' = chain /\ born' = born
  BY <1>0, UtxosEffect DEF SameWorld
<1>8. Seen' = new
  <2>1. new \in SUBSET Coins
    BY <1>1 DEF Minted
  <2>2. new # None
    BY <2>1, PageAssumption
  <2> QED
    BY <1>7, <2>2 DEF Seen
<1> HIDE DEF new, gone
<1>9. told.funded \subseteq page.funded \cup page.used \cup gone
  <2>1. CASE told.half
    BY <2>1, <1>4 DEF Known
  <2>2. CASE ~told.half
    BY <2>2 DEF Known
  <2> QED
    BY <2>1, <2>2 DEF Known
<1>10. page.funded \subseteq At(new) \cup page.used \cup gone
  <2>1. CASE told.half
    BY <2>1, <1>5 DEF Known
  <2>2. CASE ~told.half
    BY <2>2, <1>4 DEF Known
  <2> QED
    BY <2>1, <2>2 DEF Known
<1>11. Known'
  BY <1>1, <1>7, <1>8, <1>9, <1>10 DEF Known
<1>12. Minted'
  BY <1>7 DEF Minted
<1> QED
  BY <1>11, <1>12

\* The history of the addresses: those coins ever lay at; more are derived and
\* a refresh may follow.
LEMMA ScanEffect ==
  ASSUME Own, ScanAnswers
  PROVE  /\ Shaped' /\ SameWorld /\ page.wallet # None /\ page'.wallet = page.wallet
         /\ \A other \in calls' : other.of = page.wallet
         /\ page'.balance = page.balance /\ page'.funded = page.funded
         /\ page.used \subseteq page'.used
         /\ \A at \in page'.used \ page.used : at[1] = page.wallet
         /\ page'.snapshot = page.snapshot
         /\ page'.cached = page.cached /\ page'.rows = page.rows
         /\ page'.list = page.list /\ page'.ticked = page.ticked
         /\ \E call, S, m :
              /\ call \in calls /\ m \in Derivations(S)
              /\ page'.derived = m /\ told'.moved = (told.moved \/ m # page.derived)
              /\ \/ page'.refreshing = page.refreshing /\ calls' = calls \ {call}
                 \/ /\ page.refreshing # TRUE /\ page'.refreshing = TRUE
                    /\ calls' = (calls \ {call}) \cup {CallOf("balance", call.no, m)}
         /\ told'.funded = told.funded /\ told'.half = told.half
<1>1. PICK call, some, again, m :
        /\ call \in calls /\ again \in {page.refreshing, TRUE}
        /\ m \in Derivations(page.funded \cup (page.used \cup some))
        /\ \A at \in some : at[1] = call.of
        /\ page' = [page EXCEPT !.used = page.used \cup some, !.derived = m,
                                !.refreshing = again]
        /\ calls' = (calls \ {call}) \cup
                      {CallOf("balance", call.no, m) :
                         no \in IF again = page.refreshing THEN {} ELSE {call.no}}
        /\ told' = [told EXCEPT !.moved = @ \/ m # page.derived]
  <2>1. PICK call \in calls :
          \E some \in {{}, {c.at : c \in {d \in Owned(call.of, born) : d.at[2] <= call.upto}}},
             again \in {page.refreshing, TRUE} :
            \E m \in Derivations(page.funded \cup (page.used \cup some)) :
              /\ again # page.refreshing => m # page.derived
              /\ page' = [page EXCEPT !.used = page.used \cup some, !.derived = m,
                                      !.refreshing = again]
              /\ calls' = (calls \ {call}) \cup
                            {CallOf("balance", call.no, m) :
                               no \in IF again = page.refreshing THEN {} ELSE {call.no}}
              /\ told' = [told EXCEPT !.moved = @ \/ m # page.derived]
    BY DEF ScanAnswers
  <2> DEFINE Ends(some, again, m) ==
        /\ again # page.refreshing => m # page.derived
        /\ page' = [page EXCEPT !.used = page.used \cup some, !.derived = m,
                                !.refreshing = again]
        /\ calls' = (calls \ {call}) \cup
                      {CallOf("balance", call.no, m) :
                         no \in IF again = page.refreshing THEN {} ELSE {call.no}}
        /\ told' = [told EXCEPT !.moved = @ \/ m # page.derived]
             Somes == {{}, {c.at : c \in {d \in Owned(call.of, born) : d.at[2] <= call.upto}}}
  <2>2. \A some \in Somes : \A at \in some : at[1] = call.of
    BY DEF Owned
  <2>3. \E some \in Somes, again \in {page.refreshing, TRUE} :
          \E m \in Derivations(page.funded \cup (page.used \cup some)) : Ends(some, again, m)
    BY <2>1
  <2> HIDE DEF Ends, Somes
  <2>4. PICK some \in Somes, again \in {page.refreshing, TRUE} :
          \E m \in Derivations(page.funded \cup (page.used \cup some)) : Ends(some, again, m)
    BY <2>3
  <2>5. PICK m \in Derivations(page.funded \cup (page.used \cup some)) : Ends(some, again, m)
    BY <2>4
  <2>6. \A at \in some : at[1] = call.of
    BY <2>2
  <2> QED
    BY <2>5, <2>6 DEF Ends
<1>2. SameWorld
  BY DEF ScanAnswers, SameWorld
<1>3. page.wallet # None /\ call.of = page.wallet
  BY <1>1 DEF Own, Bare
<1>4. CallOf("balance", call.no, m).of = page.wallet
  BY DEF CallOf
<1>5. \A other \in calls' : other.of = page.wallet
  BY <1>1, <1>4 DEF Own
<1> DEFINE used == page.used \cup some
           moved == told.moved \/ m # page.derived
<1>6. /\ page' = [page EXCEPT !.used = used, !.derived = m, !.refreshing = again]
      /\ told' = [told EXCEPT !.moved = moved]
  BY <1>1
<1>7. page.used \subseteq used /\ \A at \in used \ page.used : at[1] = page.wallet
  BY <1>1, <1>3
<1> HIDE DEF used, moved
<1>8. /\ Shaped' /\ page'.wallet = page.wallet /\ page'.balance = page.balance
      /\ page'.funded = page.funded /\ page'.used = used /\ page'.snapshot = page.snapshot
      /\ page'.cached = page.cached /\ page'.rows = page.rows
      /\ page'.list = page.list /\ page'.ticked = page.ticked
      /\ page'.derived = m /\ page'.refreshing = again
      /\ told'.funded = told.funded /\ told'.half = told.half /\ told'.moved = moved
  BY <1>6 DEF Own, Shaped
<1>9. \/ again = page.refreshing /\ calls' = calls \ {call}
      \/ /\ page.refreshing # TRUE /\ again = TRUE
         /\ calls' = (calls \ {call}) \cup {CallOf("balance", call.no, m)}
  <2>1. CASE again = page.refreshing
    BY <1>1, <2>1
  <2>2. CASE again # page.refreshing
    BY <1>1, <2>2
  <2> QED
    BY <2>1, <2>2
<1>10. moved = (told.moved \/ m # page.derived)
  BY DEF moved
<1>11. call \in calls /\ m \in Derivations(page.funded \cup (page.used \cup some))
  BY <1>1
<1>12. \/ page'.refreshing = page.refreshing /\ calls' = calls \ {call}
       \/ /\ page.refreshing # TRUE /\ page'.refreshing = TRUE
          /\ calls' = (calls \ {call}) \cup {CallOf("balance", call.no, m)}
  BY <1>8, <1>9
<1> QED
  BY <1>2, <1>3, <1>5, <1>7, <1>8, <1>10, <1>11, <1>12

LEMMA ScanKept ==
  ASSUME Own, ScanAnswers
  PROVE  Own' /\ (Known /\ Minted => Known' /\ Minted')
<1>1. \A at \in page'.funded \cup page'.used : at[1] = page.wallet
  BY ScanEffect DEF Own, OwnShown
<1>2. \A c \in Range(page'.cached) \cup Range(page'.rows) : c.at[1] = page.wallet
  BY ScanEffect DEF Own, OwnShown
<1>3. Own'
  BY <1>1, <1>2, ScanEffect, OwnFrom
<1>4. ASSUME Known, Minted PROVE Known' /\ Minted'
  <2>1. Seen' = Seen
    BY ScanEffect DEF Seen
  <2>2. Known'
    BY <1>4, <2>1, ScanEffect DEF Known, SameWorld
  <2>3. Minted'
    BY <1>4, ScanEffect DEF Minted, SameWorld
  <2> QED
    BY <2>2, <2>3
<1> QED
  BY <1>3, <1>4

-----------------------------------------------------------------------------
(* The steps together. *)

\* What the user does at the desk.
AtDesk ==
  \/ Open \/ Sign \/ Scan \/ Finalize \/ Back
  \/ \E route \in {"bundle", "compact"} : Show(route)
Documents == CreateTicked \/ CreateSend \/ Consolidate \/ ConsolidateTicked

LEMMA AtDeskStill ==
  ASSUME AtDesk
  PROVE  UNCHANGED <<chain, born, page, calls, told>>
BY DEF AtDesk, Open, Show, Sign, Scan, Finalize, Back, Desk

\* Nothing new is asked for at the desk.
LEMMA AtDeskAsked ==
  ASSUME DeskShaped, AtDesk
  PROVE  DeskShaped' /\ desk'.asked \in {None, desk.asked}
<1>1. CASE Open
  <2>1. PICK doc \in Docs : desk' = [InitDesk EXCEPT !.review = doc, !.made = doc]
    BY <1>1 DEF Open
  <2> QED
    BY <2>1 DEF InitDesk, DeskShaped
<1>2. CASE Sign
  <2>1. PICK answer : desk' = [desk EXCEPT !.answer = answer]
    BY <1>2 DEF Sign
  <2> QED
    BY <2>1 DEF DeskShaped
<1>3. CASE Scan
  <2>1. PICK read : desk' = [desk EXCEPT !.review = read, !.answer = None, !.shown = None]
    BY <1>3 DEF Scan
  <2> QED
    BY <2>1 DEF DeskShaped
<1>4. CASE Finalize
  <2>1. PICK sent : desk' = [desk EXCEPT !.sent = sent]
    BY <1>4 DEF Finalize
  <2> QED
    BY <2>1 DEF DeskShaped
<1>5. CASE \E route \in {"bundle", "compact"} : Show(route)
  <2>1. PICK route : desk' = [desk EXCEPT !.shown = route, !.answer = None]
    BY <1>5 DEF Show
  <2> QED
    BY <2>1 DEF DeskShaped
<1>6. CASE Back
  BY <1>6 DEF Back, InitDesk, DeskShaped
<1> QED
  BY <1>1, <1>2, <1>3, <1>4, <1>5, <1>6 DEF AtDesk

\* Making a document asks for what is in it.
LEMMA MakeAsks ==
  ASSUME Own, NEW q, NEW asked, NEW to, NEW amount, NEW fee, NEW m,
         Make(q, asked, to, amount, fee, m)
  PROVE  /\ DeskShaped' /\ page'.derived = m
         /\ desk'.made.outs = Outputs(Range(q), to, amount, fee, NextIndex(m))
<1> DEFINE outs == Outputs(Range(q), to, amount, fee, NextIndex(m))
           ins  == [n \in DOMAIN q |-> Input(q[n])]
           want == [coins |-> asked, to |-> to, amount |-> amount]
<1>1. desk' = [InitDesk EXCEPT !.review = PlainDoc(ins, outs), !.made = PlainDoc(ins, outs),
                               !.asked = want]
  BY DEF Make
<1> HIDE DEF outs, ins, want
<1>2. PlainDoc(ins, outs).outs = outs
  BY DEF PlainDoc
<1>3. DeskShaped' /\ desk'.made = PlainDoc(ins, outs)
  BY <1>1 DEF InitDesk, DeskShaped
<1>4. page'.derived = m
  BY DEF Make, Own, Shaped
<1> QED
  BY <1>2, <1>3, <1>4 DEF outs

\* Every step keeps the page the wallet's.
LEMMA OwnStep ==
  ASSUME Quiet, Own, [Next]_vars
  PROVE  Own'
<1>1. CASE Arrives \/ Leaves
  BY <1>1, MovesKept
<1>2. CASE Import
  BY <1>2, ImportKept
<1>3. CASE Reset
  BY <1>3, ResetKept
<1>4. CASE StartRefresh \/ OpenSend \/ ShowUtxos
  BY <1>4, AskingKept
<1>5. CASE BalanceAnswers
  BY <1>5, BalanceOwn
<1>6. CASE BalanceFails \/ UtxosFail \/ ListFails
  BY <1>6, FailsKept
<1>7. CASE UtxosAnswer
  BY <1>7, UtxosOwn
<1>8. CASE ScanAnswers
  BY <1>8, ScanKept
<1>9. CASE SendAnswers \/ UtxosListAnswers
  BY <1>9, ListsKept
<1>10. CASE ShowRows \/ Tick
  BY <1>10, RowsKept
<1>11. CASE Documents
  BY <1>11, DocumentsMake, MakesKept DEF Documents
<1>12. CASE AtDesk
  BY <1>12, AtDeskStill, StillKept
<1>13. CASE UNCHANGED vars
  BY <1>13, StillKept DEF vars
<1>14. CASE Derives
  BY <1>14, DerivesKept
<1> QED
  BY <1>1, <1>2, <1>3, <1>4, <1>5, <1>6, <1>7, <1>8, <1>9, <1>10, <1>11, <1>12, <1>13, <1>14
     DEF Next, Documents, AtDesk

\* And knows the funded addresses as long as no coin leaves in the middle of a
\* refresh.
LEMMA KnownStep ==
  ASSUME NoBlink, Own, Known, Minted, Reached, [Next]_vars
  PROVE  Known' /\ Minted'
<1>0. Quiet
  BY DEF NoBlink
<1>1. ASSUME Aside PROVE Known' /\ Minted'
  BY <1>1, KnownMinted DEF Aside
<1>2. CASE Arrives
  BY <1>2, ArrivesKnown
<1>3. CASE Leaves
  BY <1>3, LeavesKnown
<1>4. CASE Import
  BY <1>1, <1>4, ImportKept
<1>5. CASE Reset
  BY <1>0, <1>5, ResetKept
<1>6. CASE StartRefresh \/ OpenSend \/ ShowUtxos
  BY <1>1, <1>6, AskingKept
<1>7. CASE BalanceAnswers
  BY <1>7, BalanceKnown
<1>8. CASE BalanceFails \/ UtxosFail \/ ListFails
  BY <1>1, <1>8, FailsKept
<1>9. CASE UtxosAnswer
  BY <1>9, UtxosKnown
<1>10. CASE ScanAnswers
  BY <1>10, ScanKept
<1>11. CASE SendAnswers \/ UtxosListAnswers
  BY <1>1, <1>11, ListsKept
<1>12. CASE ShowRows \/ Tick
  BY <1>1, <1>12, RowsKept
<1>13. CASE Documents
  BY <1>1, <1>13, DocumentsMake, MakesKept DEF Documents
<1>14. CASE AtDesk
  BY <1>1, <1>14, AtDeskStill, StillKept
<1>15. CASE UNCHANGED vars
  BY <1>1, <1>15, StillKept DEF vars
<1>16. CASE Derives
  BY <1>1, <1>16, DerivesKept
<1> QED
  BY <1>2, <1>3, <1>4, <1>5, <1>6, <1>7, <1>8, <1>9, <1>10, <1>11, <1>12, <1>13, <1>14, <1>15,
     <1>16
     DEF Next, Documents, AtDesk

\* More addresses are derived, never fewer.
LEMMA MoreDerived ==
  ASSUME Reached, NEW S, NEW m \in Derivations(S)
  PROVE  m \in Nat /\ page.derived <= m
BY PageAssumption DEF Reached, Derivations

\* A step after which a refresh asks as before, or none does.
LEMMA ReachedFrom ==
  ASSUME Reached, page'.derived \in Nat, page.derived <= page'.derived,
         page'.funded = page.funded, Seen' = Seen,
         \A call \in calls' :
           call \in calls \/ (call.kind \notin Asking /\ call.upto = page.derived),
         \/ page'.refreshing = page.refreshing
         \/ \A call \in calls' : call.kind \notin Asking
  PROVE  Reached'
<1>1. \A call \in calls' : call.upto \in Nat /\ call.upto <= page'.derived
  <2>1. \A call \in calls' : call.upto \in Nat /\ call.upto <= page.derived
    BY DEF Reached
  <2> QED
    BY <2>1 DEF Reached
<1>2. \A call \in calls' : call.kind \in Asking => call \in calls
  OBVIOUS
<1>3. \A at \in page.funded \cup At(Seen) : at[2] \in Nat /\ at[2] <= page'.derived
  BY DEF Reached
<1>4. \A one, two \in calls' : one.kind \in Asking /\ two.kind \in Asking => one = two
  BY <1>2 DEF Reached
<1>5. \A call \in calls' : call.kind \in Asking =>
        /\ page'.refreshing = TRUE
        /\ \A at \in page.funded \cup At(Seen) : at[2] <= call.upto
  BY <1>2 DEF Reached
<1> QED
  BY <1>1, <1>3, <1>4, <1>5 DEF Reached, At

\* The calls that follow one another in a refresh are about all addresses.
LEMMA CallMembers ==
  ASSUME NEW kind, NEW no, NEW n
  PROVE  /\ CallOf(kind, no, n).kind = kind /\ CallOf(kind, no, n).upto = n
         /\ Call(kind, no).kind = kind /\ Call(kind, no).upto = page.derived
BY DEF CallOf, Call

LEMMA FollowsCalls ==
  ASSUME NEW call, NEW kind, Follows(call, kind)
  PROVE  \A other \in calls' :
           \/ other \in calls /\ other # call
           \/ other.kind = kind /\ other.upto = page.derived
BY CallMembers DEF Follows

\* Addresses asked about are among those derived, and all that are known are
\* asked about.
LEMMA AnswersReached ==
  ASSUME Own, chain \subseteq Coins, Reached, BalanceAnswers \/ UtxosAnswer
  PROVE  Reached'
<1>0. Asking = {"balance", "utxos"} /\ "scan" \notin Asking
  BY DEF Asking
<1>1. ASSUME NEW call \in calls, NEW n \in Reach(call), NEW w
      PROVE  \A at \in At(CoinsOf(w, n)) : at[2] \in Nat /\ at[2] <= page.derived
  <2>1. CoinsOf(w, n) \subseteq Coins
    BY CoinsAt
  <2>2. \A at \in At(CoinsOf(w, n)) : at[2] \in Nat
    BY <2>1, PageAssumption DEF At
  <2>3. \A at \in At(CoinsOf(w, n)) : at[2] <= n
    BY CoinsAt
  <2>4. n \in Nat /\ n <= page.derived /\ page.derived \in Nat
    BY Reaches DEF Reached
  <2> QED
    BY <2>2, <2>3, <2>4
<1>2. CASE BalanceAnswers
  <2>1. PICK call, n :
          /\ call \in calls /\ n \in Reach(call)
          /\ call.kind = "balance" /\ Follows(call, "utxos")
          /\ page'.funded = At(CoinsOf(page.wallet, n))
    BY <1>2, BalanceEffect
  <2>2. page'.derived = page.derived /\ page'.refreshing = TRUE /\ Seen' = Seen
    BY <1>2, BalanceEffect DEF Seen
  <2>3. \A at \in page'.funded \cup At(Seen) : at[2] \in Nat /\ at[2] <= page.derived
    BY <1>1, <2>1 DEF Reached
  <2>4. \A other \in calls' :
          \/ other \in calls /\ other.kind \notin Asking
          \/ other.kind = "utxos" /\ other.upto = page.derived
    BY <1>0, <2>1, FollowsCalls DEF Reached
  <2>5. \A one, two \in calls' : one.kind \in Asking /\ two.kind \in Asking => one = two
    <3>1. \A no, on : no \in {call.no} /\ on \in {call.no} => Call("utxos", no) = Call("utxos", on)
      OBVIOUS
    <3>2. PICK nos : /\ nos \subseteq {call.no}
                     /\ calls' = (calls \ {call}) \cup {Call("utxos", no) : no \in nos}
      BY <2>1 DEF Follows
    <3>3. \A other \in calls \ {call} : other.kind \notin Asking
      BY <1>0, <2>1 DEF Reached
    <3> QED
      BY <3>1, <3>2, <3>3
  <2>6. \A other \in calls' : other.upto \in Nat /\ other.upto <= page.derived
    BY <2>4 DEF Reached
  <2>7. \A other \in calls' : other.kind \in Asking =>
          \A at \in page'.funded \cup At(Seen) : at[2] <= other.upto
    BY <2>3, <2>4
  <2> QED
    BY <2>2, <2>3, <2>5, <2>6, <2>7 DEF Reached, At
<1>3. CASE UtxosAnswer
  <2>1. PICK call, n :
          /\ call \in calls /\ n \in Reach(call)
          /\ call.kind = "utxos" /\ Follows(call, "scan")
          /\ page'.snapshot = CoinsOf(page.wallet, n)
    BY <1>3, UtxosEffect
  <2>2. page'.derived = page.derived /\ page'.funded = page.funded
    BY <1>3, UtxosEffect
  <2>3. Seen' \subseteq CoinsOf(page.wallet, n)
    BY <2>1 DEF Seen
  <2>4. At(Seen)' \subseteq At(CoinsOf(page.wallet, n))
    BY <2>3 DEF At
  <2>5. \A at \in page'.funded \cup At(Seen)' : at[2] \in Nat /\ at[2] <= page.derived
    BY <1>1, <2>1, <2>2, <2>4 DEF Reached
  <2>6. \A other \in calls' :
          /\ other.kind \notin Asking
          /\ other \in calls \/ other.upto = page.derived
    BY <1>0, <2>1, FollowsCalls DEF Reached
  <2>7. \A other \in calls' : other.upto \in Nat /\ other.upto <= page.derived
    BY <2>6 DEF Reached
  <2> QED
    BY <2>2, <2>5, <2>6, <2>7 DEF Reached
<1> QED
  BY <1>2, <1>3

LEMMA ScanReached ==
  ASSUME Own, Reached, ScanAnswers
  PROVE  Reached'
<1>1. PICK call, S, m :
        /\ call \in calls /\ m \in Derivations(S)
        /\ page'.derived = m
        /\ \/ page'.refreshing = page.refreshing /\ calls' = calls \ {call}
           \/ /\ page.refreshing # TRUE /\ page'.refreshing = TRUE
              /\ calls' = (calls \ {call}) \cup {CallOf("balance", call.no, m)}
  BY ScanEffect
<1>2. page'.funded = page.funded /\ Seen' = Seen
  BY ScanEffect DEF Seen
<1>3. m \in Nat /\ page.derived <= m
  BY <1>1, MoreDerived
<1>4. CASE page'.refreshing = page.refreshing /\ calls' = calls \ {call}
  BY <1>1, <1>2, <1>3, <1>4, ReachedFrom
<1>5. CASE /\ page.refreshing # TRUE /\ page'.refreshing = TRUE
           /\ calls' = (calls \ {call}) \cup {CallOf("balance", call.no, m)}
  <2> DEFINE new == CallOf("balance", call.no, m)
  <2>1. new.kind = "balance" /\ new.upto = m
    BY CallMembers
  <2>2. \A other \in calls : other.kind \notin Asking
    BY <1>5 DEF Reached
  <2>3. \A at \in page.funded \cup At(Seen) : at[2] \in Nat /\ at[2] <= m
    BY <1>3 DEF Reached
  <2> HIDE DEF new
  <2>4. \A other \in calls' : other = new \/ (other \in calls /\ other.kind \notin Asking)
    BY <1>5, <2>2 DEF new
  <2>5. \A other \in calls' : other.upto \in Nat /\ other.upto <= m
    BY <1>3, <2>1, <2>4 DEF Reached
  <2>6. \A other \in calls' : other.kind \in Asking =>
          \A at \in page.funded \cup At(Seen) : at[2] <= other.upto
    BY <2>1, <2>3, <2>4
  <2>7. \A one, two \in calls' : one.kind \in Asking /\ two.kind \in Asking => one = two
    BY <2>4
  <2> QED
    BY <1>1, <1>2, <1>3, <1>5, <2>3, <2>5, <2>6, <2>7 DEF Reached, At
<1> QED
  BY <1>1, <1>4, <1>5

LEMMA AskReached ==
  ASSUME Own, Reached, StartRefresh \/ OpenSend \/ ShowUtxos
  PROVE  Reached'
<1>1. PICK kind, no : /\ calls' = calls \cup {Call(kind, no)}
                      /\ \/ kind = "balance" /\ StartRefresh
                         \/ kind \in {"send", "utxos list"} /\ (OpenSend \/ ShowUtxos)
  BY DEF StartRefresh, OpenSend, ShowUtxos, Ask
<1>2. Call(kind, no).kind = kind /\ Call(kind, no).upto = page.derived
  BY CallMembers
<1>3. page'.derived = page.derived /\ page'.funded = page.funded /\ Seen' = Seen
  <2>1. CASE StartRefresh
    BY <2>1 DEF StartRefresh, Own, Shaped, Seen
  <2>2. CASE OpenSend
    BY <2>2 DEF OpenSend, Own, Shaped, Seen
  <2>3. CASE ShowUtxos
    BY <2>3 DEF ShowUtxos, Own, Shaped, Seen
  <2> QED
    BY <2>1, <2>2, <2>3
<1>4. page.derived \in Nat
  BY DEF Reached
<1>5. CASE kind = "balance" /\ StartRefresh
  <2>1. page.refreshing # TRUE /\ page'.refreshing = TRUE
    BY <1>5 DEF StartRefresh, Own, Shaped
  <2>2. \A other \in calls : other.kind \notin Asking
    BY <2>1 DEF Reached
  <2> DEFINE new == Call(kind, no)
  <2> HIDE DEF new
  <2>3. \A other \in calls' : other = new \/ (other \in calls /\ other.kind \notin Asking)
    BY <1>1, <2>2 DEF new
  <2>4. new.kind = "balance" /\ new.upto = page.derived
    BY <1>2, <1>5 DEF new
  <2>5. \A other \in calls' : other.upto \in Nat /\ other.upto <= page.derived
    BY <1>4, <2>3, <2>4 DEF Reached
  <2>6. \A other \in calls' : other.kind \in Asking =>
          \A at \in page.funded \cup At(Seen) : at[2] <= other.upto
    BY <2>3, <2>4 DEF Reached
  <2>7. \A one, two \in calls' : one.kind \in Asking /\ two.kind \in Asking => one = two
    BY <2>3
  <2> QED
    BY <1>3, <2>1, <2>5, <2>6, <2>7 DEF Reached, At
<1>6. CASE kind \in {"send", "utxos list"} /\ (OpenSend \/ ShowUtxos)
  <2>1. page'.refreshing = page.refreshing
    BY <1>6 DEF OpenSend, ShowUtxos, Own, Shaped
  <2>2. kind \notin Asking
    BY <1>6 DEF Asking
  <2>3. \A call \in calls' :
          call \in calls \/ (call.kind \notin Asking /\ call.upto = page.derived)
    BY <1>1, <1>2, <2>2
  <2> QED
    BY <1>3, <1>4, <2>1, <2>3, ReachedFrom
<1> QED
  BY <1>1, <1>5, <1>6

LEMMA FailsReached ==
  ASSUME Own, Reached, BalanceFails \/ UtxosFail \/ ListFails
  PROVE  Reached'
<1>0. "balance" \in Asking /\ "utxos" \in Asking /\ "scan" \notin Asking
  BY DEF Asking
<1>1. page'.derived = page.derived /\ page'.funded = page.funded /\ Seen' = Seen
  <2>1. CASE BalanceFails
    <3>1. page' = [page EXCEPT !.balance = None, !.refreshing = FALSE]
      BY <2>1 DEF BalanceFails
    <3> QED
      BY <3>1 DEF Own, Shaped, Seen
  <2>2. CASE UtxosFail
    BY <2>2 DEF UtxosFail, Own, Shaped, Seen
  <2>3. CASE ListFails
    BY <2>3 DEF ListFails, Seen
  <2> QED
    BY <2>1, <2>2, <2>3
<1>2. page.derived \in Nat
  BY DEF Reached
<1>3. CASE BalanceFails
  <2>1. PICK call \in calls : call.kind = "balance" /\ calls' = calls \ {call}
    BY <1>3 DEF BalanceFails, Answered
  <2>2. \A other \in calls' : other \in calls /\ other.kind \notin Asking
    BY <1>0, <2>1 DEF Reached
  <2> QED
    BY <1>1, <1>2, <2>2, ReachedFrom
<1>4. CASE UtxosFail
  <2>1. PICK call \in calls : call.kind = "utxos" /\ Follows(call, "scan")
    BY <1>4 DEF UtxosFail
  <2>2. \A other \in calls' :
          /\ other.kind \notin Asking
          /\ other \in calls \/ other.upto = page.derived
    BY <1>0, <2>1, FollowsCalls DEF Reached
  <2> QED
    BY <1>1, <1>2, <2>2, ReachedFrom
<1>5. CASE ListFails
  <2>1. calls' \subseteq calls /\ page' = page
    BY <1>5 DEF ListFails
  <2> QED
    BY <1>1, <1>2, <2>1, ReachedFrom
<1> QED
  BY <1>3, <1>4, <1>5

LEMMA ReachedStep ==
  ASSUME Quiet, Own, chain \subseteq Coins, Reached, [Next]_vars
  PROVE  Reached'
<1>1. CASE BalanceAnswers \/ UtxosAnswer
  BY <1>1, AnswersReached
<1>2. CASE ScanAnswers
  BY <1>2, ScanReached
<1>3. CASE StartRefresh \/ OpenSend \/ ShowUtxos
  BY <1>3, AskReached
<1>4. CASE BalanceFails \/ UtxosFail \/ ListFails
  BY <1>4, FailsReached
<1>5. CASE Reset
  <2>1. calls' = {}
    BY <1>5 DEF Reset, Quiet
  <2>2. page' = InitPage(page.refreshing)
    BY <1>5 DEF Reset
  <2>3. page'.derived = Given /\ page'.funded = {} /\ Seen' = {}
    BY <2>2 DEF InitPage, Seen
  <2>4. At(Seen)' = {}
    BY <2>3 DEF At
  <2> QED
    BY <2>1, <2>3, <2>4, PageAssumption DEF Reached
<1>6. CASE Import
  <2>1. PICK w \in Wallets : page' = [page EXCEPT !.wallet = w, !.refreshing = FALSE]
    BY <1>6 DEF Import
  <2>2. page'.derived = page.derived /\ page'.funded = page.funded /\ Seen' = Seen
    BY <2>1 DEF Own, Shaped, Seen
  <2>3. calls' = {}
    BY <1>6 DEF Import, Own, Bare
  <2>4. page.derived \in Nat
    BY DEF Reached
  <2> QED
    BY <2>2, <2>3, <2>4, ReachedFrom
<1>7. CASE Derives \/ Documents
  <2>1. PICK S, m :
          /\ m \in Derivations(S)
          /\ \/ page' = [page EXCEPT !.derived = m]
             \/ page' = [page EXCEPT !.list = None, !.derived = m]
    BY <1>7, DocumentsMake DEF Derives, Documents, Makes, Deriving
  <2>2. /\ page'.derived = m /\ page'.funded = page.funded /\ Seen' = Seen
        /\ page'.refreshing = page.refreshing
    BY <2>1 DEF Own, Shaped, Seen
  <2>3. calls' = calls
    BY <1>7, DocumentsMake DEF Derives, Documents, Makes
  <2>4. m \in Nat /\ page.derived <= m
    BY <2>1, MoreDerived
  <2> QED
    BY <2>2, <2>3, <2>4, ReachedFrom
<1>8. CASE SendAnswers \/ UtxosListAnswers \/ ShowRows \/ Tick
  <2>1. /\ page'.derived = page.derived /\ page'.funded = page.funded /\ Seen' = Seen
        /\ page'.refreshing = page.refreshing
    <3>1. CASE SendAnswers
      <4>1. PICK q : page' = [page EXCEPT !.cached = q]
        BY <3>1 DEF SendAnswers
      <4> QED
        BY <4>1 DEF Own, Shaped, Seen
    <3>2. CASE UtxosListAnswers
      <4>1. PICK q : page' = [page EXCEPT !.cached = q, !.rows = q, !.list = "utxos"]
        BY <3>2 DEF UtxosListAnswers
      <4> QED
        BY <4>1 DEF Own, Shaped, Seen
    <3>3. CASE ShowRows
      BY <3>3 DEF ShowRows, Own, Shaped, Seen
    <3>4. CASE Tick
      <4>1. PICK i : page' = [page EXCEPT !.ticked = @ \cup {i}]
        BY <3>4 DEF Tick
      <4> QED
        BY <4>1 DEF Own, Shaped, Seen
    <3> QED
      BY <1>8, <3>1, <3>2, <3>3, <3>4
  <2>2. calls' \subseteq calls
    BY <1>8 DEF SendAnswers, UtxosListAnswers, ShowRows, Tick, Answered
  <2>3. page.derived \in Nat
    BY DEF Reached
  <2> QED
    BY <2>1, <2>2, <2>3, ReachedFrom
<1>9. CASE Arrives \/ Leaves \/ AtDesk \/ UNCHANGED vars
  <2>1. page' = page /\ calls' = calls
    BY <1>9, AtDeskStill DEF Arrives, Leaves, Moves, vars
  <2>2. Seen' = Seen
    BY <2>1 DEF Seen
  <2>3. page.derived \in Nat
    BY DEF Reached
  <2> QED
    BY <2>1, <2>2, <2>3, ReachedFrom
<1> QED
  BY <1>1, <1>2, <1>3, <1>4, <1>5, <1>6, <1>7, <1>8, <1>9 DEF Next, Documents, AtDesk

\* A step that asks for something makes a document of it.
LEMMA DeskStep ==
  ASSUME Own, DeskShaped, [Next]_vars
  PROVE  /\ DeskShaped'
         /\ \/ desk'.asked \in {None, desk.asked}
            \/ /\ Documents /\ Makes /\ Settled
               /\ \E coins, to, amount, fee :
                    desk'.made.outs = Outputs(coins, to, amount, fee, NextIndex(page'.derived))
<1>1. CASE UNCHANGED desk
  BY <1>1 DEF DeskShaped
<1>2. CASE Reset
  BY <1>2 DEF Reset, InitDesk, DeskShaped
<1>3. CASE AtDesk
  BY <1>3, AtDeskAsked
<1>4. CASE Documents
  <2>1. PICK q, asked, to, amount, fee, m : Make(q, asked, to, amount, fee, m)
    BY <1>4, DocumentsMake DEF Documents
  <2>2. /\ DeskShaped'
        /\ desk'.made.outs = Outputs(Range(q), to, amount, fee, NextIndex(page'.derived))
    BY <2>1, MakeAsks
  <2>3. Makes /\ Settled
    BY <1>4, DocumentsMake DEF Documents
  <2> QED
    BY <1>4, <2>2, <2>3
<1>5. CASE Arrives \/ Leaves
  BY <1>1, <1>5 DEF Arrives, Leaves, Moves
<1>6. CASE Import \/ StartRefresh \/ BalanceAnswers \/ BalanceFails \/ UtxosAnswer
  BY <1>1, <1>6 DEF Import, StartRefresh, BalanceAnswers, BalanceFails, UtxosAnswer
<1>7. CASE UtxosFail \/ ScanAnswers \/ Derives \/ OpenSend \/ ShowUtxos \/ SendAnswers
  BY <1>1, <1>7 DEF UtxosFail, ScanAnswers, Derives, OpenSend, ShowUtxos, SendAnswers
<1>8. CASE UtxosListAnswers \/ ListFails \/ ShowRows \/ Tick
  BY <1>1, <1>8 DEF UtxosListAnswers, ListFails, ShowRows, Tick
<1>9. CASE UNCHANGED vars
  BY <1>1, <1>9 DEF vars
<1> QED
  BY <1>2, <1>3, <1>4, <1>5, <1>6, <1>7, <1>8, <1>9 DEF Next, Documents, AtDesk

\* Whatever the page shows or files is of the wallet it holds, when a wallet is
\* only left with no call under way.
THEOREM ShownIsOwn ==
  ASSUME "switch in flight" \notin Detours
  PROVE  Spec => []OwnShown
<1>1. Quiet
  BY DEF Quiet
<1>2. Init => Own
  BY InitStraight DEF Straight
<1>3. Own /\ [Next]_vars => Own'
  BY <1>1, OwnStep
<1>4. Own => OwnShown
  BY DEF Own
<1> QED
  BY <1>2, <1>3, <1>4, PTL DEF Spec

\* If besides no coin leaves in the middle of a refresh, an address a refresh
\* once showed as funded is remembered, as funded, as used, or by the coins
\* last seen (Known), as a refresh asks about them all (Reached).
THEOREM PageInvariant ==
  ASSUME {"switch in flight", "blink"} \cap Detours = {}
  PROVE  Spec => []Straight
<1>1. Quiet /\ NoBlink
  BY DEF Quiet, NoBlink
<1>2. Init => Straight
  BY InitStraight
<1>3. Straight /\ [Next]_vars => Straight'
  <2>1. Straight => chain \subseteq Coins
    BY DEF Straight, Known, Minted
  <2> QED
    BY <1>1, <2>1, OwnStep, KnownStep, ReachedStep, DeskStep DEF Straight
<1> QED
  BY <1>2, <1>3, PTL DEF Spec

\* The change of a document never goes to an address a refresh has shown as
\* funded, even if the coin there has left since, unless not one of the addresses
\* derived is free, and then it goes to the last: for any wallets, coins and
\* ceiling, if a wallet is left with no call under way, no coin leaves in the
\* middle of a refresh, and no document is made there.
THEOREM ChangeIsFresh ==
  ASSUME {"switch in flight", "blink", "half refresh"} \cap Detours = {}
  PROVE  Spec => FreshChange
<1> DEFINE fresh == \A n \in 2..Len(desk'.made.outs) :
                      \/ desk'.made.outs[n].to \notin told.funded
                      \/ Exhausted' /\ desk'.made.outs[n].to[2] = page'.derived
<1>1. ASSUME Straight, [Next]_vars, desk.asked = None, desk'.asked # None PROVE fresh
  <2>1. /\ Settled /\ Makes
        /\ \E coins, to, amount, fee :
             desk'.made.outs = Outputs(coins, to, amount, fee, NextIndex(page'.derived))
    BY <1>1, DeskStep DEF Straight
  <2> DEFINE m == page'.derived
  <2>2. PICK coins, to, amount, fee, next :
          /\ next = NextIndex(m)
          /\ desk'.made.outs = Outputs(coins, to, amount, fee, next)
    BY <2>1
  <2>3. ComesBack(Outputs(coins, to, amount, fee, next), next)
    BY ChangeGoes
  <2>4. told.funded \subseteq page.funded \cup page.used
    BY <1>1, <2>1 DEF Straight, Known, Settled
  <2> HIDE DEF m
  <2>5. ASSUME NEW n \in 2..Len(desk'.made.outs)
        PROVE  desk'.made.outs[n].to = <<page.wallet, NextIndex(m)>>
    BY <2>2, <2>3 DEF ComesBack
  <2>6. CASE NextIndex(m) \notin Skipped
    <3>1. \A at \in told.funded : at[2] # NextIndex(m)
      BY <2>4, <2>6 DEF Skipped, Indices
    <3>2. <<page.wallet, NextIndex(m)>> \notin told.funded
      BY <3>1
    <3> QED
      BY <2>5, <3>2
  <2>7. CASE 1..m \subseteq Skipped /\ NextIndex(m) = m
    <3>1. SamePage
      BY <1>1, <2>1, MakesKept DEF Straight, Aside
    <3>2. Skipped' = Skipped
      BY <3>1 DEF SamePage, Skipped, Indices
    <3>3. Exhausted'
      BY <2>7, <3>2 DEF Exhausted, m
    <3>4. <<page.wallet, NextIndex(m)>>[2] = m
      BY <2>7
    <3> QED
      BY <2>5, <3>3, <3>4 DEF m
  <2> QED
    BY <2>6, <2>7, NextIsFresh
<1>2. Straight /\ [Next]_vars => [desk.asked = None /\ desk'.asked # None => fresh]_vars
  BY <1>1
<1> HIDE DEF fresh
<1>3. Spec => []Straight
  BY PageInvariant
<1>4. Spec => [][desk.asked = None /\ desk'.asked # None => fresh]_vars
  BY <1>2, <1>3, PTL DEF Spec
<1> QED
  BY <1>4 DEF fresh, FreshChange

-----------------------------------------------------------------------------
(* Documents. *)

\* A document has its members, and at least one input.
Formed(doc) ==
  /\ doc = [full |-> doc.full, version |-> doc.version, lane |-> doc.lane,
            payload |-> doc.payload, branch |-> doc.branch, ins |-> doc.ins, outs |-> doc.outs]
  /\ \E n \in Nat \ {0} : DOMAIN doc.ins = 1 .. n
  /\ \A n \in DOMAIN doc.ins :
       /\ doc.ins[n] = [coin |-> doc.ins[n].coin, seq |-> doc.ins[n].seq, wait |-> doc.ins[n].wait,
                        need |-> doc.ins[n].need, tweak |-> doc.ins[n].tweak,
                        hint |-> doc.ins[n].hint, sigs |-> doc.ins[n].sigs]
       /\ doc.ins[n].wait \in Nat

\* What the scripts of its coins want but a signature, it has; a document the
\* bundle's reader takes needs a signature of every input and no branch.
Meets(doc) ==
  /\ \A n \in DOMAIN doc.ins :
       LET in == doc.ins[n]
       IN /\ in.need \in {0, 1}
          /\ in.coin.wants = "nothing" <=> in.need = 0
          /\ in.coin.wants = "rest" => in.seq >= 1
          /\ in.coin.wants = "time" => LockTime(doc) >= 1
          /\ in.coin.wants = "beat" => doc.branch = "oracle-heartbeat"
          /\ doc.full => in.coin.wants \notin {"nothing", "beat"}
  /\ doc.full /\ doc.payload = None => doc.lane = "native"

Unsigned(doc) == \A n \in DOMAIN doc.ins : doc.ins[n].sigs = {}

WellMade(doc) == Formed(doc) /\ Meets(doc) /\ Unsigned(doc)

\* A document on its way still says what the page made, and every signature in
\* it is over that, by the key its coin wants.
Carries(doc, made) ==
  /\ Formed(doc) /\ Meets(doc) /\ Tx(doc) = Tx(made) /\ doc.full = made.full
  /\ \A n \in DOMAIN doc.ins : \A s \in doc.ins[n].sigs :
       s.of = Digest(Tx(made), n) /\ s.key = Wanted(doc.ins[n].coin)

LEMMA MadeCarries ==
  ASSUME NEW doc, WellMade(doc)
  PROVE  Carries(doc, doc)
BY DEF WellMade, Unsigned, Carries

\* The lock time is a number of one of the inputs.
LEMMA LockIn ==
  ASSUME NEW doc, Formed(doc)
  PROVE  /\ LockTime(doc) \in Nat
         /\ \A n \in DOMAIN doc.ins : doc.ins[n].wait <= LockTime(doc)
<1> DEFINE f == [n \in DOMAIN doc.ins |-> doc.ins[n].wait]
           T == {doc.ins[n].wait : n \in DOMAIN doc.ins}
<1>1. PICK n \in Nat \ {0} : DOMAIN doc.ins = 1 .. n
  BY DEF Formed
<1>2. \A k \in 1 .. n : f[k] \in Nat
  BY <1>1 DEF Formed
<1>3. PICK b \in Nat : \A k \in 1 .. n : f[k] <= b
  <2> HIDE DEF f
  <2> QED
    BY <1>2, Bounded
<1>4. T \subseteq Nat /\ T # {} /\ \A y \in T : y <= b
  <2>1. 1 \in DOMAIN doc.ins
    BY <1>1
  <2>2. \A y \in T : y \in Nat
    BY DEF Formed
  <2>3. \A y \in T : y <= b
    BY <1>1, <1>3
  <2>4. doc.ins[1].wait \in T
    BY <2>1
  <2> HIDE DEF T
  <2> QED
    BY <2>2, <2>3, <2>4
<1>5. Max(T) \in T /\ \A y \in T : y <= Max(T)
  <2> HIDE DEF T
  <2> QED
    BY <1>4, MaxIn
<1> QED
  BY <1>4, <1>5 DEF LockTime

\* A signature over what the compact wire says is a signature over the
\* transaction; so is one over the bundle, but for lane and payload.
LEMMA SameDigest ==
  ASSUME NEW doc, NEW n
  PROVE  /\ Digest(FromCompact(Relay(doc)), n) = Digest(Tx(doc), n)
         /\ doc.lane = "native" /\ doc.payload = None =>
              Digest(FromBundle(doc), n) = Digest(Tx(doc), n)
<1> DEFINE there == FromCompact(Relay(doc))
<1>1. /\ there.version = Tx(doc).version /\ there.lock = Tx(doc).lock
      /\ there.lane = Tx(doc).lane /\ there.payload = Tx(doc).payload
  BY DEF FromCompact, Relay, Tx
<1>2. there.ins = Tx(doc).ins
  BY DEF FromCompact, Relay, Tx, WireInput
<1>3. there.outs = Tx(doc).outs
  BY DEF FromCompact, Relay, Tx, WireOutput, BindTrailer
<1>4. ASSUME doc.lane = "native", doc.payload = None
      PROVE  FromBundle(doc) = Tx(doc)
  <2>1. Tx(doc).lane = "native" /\ Tx(doc).payload = None
    BY <1>4 DEF Tx
  <2>2. Tx(doc) = [version |-> Tx(doc).version, lock |-> Tx(doc).lock, lane |-> Tx(doc).lane,
                   payload |-> Tx(doc).payload, ins |-> Tx(doc).ins, outs |-> Tx(doc).outs,
                   tweak |-> Tx(doc).tweak]
    BY DEF Tx
  <2> QED
    BY <2>1, <2>2, Zenon DEF FromBundle
<1> HIDE DEF there
<1>5. Digest(there, n) = Digest(Tx(doc), n)
  BY <1>1, <1>2, <1>3 DEF Digest
<1> QED
  BY <1>4, <1>5 DEF there

\* The signer signs by the key a coin wants.
LEMMA SignedBy ==
  ASSUME NEW tx, NEW n \in DOMAIN tx.ins, NEW s \in Signatures(tx)[n]
  PROVE  s.of = Digest(tx, n) /\ s.key = Wanted(tx.ins[n].coin)
BY DEF Signatures, Signable

\* The signatures of an answer are over what the page made.
LEMMA SignsMade ==
  ASSUME NEW doc, NEW made, Carries(doc, made), NEW route,
         route = "bundle" => doc.lane = "native" /\ doc.payload = None,
         NEW n \in DOMAIN doc.ins, NEW s \in Signatures(Read(doc, route))[n]
  PROVE  s.of = Digest(Tx(made), n) /\ s.key = Wanted(doc.ins[n].coin)
<1> DEFINE tx == Read(doc, route)
<1>1. DOMAIN tx.ins = DOMAIN doc.ins /\ tx.ins[n].coin = doc.ins[n].coin
  BY DEF Read, FromBundle, FromCompact, Relay, Tx, WireInput
<1>2. Digest(tx, n) = Digest(Tx(doc), n)
  BY SameDigest DEF Read
<1>3. Tx(doc) = Tx(made)
  BY DEF Carries
<1> HIDE DEF tx
<1>4. s \in Signatures(tx)[n]
  BY DEF tx
<1> QED
  BY <1>1, <1>2, <1>3, <1>4, SignedBy

\* What becomes of an input in an answer.
LEMMA InputSigned ==
  ASSUME NEW in, NEW wait, NEW need, NEW sigs,
         in = [coin |-> in.coin, seq |-> in.seq, wait |-> in.wait, need |-> in.need,
               tweak |-> in.tweak, hint |-> in.hint, sigs |-> in.sigs]
  PROVE  /\ [in EXCEPT !.sigs = @ \cup sigs] =
              [coin |-> in.coin, seq |-> in.seq, wait |-> in.wait, need |-> in.need,
               tweak |-> in.tweak, hint |-> in.hint, sigs |-> in.sigs \cup sigs]
         /\ [in EXCEPT !.wait = wait, !.need = need, !.sigs = @ \cup sigs] =
              [coin |-> in.coin, seq |-> in.seq, wait |-> wait, need |-> need,
               tweak |-> in.tweak, hint |-> in.hint, sigs |-> in.sigs \cup sigs]
<1> DEFINE r == [coin |-> in.coin, seq |-> in.seq, wait |-> in.wait, need |-> in.need,
                 tweak |-> in.tweak, hint |-> in.hint, sigs |-> in.sigs]
<1>1. [r EXCEPT !.sigs = @ \cup sigs] =
        [coin |-> in.coin, seq |-> in.seq, wait |-> in.wait, need |-> in.need,
         tweak |-> in.tweak, hint |-> in.hint, sigs |-> in.sigs \cup sigs]
  OBVIOUS
<1>2. [in EXCEPT !.wait = wait, !.need = need, !.sigs = @ \cup sigs] =
        [coin |-> in.coin, seq |-> in.seq, wait |-> wait, need |-> need,
         tweak |-> in.tweak, hint |-> in.hint, sigs |-> in.sigs \cup sigs]
  <2> DEFINE c == in.coin  q == in.seq  w == in.wait  d == in.need  t == in.tweak
             h == in.hint  g == in.sigs  all == in.sigs \cup sigs
  <2>1. in = [coin |-> c, seq |-> q, wait |-> w, need |-> d, tweak |-> t, hint |-> h, sigs |-> g]
    OBVIOUS
  <2> HIDE DEF c, q, w, d, t, h, g, all
  <2>2. [in EXCEPT !.wait = wait, !.need = need, !.sigs = all] =
          [coin |-> c, seq |-> q, wait |-> wait, need |-> need, tweak |-> t, hint |-> h,
           sigs |-> all]
    <3> DEFINE one == [in EXCEPT !.wait = wait]
               two == [one EXCEPT !.need = need]
               three == [two EXCEPT !.sigs = all]
    <3>1. one = [coin |-> c, seq |-> q, wait |-> wait, need |-> d, tweak |-> t, hint |-> h,
                 sigs |-> g]
      BY <2>1
    <3>2. [in EXCEPT !.wait = wait, !.need = need, !.sigs = all] = three
      OBVIOUS
    <3> HIDE DEF one
    <3>3. two = [coin |-> c, seq |-> q, wait |-> wait, need |-> need, tweak |-> t, hint |-> h,
                 sigs |-> g]
      BY <3>1
    <3> HIDE DEF two
    <3>4. three = [coin |-> c, seq |-> q, wait |-> wait, need |-> need, tweak |-> t,
                   hint |-> h, sigs |-> all]
      BY <3>3
    <3> QED
      BY <3>2, <3>4
  <2> QED
    BY <2>2 DEF c, q, t, h, all
<1>3. in = r
  OBVIOUS
<1> HIDE DEF r
<1> QED
  BY <1>1, <1>2, <1>3, Zenon

\* Signatures over what the page made, by the keys the coins want.
SignsFor(doc, made, sigs) ==
  \A n \in DOMAIN doc.ins : \A s \in sigs[n] :
    s.of = Digest(Tx(made), n) /\ s.key = Wanted(doc.ins[n].coin)

\* An answer has the outputs, coins and sequence numbers of the document, its
\* lock time, and more signatures.
Adds(doc, new, ins, branch, sigs) ==
  /\ new = [full |-> doc.full, version |-> doc.version, lane |-> doc.lane,
            payload |-> doc.payload, branch |-> branch, ins |-> ins, outs |-> doc.outs]
  /\ doc.full \/ branch = doc.branch
  /\ ins = [n \in DOMAIN doc.ins |-> ins[n]]
  /\ \A n \in DOMAIN doc.ins :
       /\ ins[n] = [coin |-> doc.ins[n].coin, seq |-> doc.ins[n].seq,
                    wait |-> ins[n].wait, need |-> ins[n].need,
                    tweak |-> doc.ins[n].tweak, hint |-> doc.ins[n].hint,
                    sigs |-> doc.ins[n].sigs \cup sigs[n]]
       /\ ins[n].wait \in Nat
       /\ (ins[n].need = doc.ins[n].need \/ (doc.full /\ ins[n].need = 1))
  /\ \/ {ins[n].wait : n \in DOMAIN doc.ins} = {doc.ins[n].wait : n \in DOMAIN doc.ins}
     \/ {ins[n].wait : n \in DOMAIN doc.ins} = {LockTime(doc)}

\* Such an answer carries what the document carries.
LEMMA SignedCarries ==
  ASSUME NEW doc, NEW made, Carries(doc, made), NEW branch, NEW ins, NEW sigs, NEW new,
         SignsFor(doc, made, sigs), Adds(doc, new, ins, branch, sigs)
  PROVE  Carries(new, made)
<1> USE DEF Adds
<1>1. DOMAIN ins = DOMAIN doc.ins
  BY Zenon
<1>2. /\ new.ins = ins /\ new.outs = doc.outs /\ new.full = doc.full /\ new.lane = doc.lane
      /\ new.payload = doc.payload /\ new.version = doc.version /\ new.branch = branch
  OBVIOUS
<1>3. ASSUME NEW n \in DOMAIN doc.ins
      PROVE  /\ ins[n].coin = doc.ins[n].coin /\ ins[n].seq = doc.ins[n].seq
             /\ ins[n].tweak = doc.ins[n].tweak /\ ins[n].hint = doc.ins[n].hint
             /\ ins[n].sigs = doc.ins[n].sigs \cup sigs[n]
             /\ ins[n].wait \in Nat
             /\ (ins[n].need = doc.ins[n].need \/ (doc.full /\ ins[n].need = 1))
  <2> DEFINE in == ins[n]
  <2>1. in = [coin |-> doc.ins[n].coin, seq |-> doc.ins[n].seq,
              wait |-> in.wait, need |-> in.need,
              tweak |-> doc.ins[n].tweak, hint |-> doc.ins[n].hint,
              sigs |-> doc.ins[n].sigs \cup sigs[n]]
    BY Zenon
  <2> HIDE DEF in
  <2>2. /\ in.coin = doc.ins[n].coin /\ in.seq = doc.ins[n].seq
        /\ in.tweak = doc.ins[n].tweak /\ in.hint = doc.ins[n].hint
        /\ in.sigs = doc.ins[n].sigs \cup sigs[n]
    BY <2>1
  <2> QED
    BY <2>2 DEF in
<1>4. LockTime(new) = LockTime(doc)
  <2>1. LockTime(new) = Max({ins[n].wait : n \in DOMAIN doc.ins})
    <3> DEFINE W(f, D) == {f[n].wait : n \in D}
    <3>1. LockTime(new) = Max(W(new.ins, DOMAIN new.ins))
      BY DEF LockTime
    <3> HIDE DEF W
    <3>2. LockTime(new) = Max(W(ins, DOMAIN doc.ins))
      BY <1>1, <1>2, <3>1
    <3> QED
      BY <3>2 DEF W
  <2>2. LockTime(doc) \in Nat
    BY LockIn DEF Carries
  <2>3. Max({LockTime(doc)}) = LockTime(doc)
    BY <2>2, MaxIn
  <2>4. CASE {ins[n].wait : n \in DOMAIN doc.ins} = {doc.ins[n].wait : n \in DOMAIN doc.ins}
    BY <2>1, <2>4, Zenon DEF LockTime
  <2>5. CASE {ins[n].wait : n \in DOMAIN doc.ins} = {LockTime(doc)}
    BY <2>1, <2>3, <2>5, Zenon
  <2> QED
    BY <2>4, <2>5
<1>5. Formed(new)
  <2>1. new = [full |-> new.full, version |-> new.version, lane |-> new.lane,
               payload |-> new.payload, branch |-> new.branch, ins |-> new.ins, outs |-> new.outs]
    BY <1>2
  <2>2. \E n \in Nat \ {0} : DOMAIN new.ins = 1 .. n
    BY <1>1, <1>2, Zenon DEF Carries, Formed
  <2>3. ASSUME NEW n \in DOMAIN new.ins
        PROVE  /\ new.ins[n] = [coin |-> new.ins[n].coin, seq |-> new.ins[n].seq,
                                wait |-> new.ins[n].wait, need |-> new.ins[n].need,
                                tweak |-> new.ins[n].tweak, hint |-> new.ins[n].hint,
                                sigs |-> new.ins[n].sigs]
               /\ new.ins[n].wait \in Nat
    <3>1. new.ins[n] = ins[n] /\ n \in DOMAIN doc.ins
      BY <1>1, <1>2
    <3>2. ins[n] = [coin |-> doc.ins[n].coin, seq |-> doc.ins[n].seq,
                    wait |-> ins[n].wait, need |-> ins[n].need,
                    tweak |-> doc.ins[n].tweak, hint |-> doc.ins[n].hint,
                    sigs |-> doc.ins[n].sigs \cup sigs[n]]
      BY <3>1, Zenon
    <3> QED
      BY <1>3, <3>1, <3>2, Zenon
  <2> QED
    BY <2>1, <2>2, <2>3 DEF Formed
<1>6. Meets(new)
  <2>1. ASSUME NEW n \in DOMAIN new.ins
        PROVE  LET in == new.ins[n]
               IN /\ in.need \in {0, 1}
                  /\ in.coin.wants = "nothing" <=> in.need = 0
                  /\ in.coin.wants = "rest" => in.seq >= 1
                  /\ in.coin.wants = "time" => LockTime(new) >= 1
                  /\ in.coin.wants = "beat" => new.branch = "oracle-heartbeat"
                  /\ new.full => in.coin.wants \notin {"nothing", "beat"}
    <3>1. new.ins[n] = ins[n] /\ n \in DOMAIN doc.ins
      BY <1>1, <1>2
    <3>2. LET in == doc.ins[n]
          IN /\ in.need \in {0, 1}
             /\ in.coin.wants = "nothing" <=> in.need = 0
             /\ in.coin.wants = "rest" => in.seq >= 1
             /\ in.coin.wants = "time" => LockTime(doc) >= 1
             /\ in.coin.wants = "beat" => doc.branch = "oracle-heartbeat"
             /\ doc.full => in.coin.wants \notin {"nothing", "beat"}
      BY <3>1, Zenon DEF Carries, Meets
    <3> QED
      BY <1>2, <1>3, <1>4, <3>1, <3>2
  <2>2. new.full /\ new.payload = None => new.lane = "native"
    BY <1>2, Zenon DEF Carries, Meets
  <2> QED
    BY <2>1, <2>2, Zenon DEF Meets
<1>7. Tx(new) = Tx(doc)
  <2>1. [n \in DOMAIN ins |-> [coin |-> ins[n].coin, seq |-> ins[n].seq]]
          = [n \in DOMAIN doc.ins |-> [coin |-> doc.ins[n].coin, seq |-> doc.ins[n].seq]]
    BY <1>1, <1>3
  <2> QED
    BY <2>1, <1>2, <1>4, Zenon DEF Tx
<1>8. ASSUME NEW n \in DOMAIN new.ins, NEW s \in new.ins[n].sigs
      PROVE  s.of = Digest(Tx(made), n) /\ s.key = Wanted(new.ins[n].coin)
  <2>1. /\ n \in DOMAIN doc.ins /\ new.ins[n].coin = doc.ins[n].coin
        /\ s \in doc.ins[n].sigs \/ s \in sigs[n]
    BY <1>1, <1>2, <1>3, <1>8
  <2> QED
    BY <2>1, Zenon DEF Carries, SignsFor
<1> QED
  BY <1>2, <1>5, <1>6, <1>7, <1>8, Zenon DEF Carries

\* The page keeps its document and adds the signatures.
LEMMA CompactCarries ==
  ASSUME NEW doc, NEW made, Carries(doc, made), NEW sigs,
         SignsFor(doc, made, sigs)
  PROVE  Carries(CompactAnswer(doc, sigs), made)
<1> DEFINE ins == [n \in DOMAIN doc.ins |-> [doc.ins[n] EXCEPT !.sigs = @ \cup sigs[n]]]
           new == CompactAnswer(doc, sigs)
<1>1. new = [doc EXCEPT !.ins = ins]
  BY DEF CompactAnswer
<1>2. ASSUME NEW n \in DOMAIN doc.ins
      PROVE  /\ ins[n] = [coin |-> doc.ins[n].coin, seq |-> doc.ins[n].seq,
                          wait |-> doc.ins[n].wait, need |-> doc.ins[n].need,
                          tweak |-> doc.ins[n].tweak, hint |-> doc.ins[n].hint,
                          sigs |-> doc.ins[n].sigs \cup sigs[n]]
             /\ doc.ins[n].wait \in Nat
  <2>1. /\ doc.ins[n] = [coin |-> doc.ins[n].coin, seq |-> doc.ins[n].seq,
                         wait |-> doc.ins[n].wait, need |-> doc.ins[n].need,
                         tweak |-> doc.ins[n].tweak,
                         hint |-> doc.ins[n].hint, sigs |-> doc.ins[n].sigs]
        /\ doc.ins[n].wait \in Nat
    BY Zenon DEF Carries, Formed
  <2>2. ins[n] = [doc.ins[n] EXCEPT !.sigs = @ \cup sigs[n]]
    BY Zenon
  <2> QED
    BY <2>1, <2>2, InputSigned, Zenon
<1>3. ins = [n \in DOMAIN doc.ins |-> ins[n]]
  OBVIOUS
<1> HIDE DEF ins, new
<1>4. new = [full |-> doc.full, version |-> doc.version, lane |-> doc.lane,
             payload |-> doc.payload, branch |-> doc.branch, ins |-> ins, outs |-> doc.outs]
  <2>1. doc = [full |-> doc.full, version |-> doc.version, lane |-> doc.lane,
               payload |-> doc.payload, branch |-> doc.branch, ins |-> doc.ins, outs |-> doc.outs]
    BY Zenon DEF Carries, Formed
  <2> QED
    BY <1>1, <2>1
<1>5. ASSUME NEW n \in DOMAIN doc.ins
      PROVE  /\ ins[n].wait = doc.ins[n].wait /\ ins[n].need = doc.ins[n].need
             /\ ins[n].wait \in Nat
  <2> DEFINE in == ins[n]
  <2>1. /\ in = [coin |-> doc.ins[n].coin, seq |-> doc.ins[n].seq,
                 wait |-> doc.ins[n].wait, need |-> doc.ins[n].need,
                 tweak |-> doc.ins[n].tweak, hint |-> doc.ins[n].hint,
                 sigs |-> doc.ins[n].sigs \cup sigs[n]]
        /\ doc.ins[n].wait \in Nat
    BY <1>2, Zenon
  <2> HIDE DEF in
  <2>2. in.wait = doc.ins[n].wait /\ in.need = doc.ins[n].need
    BY <2>1
  <2> QED
    BY <2>1, <2>2 DEF in
<1>6. {ins[n].wait : n \in DOMAIN doc.ins} = {doc.ins[n].wait : n \in DOMAIN doc.ins}
  BY <1>5
<1>7. \A n \in DOMAIN doc.ins :
        /\ ins[n] = [coin |-> doc.ins[n].coin, seq |-> doc.ins[n].seq,
                     wait |-> ins[n].wait, need |-> ins[n].need,
                     tweak |-> doc.ins[n].tweak, hint |-> doc.ins[n].hint,
                     sigs |-> doc.ins[n].sigs \cup sigs[n]]
        /\ ins[n].wait \in Nat
        /\ (ins[n].need = doc.ins[n].need \/ (doc.full /\ ins[n].need = 1))
  BY <1>2, <1>5, Zenon
<1>8. Adds(doc, new, ins, doc.branch, sigs)
  BY <1>3, <1>4, <1>6, <1>7, Zenon DEF Adds
<1>9. Carries(new, made)
  BY <1>8, SignedCarries, Zenon
<1> QED
  BY <1>9 DEF new

\* The bundle's answer drops what a plain document does not have, and writes
\* one lock time for all inputs: the same.
LEMMA BundleCarries ==
  ASSUME NEW doc, NEW made, Carries(doc, made), doc.full, doc.payload = None, NEW sigs,
         SignsFor(doc, made, sigs)
  PROVE  Carries(BundleAnswer(doc, sigs), made)
<1> DEFINE ins == [n \in DOMAIN doc.ins |->
                     [doc.ins[n] EXCEPT !.wait = LockTime(doc), !.need = 1,
                                        !.sigs = @ \cup sigs[n]]]
           new == BundleAnswer(doc, sigs)
<1>0. LockTime(doc) \in Nat /\ doc.lane = "native"
  BY LockIn DEF Carries, Meets
<1>1. new = [doc EXCEPT !.payload = None, !.lane = "native", !.branch = None, !.ins = ins]
  BY DEF BundleAnswer
<1>2. ASSUME NEW n \in DOMAIN doc.ins
      PROVE  ins[n] = [coin |-> doc.ins[n].coin, seq |-> doc.ins[n].seq,
                       wait |-> LockTime(doc), need |-> 1,
                       tweak |-> doc.ins[n].tweak, hint |-> doc.ins[n].hint,
                       sigs |-> doc.ins[n].sigs \cup sigs[n]]
  <2>1. doc.ins[n] = [coin |-> doc.ins[n].coin, seq |-> doc.ins[n].seq,
                      wait |-> doc.ins[n].wait, need |-> doc.ins[n].need,
                      tweak |-> doc.ins[n].tweak,
                      hint |-> doc.ins[n].hint, sigs |-> doc.ins[n].sigs]
    BY Zenon DEF Carries, Formed
  <2>2. ins[n] = [doc.ins[n] EXCEPT !.wait = LockTime(doc), !.need = 1, !.sigs = @ \cup sigs[n]]
    BY Zenon
  <2> QED
    BY <2>1, <2>2, InputSigned, Zenon
<1>3. ins = [n \in DOMAIN doc.ins |-> ins[n]]
  OBVIOUS
<1> HIDE DEF ins, new
<1>4. new = [full |-> doc.full, version |-> doc.version, lane |-> "native",
             payload |-> doc.payload, branch |-> None, ins |-> ins, outs |-> doc.outs]
  <2>1. doc = [full |-> doc.full, version |-> doc.version, lane |-> doc.lane,
               payload |-> doc.payload, branch |-> doc.branch, ins |-> doc.ins, outs |-> doc.outs]
    BY Zenon DEF Carries, Formed
  <2> QED
    BY <1>1, <2>1
<1>5. ASSUME NEW n \in DOMAIN doc.ins
      PROVE  ins[n].wait = LockTime(doc) /\ ins[n].need = 1
  <2> DEFINE in == ins[n]
  <2>1. in = [coin |-> doc.ins[n].coin, seq |-> doc.ins[n].seq,
              wait |-> LockTime(doc), need |-> 1,
              tweak |-> doc.ins[n].tweak, hint |-> doc.ins[n].hint,
              sigs |-> doc.ins[n].sigs \cup sigs[n]]
    BY <1>2, Zenon
  <2> HIDE DEF in
  <2>2. in.wait = LockTime(doc) /\ in.need = 1
    BY <2>1
  <2> QED
    BY <2>2 DEF in
<1>6. {ins[n].wait : n \in DOMAIN doc.ins} = {LockTime(doc)}
  <2>1. 1 \in DOMAIN doc.ins
    BY DEF Carries, Formed
  <2> QED
    BY <1>5, <2>1
<1>7. \A n \in DOMAIN doc.ins :
        /\ ins[n] = [coin |-> doc.ins[n].coin, seq |-> doc.ins[n].seq,
                     wait |-> ins[n].wait, need |-> ins[n].need,
                     tweak |-> doc.ins[n].tweak, hint |-> doc.ins[n].hint,
                     sigs |-> doc.ins[n].sigs \cup sigs[n]]
        /\ ins[n].wait \in Nat
        /\ (ins[n].need = doc.ins[n].need \/ (doc.full /\ ins[n].need = 1))
  BY <1>0, <1>2, <1>5, Zenon
<1>8. Adds(doc, new, ins, None, sigs)
  BY <1>0, <1>3, <1>4, <1>6, <1>7, Zenon DEF Adds
<1>9. Carries(new, made)
  BY <1>8, SignedCarries, Zenon
<1> QED
  BY <1>9 DEF new

\* So the signer's answer still carries what the page made.
LEMMA AnswerCarries ==
  ASSUME NEW doc, NEW made, Carries(doc, made), NEW route, Reads(doc, route),
         route = "bundle" /\ made.full => made.payload = None
  PROVE  Carries(Answer(doc, route), made)
<1> DEFINE sigs == Signatures(Read(doc, route))
<1>1. doc.payload = made.payload
  BY DEF Carries, Tx
<1>2. route = "bundle" => doc.full /\ made.full /\ doc.payload = None /\ doc.lane = "native"
  BY <1>1 DEF Reads, ReadsBundle, Carries, Meets
<1>3. SignsFor(doc, made, sigs)
  BY <1>2, SignsMade DEF SignsFor
<1> HIDE DEF sigs
<1>4. CASE route = "bundle"
  <2>2. Carries(BundleAnswer(doc, sigs), made)
    BY <1>2, <1>3, <1>4, BundleCarries
  <2> QED
    BY <1>4, <2>2 DEF Answer, sigs
<1>5. CASE route # "bundle"
  <2>1. Carries(CompactAnswer(doc, sigs), made)
    BY <1>3, CompactCarries
  <2> QED
    BY <1>5, <2>1 DEF Answer, sigs
<1> QED
  BY <1>4, <1>5

\* What the page takes for ready the node takes.
LEMMA ReadyValid ==
  ASSUME NEW doc, NEW made, Carries(doc, made), Ready(doc)
  PROVE  Tx(doc) = Tx(made) /\ Valid(doc)
<1>1. ASSUME NEW n \in DOMAIN doc.ins
      PROVE  Spends(doc, n)
  <2> DEFINE in == doc.ins[n]
             signed == \E s \in in.sigs : s.of = Digest(Tx(doc), n) /\ s.key = Wanted(in.coin)
  <2>1. in.need = 1 => signed
    <3>1. SUFFICES ASSUME in.need = 1 PROVE signed
      OBVIOUS
    <3>2. in.sigs # {}
      <4>1. Cardinality(in.sigs) >= 1
        BY <3>1 DEF Ready
      <4> QED
        BY <4>1, FS_EmptySet
    <3> QED
      BY <3>2 DEF Carries
  <2>2. /\ in.need \in {0, 1}
        /\ in.coin.wants = "nothing" <=> in.need = 0
        /\ in.coin.wants = "rest" => in.seq >= 1
        /\ in.coin.wants = "time" => LockTime(doc) >= 1
        /\ in.coin.wants = "beat" => doc.branch = "oracle-heartbeat"
    BY DEF Carries, Meets
  <2>3. in.coin.wants # "nothing" => signed
    BY <2>1, <2>2
  <2> HIDE DEF signed
  <2>4. Spends(doc, n) =
          CASE in.coin.wants = "nothing" -> in.need = 0
            [] in.coin.wants = "time"    -> signed /\ LockTime(doc) >= 1
            [] in.coin.wants = "rest"    -> signed /\ in.seq >= 1
            [] in.coin.wants = "beat"    -> signed /\ doc.branch = "oracle-heartbeat"
            [] OTHER                     -> signed
    BY DEF Spends, signed
  <2> HIDE DEF in
  <2> QED
    BY <2>2, <2>3, <2>4
<1> QED
  BY <1>1 DEF Valid, Carries

-----------------------------------------------------------------------------
(* The documents the page makes are well made, if each is made of coins    *)
(* whose scripts want what it is for.                                      *)

\* What the page may put into "documents".
PageMakes(doc) ==
  \/ \E c : /\ c.wants = "own"
            /\ doc \in {PlainSend(c), StealthPayment(c), LanePayment(c), TaggedDeposit(c),
                        VaultDeposit(c, TRUE), VaultDeposit(c, FALSE), MultisigSend(c)}
  \/ \E S, cs : /\ cs \in Seq(S) /\ cs # <<>> /\ \A c \in S : c.wants = "shifted"
                /\ doc = StealthSpend(cs)
  \/ \E c : c.wants = "time" /\ doc = SavingsClaim(c)
  \/ \E c : c.wants = "rest" /\ doc = RestedSpend(c)
  \/ \E p, c : p.wants = "nothing" /\ c.wants = "own" /\ doc = BorrowerTopUp(p, c)
  \/ \E c : c.wants = "beat" /\ doc = OracleHeartbeat(c)


\* The members of an input.
InputOf(c, seq, wait, need, tweak, hint) ==
  [coin |-> c, seq |-> seq, wait |-> wait, need |-> need, tweak |-> tweak, hint |-> hint,
   sigs |-> {}]

LEMMA InputKinds ==
  ASSUME NEW c
  PROVE  /\ Input(c) = InputOf(c, 0, 0, 1, FALSE, FALSE)
         /\ [Input(c) EXCEPT !.hint = TRUE] = InputOf(c, 0, 0, 1, FALSE, TRUE)
         /\ [Input(c) EXCEPT !.tweak = TRUE] = InputOf(c, 0, 0, 1, TRUE, FALSE)
         /\ [Input(c) EXCEPT !.wait = 1] = InputOf(c, 0, 1, 1, FALSE, FALSE)
         /\ [Input(c) EXCEPT !.seq = 1] = InputOf(c, 1, 0, 1, FALSE, FALSE)
         /\ [Input(c) EXCEPT !.need = 0, !.seq = 1] = InputOf(c, 1, 0, 0, FALSE, FALSE)
<1> DEFINE in == Input(c)
<1>1. in = [coin |-> c, seq |-> 0, wait |-> 0, need |-> 1, tweak |-> FALSE, hint |-> FALSE,
            sigs |-> {}]
  BY DEF Input
<1>2. in = InputOf(c, 0, 0, 1, FALSE, FALSE)
  BY DEF Input, InputOf
<1> HIDE DEF in
<1>3. ASSUME NEW x, x = [in EXCEPT !.hint = TRUE] PROVE x = InputOf(c, 0, 0, 1, FALSE, TRUE)
  BY <1>1, <1>3, Zenon DEF InputOf
<1>4. ASSUME NEW x, x = [in EXCEPT !.tweak = TRUE] PROVE x = InputOf(c, 0, 0, 1, TRUE, FALSE)
  BY <1>1, <1>4, Zenon DEF InputOf
<1>5. ASSUME NEW x, x = [in EXCEPT !.wait = 1] PROVE x = InputOf(c, 0, 1, 1, FALSE, FALSE)
  BY <1>1, <1>5, Zenon DEF InputOf
<1>6. ASSUME NEW x, x = [in EXCEPT !.seq = 1] PROVE x = InputOf(c, 1, 0, 1, FALSE, FALSE)
  BY <1>1, <1>6, Zenon DEF InputOf
<1>7. ASSUME NEW x, x = [in EXCEPT !.need = 0, !.seq = 1] PROVE x = InputOf(c, 1, 0, 0, FALSE, FALSE)
  BY <1>1, <1>7, Zenon DEF InputOf
<1> QED
  BY <1>2, <1>3, <1>4, <1>5, <1>6, <1>7, Zenon DEF in


\* An input that has what its coin's script wants, in a document.
GoodInput(in, full, branch) ==
  \E c, seq, wait, need, tweak, hint :
    /\ in = InputOf(c, seq, wait, need, tweak, hint)
    /\ wait \in Nat /\ need \in {0, 1}
    /\ c.wants = "nothing" <=> need = 0
    /\ c.wants = "rest" => seq >= 1
    /\ c.wants = "time" => wait >= 1
    /\ c.wants = "beat" => branch = "oracle-heartbeat"
    /\ full => c.wants \notin {"nothing", "beat"}

LEMMA GoodMembers ==
  ASSUME NEW in, NEW full, NEW branch, GoodInput(in, full, branch)
  PROVE  /\ in = [coin |-> in.coin, seq |-> in.seq, wait |-> in.wait, need |-> in.need,
                  tweak |-> in.tweak, hint |-> in.hint, sigs |-> in.sigs]
         /\ in.sigs = {} /\ in.wait \in Nat /\ in.need \in {0, 1}
         /\ in.coin.wants = "nothing" <=> in.need = 0
         /\ in.coin.wants = "rest" => in.seq >= 1
         /\ in.coin.wants = "time" => in.wait >= 1
         /\ in.coin.wants = "beat" => branch = "oracle-heartbeat"
         /\ full => in.coin.wants \notin {"nothing", "beat"}
<1>1. PICK c, seq, wait, need, tweak, hint :
        /\ in = InputOf(c, seq, wait, need, tweak, hint)
        /\ wait \in Nat /\ need \in {0, 1}
        /\ c.wants = "nothing" <=> need = 0
        /\ c.wants = "rest" => seq >= 1
        /\ c.wants = "time" => wait >= 1
        /\ c.wants = "beat" => branch = "oracle-heartbeat"
        /\ full => c.wants \notin {"nothing", "beat"}
  BY Zenon DEF GoodInput
<1>2. /\ in.coin = c /\ in.seq = seq /\ in.wait = wait /\ in.need = need /\ in.tweak = tweak
      /\ in.hint = hint /\ in.sigs = {}
  BY <1>1 DEF InputOf
<1>3. in = [coin |-> in.coin, seq |-> in.seq, wait |-> in.wait, need |-> in.need,
            tweak |-> in.tweak, hint |-> in.hint, sigs |-> in.sigs]
  BY <1>1, <1>2, Zenon DEF InputOf
<1> QED
  BY <1>1, <1>2, <1>3, Zenon

\* A document of such inputs is well made.
LEMMA GoodDoc ==
  ASSUME NEW doc,
         doc = [full |-> doc.full, version |-> doc.version, lane |-> doc.lane,
                payload |-> doc.payload, branch |-> doc.branch, ins |-> doc.ins,
                outs |-> doc.outs],
         doc.full /\ doc.payload = None => doc.lane = "native",
         NEW n \in Nat \ {0}, DOMAIN doc.ins = 1 .. n,
         \A k \in 1 .. n : GoodInput(doc.ins[k], doc.full, doc.branch)
  PROVE  WellMade(doc)
<1>3. DOMAIN doc.ins = 1 .. n /\ \A k \in 1 .. n : GoodInput(doc.ins[k], doc.full, doc.branch)
  OBVIOUS
<1>4. Formed(doc)
  BY <1>3, GoodMembers, Zenon DEF Formed
<1>5. ASSUME NEW k \in 1 .. n
      PROVE  LET in == doc.ins[k]
             IN /\ in.need \in {0, 1}
                /\ in.coin.wants = "nothing" <=> in.need = 0
                /\ in.coin.wants = "rest" => in.seq >= 1
                /\ in.coin.wants = "time" => LockTime(doc) >= 1
                /\ in.coin.wants = "beat" => doc.branch = "oracle-heartbeat"
                /\ doc.full => in.coin.wants \notin {"nothing", "beat"}
  <2> DEFINE in == doc.ins[k]
  <2>1. /\ in.need \in {0, 1}
        /\ in.coin.wants = "nothing" <=> in.need = 0
        /\ in.coin.wants = "rest" => in.seq >= 1
        /\ in.coin.wants = "time" => in.wait >= 1
        /\ in.coin.wants = "beat" => doc.branch = "oracle-heartbeat"
        /\ doc.full => in.coin.wants \notin {"nothing", "beat"}
    <3> HIDE DEF in
    <3>1. GoodInput(in, doc.full, doc.branch)
      BY <1>3 DEF in
    <3> QED
      BY <3>1, GoodMembers
  <2>2. in.wait \in Nat /\ in.wait <= LockTime(doc) /\ LockTime(doc) \in Nat
    BY <1>3, <1>4, LockIn, Zenon DEF Formed
  <2> HIDE DEF in
  <2>3. in.wait >= 1 => LockTime(doc) >= 1
    BY <2>2
  <2> QED
    BY <2>1, <2>3, Zenon DEF in
<1>6. Meets(doc)
  BY <1>3, <1>5, Zenon DEF Meets
<1>7. Unsigned(doc)
  BY <1>3, GoodMembers, Zenon DEF Unsigned
<1> QED
  BY <1>4, <1>6, <1>7 DEF WellMade

\* Lists of one and two inputs.
LEMMA OneTwo ==
  ASSUME NEW a, NEW b
  PROVE  /\ DOMAIN <<a>> = 1 .. 1 /\ \A k \in 1 .. 1 : <<a>>[k] = a
         /\ DOMAIN <<a, b>> = 1 .. 2 /\ \A k \in 1 .. 2 : <<a, b>>[k] \in {a, b}
OBVIOUS

\* Plain documents, of one coin of the wallet's own.
LEMMA OwnDocs ==
  ASSUME NEW c, c.wants = "own",
         NEW doc \in {PlainSend(c), StealthPayment(c), LanePayment(c), TaggedDeposit(c),
                      VaultDeposit(c, TRUE), VaultDeposit(c, FALSE), MultisigSend(c)}
  PROVE  WellMade(doc)
<1> DEFINE in == Input(c)
           hinted == [Input(c) EXCEPT !.hint = TRUE]
<1>1. /\ GoodInput(in, TRUE, None) /\ GoodInput(hinted, TRUE, None)
  <2>1. /\ in = InputOf(c, 0, 0, 1, FALSE, FALSE)
        /\ hinted = InputOf(c, 0, 0, 1, FALSE, TRUE)
    BY InputKinds, Zenon
  <2> HIDE DEF in, hinted
  <2>2. /\ c.wants \notin {"nothing", "rest", "time", "beat"}
        /\ 0 \in Nat /\ 1 \in {0, 1} /\ 1 # 0
    OBVIOUS
  <2> QED
    BY <2>1, <2>2, Zenon DEF GoodInput
<1> HIDE DEF in, hinted
<1>2. ASSUME NEW version, NEW lane, NEW payload, NEW ins, NEW outs, NEW x,
             x = [full |-> TRUE, version |-> version, lane |-> lane, payload |-> payload,
                  branch |-> None, ins |-> ins, outs |-> outs],
             ins \in {<<in>>, <<hinted>>},
             lane = "native" \/ payload # None
      PROVE  WellMade(x)
  <2>1. DOMAIN ins = 1 .. 1 /\ \A k \in 1 .. 1 : ins[k] \in {in, hinted}
    <3>1. CASE ins = <<in>>
      BY <3>1, OneTwo
    <3>2. CASE ins = <<hinted>>
      BY <3>2, OneTwo
    <3> QED
      BY <1>2, <3>1, <3>2
  <2>2. /\ x.full = TRUE /\ x.lane = lane /\ x.payload = payload /\ x.branch = None /\ x.ins = ins
        /\ x.version = version /\ x.outs = outs
    BY <1>2
  <2>3. /\ x.full /\ x.payload = None => x.lane = "native"
        /\ DOMAIN x.ins = 1 .. 1 /\ 1 \in Nat \ {0}
        /\ \A k \in 1 .. 1 : GoodInput(x.ins[k], x.full, x.branch)
    <3>1. x.full /\ x.payload = None => x.lane = "native"
      BY <1>2, <2>2, Zenon
    <3>2. DOMAIN x.ins = 1 .. 1 /\ 1 \in Nat \ {0}
      BY <2>1, <2>2
    <3>3. ASSUME NEW k \in 1 .. 1 PROVE GoodInput(x.ins[k], TRUE, None)
      BY <1>1, <2>1, <2>2, Zenon
    <3> QED
      BY <2>2, <3>1, <3>2, <3>3, Zenon
  <2>4. x = [full |-> x.full, version |-> x.version, lane |-> x.lane, payload |-> x.payload,
             branch |-> x.branch, ins |-> x.ins, outs |-> x.outs]
    BY <1>2, <2>2, Zenon
  <2> QED
    BY <2>3, <2>4, GoodDoc, Zenon
<1> DEFINE Plain(ins, outs) ==
      [full |-> TRUE, version |-> 0, lane |-> "native", payload |-> None,
       branch |-> None, ins |-> ins, outs |-> outs]
<1>3. "R" # None
  BY NoneAssumption
<1>4. CASE doc = PlainSend(c)
  <2> DEFINE outs == Pay(1) \o <<Change>>
  <2>1. doc = Plain(<<in>>, outs)
    BY <1>4 DEF PlainSend, PlainDoc, in
  <2> HIDE DEF outs
  <2> QED
    BY <2>1, <1>2, Zenon
<1>5. CASE doc = StealthPayment(c)
  <2> DEFINE outs == Pay(1) \o <<Change>>
             plain == PlainSend(c)
  <2>1. plain = Plain(<<in>>, outs)
    BY DEF PlainSend, PlainDoc, in
  <2>2. doc = [plain EXCEPT !.payload = "R"]
    BY <1>5 DEF StealthPayment, WithPayload
  <2> HIDE DEF outs, plain
  <2>3. doc = [full |-> TRUE, version |-> 0, lane |-> "native", payload |-> "R",
               branch |-> None, ins |-> <<in>>, outs |-> outs]
    BY <2>1, <2>2, Zenon
  <2> QED
    BY <2>3, <1>2, Zenon
<1>6. CASE doc = LanePayment(c)
  <2> DEFINE outs == Pay(1) \o <<Change>>
             plain == PlainSend(c)
  <2>1. plain = Plain(<<in>>, outs)
    BY DEF PlainSend, PlainDoc, in
  <2>2. doc = [plain EXCEPT !.lane = "kstl", !.version = 1, !.payload = "R"]
    BY <1>6 DEF LanePayment, WithLane
  <2> HIDE DEF outs, plain
  <2>3. doc = [full |-> TRUE, version |-> 1, lane |-> "kstl", payload |-> "R",
               branch |-> None, ins |-> <<in>>, outs |-> outs]
    BY <2>1, <2>2, Zenon
  <2> QED
    <3> DEFINE lane == "kstl"  payload == "R"
    <3>1. doc = [full |-> TRUE, version |-> 1, lane |-> lane, payload |-> payload,
                 branch |-> None, ins |-> <<in>>, outs |-> outs]
      BY <2>3
    <3>2. payload # None
      BY <1>3
    <3> HIDE DEF lane, payload
    <3> QED
      BY <3>1, <3>2, <1>2
<1>7. CASE doc = TaggedDeposit(c)
  <2> DEFINE outs == <<[Output("vault", 1) EXCEPT !.bind = 1], Change>>
             plain == PlainDoc(<<in>>, outs)
  <2>1. plain = Plain(<<in>>, outs)
    BY DEF PlainDoc
  <2>2. doc = [plain EXCEPT !.version = 1]
    BY <1>7 DEF TaggedDeposit, TaggedDoc, in
  <2> HIDE DEF outs, plain
  <2>3. doc = [full |-> TRUE, version |-> 1, lane |-> "native", payload |-> None,
               branch |-> None, ins |-> <<in>>, outs |-> outs]
    BY <2>1, <2>2, Zenon
  <2> QED
    BY <2>3, <1>2, Zenon
<1>8. ASSUME NEW tagged, doc = VaultDeposit(c, tagged)
      PROVE  WellMade(doc)
  <2> DEFINE outs == <<[Output("vault", 1) EXCEPT !.bind = IF tagged THEN 1 ELSE None], Change>>
             plain == PlainDoc(<<in>>, outs)
             version == IF Bound(outs) THEN 1 ELSE 0
  <2>1. plain = Plain(<<in>>, outs)
    BY DEF PlainDoc
  <2>2. doc = [plain EXCEPT !.version = version, !.payload = "terms"]
    BY <1>8 DEF VaultDeposit, DepositDoc, in
  <2> HIDE DEF outs, plain, version
  <2>3. doc = [full |-> TRUE, version |-> version, lane |-> "native", payload |-> "terms",
               branch |-> None, ins |-> <<in>>, outs |-> outs]
    BY <2>1, <2>2, Zenon
  <2> QED
    BY <2>3, <1>2, Zenon
<1>9. CASE doc = MultisigSend(c)
  <2> DEFINE outs == Pay(1) \o <<[Change EXCEPT !.hint = TRUE]>>
  <2>1. doc = Plain(<<hinted>>, outs)
    BY <1>9 DEF MultisigSend, PlainDoc, hinted
  <2> HIDE DEF outs
  <2> QED
    BY <2>1, <1>2, Zenon
<1> QED
  BY <1>4, <1>5, <1>6, <1>7, <1>8, <1>9

\* Spends of coins under a script.
LEMMA ScriptDoc ==
  ASSUME NEW ins, NEW outs, NEW version, NEW payload, NEW branch, NEW doc,
         doc = [full |-> FALSE, version |-> version, lane |-> "native", payload |-> payload,
                branch |-> branch, ins |-> ins, outs |-> outs],
         NEW n \in Nat \ {0}, DOMAIN ins = 1 .. n,
         \A k \in 1 .. n : GoodInput(ins[k], FALSE, branch)
  PROVE  WellMade(doc)
<1>1. /\ doc.full = FALSE /\ doc.lane = "native" /\ doc.branch = branch /\ doc.ins = ins
      /\ doc.version = version /\ doc.outs = outs /\ doc.payload = payload
  OBVIOUS
<1>2. doc = [full |-> doc.full, version |-> doc.version, lane |-> doc.lane,
             payload |-> doc.payload, branch |-> doc.branch, ins |-> doc.ins, outs |-> doc.outs]
  BY <1>1, Zenon
<1>3. DOMAIN doc.ins = 1 .. n /\ \A k \in 1 .. n : GoodInput(doc.ins[k], doc.full, doc.branch)
  BY <1>1, Zenon
<1> QED
  BY <1>1, <1>2, <1>3, GoodDoc, Zenon

LEMMA SpendMembers ==
  ASSUME NEW ins, NEW outs
  PROVE  SpendDoc(ins, outs) =
           [full |-> FALSE, version |-> 0, lane |-> "native", payload |-> None, branch |-> None,
            ins |-> ins, outs |-> outs]
<1> DEFINE plain == PlainDoc(ins, outs)
<1>1. plain = [full |-> TRUE, version |-> 0, lane |-> "native", payload |-> None,
               branch |-> None, ins |-> ins, outs |-> outs]
  BY DEF PlainDoc
<1>2. SpendDoc(ins, outs) = [plain EXCEPT !.full = FALSE]
  BY DEF SpendDoc
<1> HIDE DEF plain
<1> QED
  BY <1>1, <1>2, Zenon

LEMMA StealthMade ==
  ASSUME NEW S, NEW cs \in Seq(S), cs # <<>>, \A c \in S : c.wants = "shifted"
  PROVE  WellMade(StealthSpend(cs))
<1> DEFINE ins == [n \in DOMAIN cs |-> [Input(cs[n]) EXCEPT !.tweak = TRUE]]
<1>1. /\ Len(cs) \in Nat \ {0} /\ DOMAIN cs = 1 .. Len(cs)
      /\ \A k \in 1 .. Len(cs) : cs[k].wants = "shifted"
  BY LenProperties, EmptySeq
<1>2. ASSUME NEW k \in 1 .. Len(cs)
      PROVE  GoodInput(ins[k], FALSE, None)
  <2>1. ins[k] = [Input(cs[k]) EXCEPT !.tweak = TRUE]
    BY <1>1
  <2> HIDE DEF ins
  <2>2. ins[k] = InputOf(cs[k], 0, 0, 1, TRUE, FALSE)
    BY <2>1, InputKinds, Zenon
  <2>3. /\ cs[k].wants \notin {"nothing", "rest", "time", "beat"}
        /\ 0 \in Nat /\ 1 \in {0, 1} /\ 1 # 0
    BY <1>1
  <2> QED
    BY <2>2, <2>3, Zenon DEF GoodInput
<1>3. DOMAIN ins = 1 .. Len(cs)
  BY <1>1
<1>4. StealthSpend(cs) = SpendDoc(ins, Pay(2))
  BY DEF StealthSpend
<1> HIDE DEF ins
<1> QED
  BY <1>1, <1>2, <1>3, <1>4, SpendMembers, ScriptDoc

LEMMA SavingsMade ==
  ASSUME NEW c, c.wants = "time"
  PROVE  WellMade(SavingsClaim(c))
<1> DEFINE in == [Input(c) EXCEPT !.wait = 1]
           plain == SpendDoc(<<in>>, Pay(2))
           doc == SavingsClaim(c)
<1>1. GoodInput(in, FALSE, "savings")
  <2>1. in = InputOf(c, 0, 1, 1, FALSE, FALSE)
    BY InputKinds, Zenon
  <2>2. /\ c.wants \notin {"nothing", "rest", "beat"} /\ 1 >= 1
        /\ 1 \in Nat /\ 1 \in {0, 1} /\ 1 # 0
    OBVIOUS
  <2> HIDE DEF in
  <2> QED
    BY <2>1, <2>2, Zenon DEF GoodInput
<1>2. doc = [plain EXCEPT !.branch = "savings"]
  BY DEF SavingsClaim
<1> HIDE DEF in
<1>3. plain = [full |-> FALSE, version |-> 0, lane |-> "native", payload |-> None,
               branch |-> None, ins |-> <<in>>, outs |-> Pay(2)]
  BY SpendMembers, Zenon
<1> HIDE DEF plain, doc
<1>4. doc = [full |-> FALSE, version |-> 0, lane |-> "native", payload |-> None,
             branch |-> "savings", ins |-> <<in>>, outs |-> Pay(2)]
  BY <1>2, <1>3, Zenon
<1>5. DOMAIN <<in>> = 1 .. 1 /\ \A k \in 1 .. 1 : GoodInput(<<in>>[k], FALSE, "savings")
  BY <1>1, OneTwo
<1> QED
  <2>1. 1 \in Nat \ {0}
    OBVIOUS
  <2>2. WellMade(doc)
    BY <1>4, <1>5, <2>1, ScriptDoc, Zenon
  <2> QED
    BY <2>2 DEF doc

LEMMA RestedMade ==
  ASSUME NEW c, c.wants = "rest"
  PROVE  WellMade(RestedSpend(c))
<1> DEFINE in == [Input(c) EXCEPT !.seq = 1]
<1>1. GoodInput(in, FALSE, None)
  <2>1. in = InputOf(c, 1, 0, 1, FALSE, FALSE)
    BY InputKinds, Zenon
  <2>2. /\ c.wants \notin {"nothing", "time", "beat"} /\ 1 >= 1
        /\ 0 \in Nat /\ 1 \in {0, 1} /\ 1 # 0
    OBVIOUS
  <2> HIDE DEF in
  <2> QED
    BY <2>1, <2>2, Zenon DEF GoodInput
<1>2. RestedSpend(c) = SpendDoc(<<in>>, Pay(2))
  BY DEF RestedSpend
<1> HIDE DEF in
<1>3. DOMAIN <<in>> = 1 .. 1 /\ \A k \in 1 .. 1 : GoodInput(<<in>>[k], FALSE, None)
  BY <1>1, OneTwo
<1>4. 1 \in Nat \ {0}
  OBVIOUS
<1> QED
  BY <1>2, <1>3, <1>4, SpendMembers, ScriptDoc, Zenon

LEMMA TopUpMade ==
  ASSUME NEW p, NEW c, p.wants = "nothing", c.wants = "own"
  PROVE  WellMade(BorrowerTopUp(p, c))
<1> DEFINE cov == [Input(p) EXCEPT !.need = 0, !.seq = 1]
           own == Input(c)
           outs == <<Output("vault", 3), Change>>
<1>1. /\ GoodInput(cov, FALSE, None) /\ GoodInput(own, FALSE, None)
  <2>1. cov = InputOf(p, 1, 0, 0, FALSE, FALSE) /\ own = InputOf(c, 0, 0, 1, FALSE, FALSE)
    BY InputKinds, Zenon
  <2>2. /\ c.wants \notin {"nothing", "rest", "time", "beat"}
        /\ p.wants \notin {"rest", "time", "beat"}
        /\ 0 \in Nat /\ 0 \in {0, 1} /\ 1 \in {0, 1} /\ 1 # 0
    OBVIOUS
  <2> HIDE DEF cov, own
  <2>3. GoodInput(own, FALSE, None)
    BY <2>1, <2>2, Zenon DEF GoodInput
  <2>4. GoodInput(cov, FALSE, None)
    BY <2>1, <2>2, Zenon DEF GoodInput
  <2> QED
    BY <2>3, <2>4
<1>2. BorrowerTopUp(p, c) = SpendDoc(<<cov, own>>, outs)
  BY DEF BorrowerTopUp
<1> HIDE DEF cov, own, outs
<1>3. DOMAIN <<cov, own>> = 1 .. 2 /\ \A k \in 1 .. 2 : GoodInput(<<cov, own>>[k], FALSE, None)
  <2>1. \A k \in 1 .. 2 : <<cov, own>>[k] \in {cov, own}
    BY OneTwo
  <2> QED
    BY <2>1, <1>1, OneTwo
<1>4. 2 \in Nat \ {0}
  OBVIOUS
<1> QED
  BY <1>2, <1>3, <1>4, SpendMembers, ScriptDoc

LEMMA HeartbeatMade ==
  ASSUME NEW c, c.wants = "beat"
  PROVE  WellMade(OracleHeartbeat(c))
<1> DEFINE in == Input(c)
           outs == <<Output("vault", 1)>>
           plain == SpendDoc(<<in>>, outs)
           doc == OracleHeartbeat(c)
<1>1. GoodInput(in, FALSE, "oracle-heartbeat")
  <2>1. in = InputOf(c, 0, 0, 1, FALSE, FALSE)
    BY InputKinds, Zenon
  <2>2. /\ c.wants \notin {"nothing", "rest", "time"}
        /\ 0 \in Nat /\ 1 \in {0, 1} /\ 1 # 0
    OBVIOUS
  <2> HIDE DEF in
  <2> QED
    BY <2>1, <2>2, Zenon DEF GoodInput
<1>2. doc = [plain EXCEPT !.version = 1, !.branch = "oracle-heartbeat", !.payload = "ORAC"]
  BY DEF OracleHeartbeat
<1> HIDE DEF in, outs
<1>3. plain = [full |-> FALSE, version |-> 0, lane |-> "native", payload |-> None,
               branch |-> None, ins |-> <<in>>, outs |-> outs]
  BY SpendMembers, Zenon
<1> HIDE DEF plain, doc
<1>4. doc = [full |-> FALSE, version |-> 1, lane |-> "native", payload |-> "ORAC",
             branch |-> "oracle-heartbeat", ins |-> <<in>>, outs |-> outs]
  BY <1>2, <1>3, Zenon
<1>5. /\ DOMAIN <<in>> = 1 .. 1
      /\ \A k \in 1 .. 1 : GoodInput(<<in>>[k], FALSE, "oracle-heartbeat")
  BY <1>1, OneTwo
<1> QED
  <2>1. 1 \in Nat \ {0}
    OBVIOUS
  <2>2. WellMade(doc)
    BY <1>4, <1>5, <2>1, ScriptDoc, Zenon
  <2> QED
    BY <2>2 DEF doc

LEMMA PageMakesWell ==
  ASSUME NEW doc, PageMakes(doc)
  PROVE  WellMade(doc)
BY OwnDocs, StealthMade, SavingsMade, RestedMade, TopUpMade, HeartbeatMade, Zenon DEF PageMakes

-----------------------------------------------------------------------------
(* The desk. *)

Plain == "by bundle" \notin Detours
MadeByPage == \A doc \in Docs : PageMakes(doc)

\* Nothing is shown to a signer among the coins; where documents are, the page
\* has no list and no call; and what is under review, answered or sent carries
\* what the page made.
Conveyed ==
  /\ DeskShaped
  /\ theme # "documents" => desk.shown = None /\ desk.answer = None /\ desk.sent = None
  /\ theme = "documents" =>
       /\ page.list = None /\ calls = {}
       /\ desk.review # None => Carries(desk.review, desk.made)
       /\ desk.shown # None => desk.review # None
       /\ desk.shown = "bundle" /\ desk.made.full => desk.made.payload = None
       /\ desk.answer # None => Carries(desk.answer, desk.made)
  /\ SentIsMade

LEMMA InitConveyed == Init => Conveyed
<1> SUFFICES ASSUME Init PROVE Conveyed
  OBVIOUS
<1>1. /\ desk.asked = None /\ desk.review = None /\ desk.made = None /\ desk.shown = None
      /\ desk.answer = None /\ desk.sent = None /\ DeskShaped
  BY DEF Init, InitDesk, DeskShaped
<1>2. page.list = None /\ calls = {}
  BY DEF Init, InitPage
<1>3. None # "bundle"
  BY NoneAssumption
<1> QED
  BY <1>1, <1>2, <1>3 DEF Init, InitPage, Conveyed, SentIsMade

\* Among the documents the page stands still.
LEMMA CoinsElsewhere ==
  ASSUME Conveyed, [Next]_vars, theme = "documents"
  PROVE  \/ UNCHANGED <<theme, page, calls, desk>>
         \/ /\ UNCHANGED <<theme, page, calls>>
            /\ \/ Open \/ Sign \/ Scan \/ Finalize \/ Back
               \/ \E route \in {"bundle", "compact"} : Show(route)
<1>1. theme # "coins"
  OBVIOUS
<1>2. calls = {} /\ page.list = None
  BY DEF Conveyed
<1>3. page.list \notin {"send", "send rows", "utxos"}
  BY <1>2, NoneAssumption
<1>4. ~(Arrives \/ Leaves \/ Import \/ Reset \/ StartRefresh \/ Derives \/ OpenSend
        \/ ShowUtxos)
  BY <1>1 DEF Arrives, Leaves, Moves, Import, Reset, StartRefresh, Derives, OpenSend, ShowUtxos
<1>5. ~(BalanceAnswers \/ BalanceFails \/ UtxosAnswer \/ UtxosFail \/ ScanAnswers
        \/ SendAnswers \/ UtxosListAnswers \/ ListFails)
  BY <1>2 DEF BalanceAnswers, BalanceFails, UtxosAnswer, UtxosFail, ScanAnswers, SendAnswers,
              UtxosListAnswers, ListFails
<1>6. ~(ShowRows \/ Tick \/ CreateTicked \/ CreateSend \/ Consolidate \/ ConsolidateTicked)
  BY <1>3 DEF ShowRows, Tick, CreateTicked, CreateSend, Consolidate, ConsolidateTicked
<1>7. ASSUME Open \/ Sign \/ Scan \/ Finalize \/ Back \/
             \E route \in {"bundle", "compact"} : Show(route)
      PROVE  UNCHANGED <<theme, page, calls>>
  BY <1>7 DEF Open, Sign, Scan, Finalize, Back, Show, Desk
<1>8. CASE UNCHANGED vars
  BY <1>8 DEF vars
<1>9. CASE Next
  BY <1>4, <1>5, <1>6, <1>7, <1>9 DEF Next
<1> QED
  BY <1>8, <1>9

\* Among the coins nothing is shown.
LEMMA DeskElsewhere ==
  ASSUME Conveyed, [Next]_vars, theme # "documents"
  PROVE  /\ theme' = theme
         /\ desk'.shown = None /\ desk'.answer = None /\ desk'.sent = None
         /\ DeskShaped'
<1>1. /\ desk.shown = None /\ desk.answer = None /\ desk.sent = None /\ DeskShaped
  BY DEF Conveyed
<1>2. CASE UNCHANGED <<theme, desk>>
  BY <1>1, <1>2 DEF DeskShaped
<1>3. CASE Reset
  BY <1>3 DEF Reset, InitDesk, DeskShaped
<1>4. CASE CreateTicked \/ CreateSend \/ Consolidate \/ ConsolidateTicked
  <2>1. PICK q, asked, to, amount, fee, m : Make(q, asked, to, amount, fee, m)
    BY <1>4 DEF CreateTicked, CreateSend, Consolidate, ConsolidateTicked
  <2>2. /\ theme' = theme
        /\ \E d, a : desk' = [InitDesk EXCEPT !.review = d, !.made = d, !.asked = a]
    BY <2>1 DEF Make
  <2> QED
    BY <2>2 DEF InitDesk, DeskShaped
<1>5. CASE Back
  <2>1. desk' = InitDesk /\ theme' = theme
    BY <1>1, <1>5 DEF Back, Desk
  <2> QED
    BY <2>1 DEF InitDesk, DeskShaped
<1>6. ~(Open \/ Sign \/ Scan \/ Finalize \/ \E route \in {"bundle", "compact"} : Show(route))
  BY <1>1 DEF Open, Sign, Scan, Finalize, Show
<1>7. CASE Arrives \/ Leaves
  BY <1>2, <1>7 DEF Arrives, Leaves, Moves
<1>8. CASE Import \/ StartRefresh \/ BalanceAnswers \/ BalanceFails \/ UtxosAnswer
  BY <1>2, <1>8 DEF Import, StartRefresh, BalanceAnswers, BalanceFails, UtxosAnswer
<1>9. CASE UtxosFail \/ ScanAnswers \/ Derives \/ OpenSend \/ ShowUtxos \/ SendAnswers
  BY <1>2, <1>9 DEF UtxosFail, ScanAnswers, Derives, OpenSend, ShowUtxos, SendAnswers
<1>10. CASE UtxosListAnswers \/ ListFails \/ ShowRows \/ Tick
  BY <1>2, <1>10 DEF UtxosListAnswers, ListFails, ShowRows, Tick
<1>11. CASE UNCHANGED vars
  BY <1>2, <1>11 DEF vars
<1> QED
  BY <1>3, <1>4, <1>5, <1>6, <1>7, <1>8, <1>9, <1>10, <1>11 DEF Next

\* What the desk does to a document keeps what the page made.
LEMMA ConveyedStep ==
  ASSUME Plain, MadeByPage, Conveyed, [Next]_vars
  PROVE  Conveyed'
<1>1. CASE theme # "documents"
  BY <1>1, DeskElsewhere DEF Conveyed, SentIsMade
<1>2. CASE theme = "documents" /\ UNCHANGED <<theme, page, calls, desk>>
  BY <1>2 DEF Conveyed, SentIsMade, DeskShaped
<1> DEFINE Right ==
      /\ desk.review # None => Carries(desk.review, desk.made)
      /\ desk.shown # None => desk.review # None
      /\ desk.shown = "bundle" /\ desk.made.full => desk.made.payload = None
      /\ desk.answer # None => Carries(desk.answer, desk.made)
<1>3. ASSUME theme = "documents", UNCHANGED <<theme, page, calls>>, DeskShaped', Right',
             SentIsMade'
      PROVE  Conveyed'
  BY <1>3 DEF Conveyed
<1>4. ASSUME theme = "documents" PROVE Right /\ DeskShaped /\ SentIsMade
  BY <1>4 DEF Conveyed
<1>5. ASSUME theme = "documents", UNCHANGED <<theme, page, calls>>, Open
      PROVE  Conveyed'
  <2>1. PICK doc \in Docs : desk' = [InitDesk EXCEPT !.review = doc, !.made = doc]
    BY <1>5 DEF Open
  <2>2. /\ desk'.review = doc /\ desk'.made = doc /\ desk'.shown = None
        /\ desk'.answer = None /\ desk'.sent = None /\ DeskShaped'
    BY <2>1 DEF InitDesk, DeskShaped
  <2>3. Carries(doc, doc)
    BY PageMakesWell, MadeCarries DEF MadeByPage
  <2>4. desk'.shown # "bundle"
    BY <2>2, NoneAssumption
  <2> QED
    BY <1>3, <1>5, <2>2, <2>3, <2>4 DEF SentIsMade
<1>6. ASSUME theme = "documents", UNCHANGED <<theme, page, calls>>, NEW route, Show(route)
      PROVE  Conveyed'
  <2>1. /\ desk'.review = desk.review /\ desk'.made = desk.made /\ desk'.shown = route
        /\ desk'.answer = None /\ desk'.sent = desk.sent /\ DeskShaped'
    BY <1>4, <1>6 DEF Show, DeskShaped
  <2>2. desk.review # None /\ (route = "bundle" /\ desk.made.full => desk.made.payload = None)
    BY <1>6 DEF Show, Plain
  <2>3. Right'
    BY <1>4, <1>6, <2>1, <2>2
  <2>4. SentIsMade'
    BY <1>4, <1>6, <2>1 DEF SentIsMade
  <2> QED
    BY <1>3, <1>6, <2>1, <2>3, <2>4
<1>7. ASSUME theme = "documents", UNCHANGED <<theme, page, calls>>, Sign
      PROVE  Conveyed'
  <2> DEFINE answer == Answer(desk.review, desk.shown)
  <2>1. desk' = [desk EXCEPT !.answer = answer] /\ desk.shown # None
    BY <1>7 DEF Sign
  <2>2. Carries(answer, desk.made)
    <3>1. /\ Carries(desk.review, desk.made)
          /\ desk.shown = "bundle" /\ desk.made.full => desk.made.payload = None
      BY <1>4, <1>7, <2>1
    <3>2. Reads(desk.review, desk.shown)
      BY <1>7 DEF Sign
    <3> QED
      BY <3>1, <3>2, AnswerCarries
  <2> HIDE DEF answer
  <2>3. /\ desk'.review = desk.review /\ desk'.made = desk.made /\ desk'.shown = desk.shown
        /\ desk'.answer = answer /\ desk'.sent = desk.sent /\ DeskShaped'
    BY <1>4, <1>7, <2>1 DEF DeskShaped
  <2>4. Right'
    BY <1>4, <1>7, <2>2, <2>3
  <2>5. SentIsMade'
    BY <1>4, <1>7, <2>3 DEF SentIsMade
  <2> QED
    BY <1>3, <1>7, <2>3, <2>4, <2>5
<1>8. ASSUME theme = "documents", UNCHANGED <<theme, page, calls>>, Scan
      PROVE  Conveyed'
  <2>1. /\ desk' = [desk EXCEPT !.review = desk.answer, !.answer = None, !.shown = None]
        /\ desk.answer # None
    BY <1>8 DEF Scan
  <2>2. /\ desk'.review = desk.answer /\ desk'.made = desk.made /\ desk'.shown = None
        /\ desk'.answer = None /\ desk'.sent = desk.sent /\ DeskShaped'
    BY <1>4, <1>8, <2>1 DEF DeskShaped
  <2>3. desk'.shown # "bundle"
    BY <2>2, NoneAssumption
  <2>4. Right'
    BY <1>4, <1>8, <2>1, <2>2, <2>3
  <2>5. SentIsMade'
    BY <1>4, <1>8, <2>2 DEF SentIsMade
  <2> QED
    BY <1>3, <1>8, <2>2, <2>4, <2>5
<1>9. ASSUME theme = "documents", UNCHANGED <<theme, page, calls>>, Finalize
      PROVE  Conveyed'
  <2> DEFINE sent == [tx |-> Tx(desk.review), ok |-> Valid(desk.review)]
  <2>1. /\ desk' = [desk EXCEPT !.sent = sent]
        /\ desk.review # None /\ Ready(desk.review)
    BY <1>9 DEF Finalize
  <2>2. sent.tx = Tx(desk.made) /\ sent.ok
    BY <1>4, <1>9, <2>1, ReadyValid
  <2> HIDE DEF sent
  <2>3. /\ desk'.review = desk.review /\ desk'.made = desk.made /\ desk'.shown = desk.shown
        /\ desk'.answer = desk.answer /\ desk'.sent = sent /\ DeskShaped'
    BY <1>4, <1>9, <2>1 DEF DeskShaped
  <2>4. Right'
    BY <1>4, <1>9, <2>3
  <2>5. SentIsMade'
    BY <2>2, <2>3 DEF SentIsMade
  <2> QED
    BY <1>3, <1>9, <2>3, <2>4, <2>5
<1>10. ASSUME theme = "documents", UNCHANGED <<theme, page, calls>>, Back
       PROVE  Conveyed'
  <2>1. CASE desk.shown # None
    <3>1. desk' = [desk EXCEPT !.shown = None, !.answer = None]
      BY <1>10, <2>1 DEF Back
    <3>2. /\ desk'.review = desk.review /\ desk'.made = desk.made /\ desk'.shown = None
          /\ desk'.answer = None /\ desk'.sent = desk.sent /\ DeskShaped'
      BY <1>4, <1>10, <3>1 DEF DeskShaped
    <3>3. desk'.shown # "bundle"
      BY <3>2, NoneAssumption
    <3>4. Right'
      BY <1>4, <1>10, <3>2, <3>3
    <3>5. SentIsMade'
      BY <1>4, <1>10, <3>2 DEF SentIsMade
    <3> QED
      BY <1>3, <1>10, <3>2, <3>4, <3>5
  <2>2. CASE desk.shown = None
    <3>1. desk' = InitDesk
      BY <1>10, <2>2 DEF Back
    <3>2. /\ desk'.review = None /\ desk'.made = None /\ desk'.shown = None
          /\ desk'.answer = None /\ desk'.sent = None /\ DeskShaped'
      BY <3>1 DEF InitDesk, DeskShaped
    <3>3. desk'.shown # "bundle"
      BY <3>2, NoneAssumption
    <3>4. Right' /\ SentIsMade'
      BY <3>2, <3>3 DEF SentIsMade
    <3> QED
      BY <1>3, <1>10, <3>2, <3>4
  <2> QED
    BY <2>1, <2>2
<1> HIDE DEF Right
<1> QED
  BY <1>1, <1>2, <1>5, <1>6, <1>7, <1>8, <1>9, <1>10, CoinsElsewhere

\* What the node is sent is what the page made, and the node takes it: for any
\* documents the page makes, of any number of inputs, on either way to the
\* signer and back, as often as it goes there; except that a document with a
\* payload is not shown as a bundle.
THEOREM SentAsMade ==
  ASSUME "by bundle" \notin Detours, \A doc \in Docs : PageMakes(doc)
  PROVE  Spec => []SentIsMade
<1>1. Plain /\ MadeByPage
  BY DEF Plain, MadeByPage
<1>2. Init => Conveyed
  BY InitConveyed
<1>3. Conveyed /\ [Next]_vars => Conveyed'
  BY <1>1, ConveyedStep
<1>4. Conveyed => SentIsMade
  BY DEF Conveyed
<1> QED
  BY <1>2, <1>3, <1>4, PTL DEF Spec

-----------------------------------------------------------------------------
(* Coin lists and places. *)

IsList(q, S) == IsFiniteSet(S) /\ S \subseteq Coins /\ q \in ByAmount(S)

LEMMA ListMembers ==
  ASSUME NEW S, NEW q, IsList(q, S)
  PROVE  /\ DOMAIN q = 1 .. Cardinality(S) /\ Cardinality(S) \in Nat /\ Range(q) = S
         /\ q \in Seq(S) /\ Len(q) = Cardinality(S)
         /\ \A i \in DOMAIN q : q[i] \in S /\ q[i].amount \in Nat
         /\ \A i, j \in DOMAIN q : i < j => q[i].amount >= q[j].amount
<1>1. Cardinality(S) \in Nat /\ q \in [1 .. Cardinality(S) -> S]
  BY FS_CardinalityType DEF IsList, ByAmount
<1>2. /\ DOMAIN q = 1 .. Cardinality(S) /\ Range(q) = S
      /\ \A i \in DOMAIN q : q[i] \in S
      /\ \A i, j \in DOMAIN q : i < j => q[i].amount >= q[j].amount
  BY <1>1 DEF IsList, ByAmount
<1>3. q \in Seq(S) /\ Len(q) = Cardinality(S)
  BY <1>1, SeqDef, LenProperties
<1>4. \A c \in S : c.amount \in Nat
  BY AmountsAssumption DEF IsList
<1> QED
  BY <1>1, <1>2, <1>3, <1>4

\* A list of as many places as there are coins has each coin once.
LEMMA ListOnce ==
  ASSUME NEW S, NEW q, IsList(q, S), NEW i \in DOMAIN q, NEW j \in DOMAIN q, q[i] = q[j]
  PROVE  i = j
<1> DEFINE D == 1 .. Cardinality(S)
<1>1. /\ DOMAIN q = D /\ Cardinality(S) \in Nat /\ Range(q) = S /\ q \in [D -> S]
  BY ListMembers DEF IsList, ByAmount
<1>2. IsFiniteSet(D) /\ Cardinality(D) = Cardinality(S)
  BY <1>1, FS_Interval
<1>3. q \in Surjection(D, S)
  BY <1>1 DEF Range, Surjection
<1>4. q \in Injection(D, S)
  BY <1>2, <1>3, FS_SurjSameCardinalityImpliesInj
<1>5. \A a, b \in D : q[a] = q[b] => a = b
  BY <1>4 DEF Injection, IsInjective
<1> HIDE DEF D
<1> QED
  BY <1>1, <1>5

\* Coins of different amounts have one order.
LEMMA OneOrder ==
  ASSUME NEW S, NEW p, NEW q, IsList(p, S), IsList(q, S), ~Alike(p)
  PROVE  p = q
<1>1. /\ DOMAIN p = 1 .. Cardinality(S) /\ DOMAIN q = DOMAIN p /\ Cardinality(S) \in Nat
      /\ p \in Seq(S) /\ q \in Seq(S) /\ Range(p) = S /\ Range(q) = S
      /\ Len(p) = Cardinality(S) /\ Len(q) = Cardinality(S)
  BY ListMembers
<1> DEFINE Differ == {m \in DOMAIN p : p[m] # q[m]}
<1>2. SUFFICES ASSUME Differ # {} PROVE FALSE
  <2>1. \A m \in 1 .. Len(p) : p[m] = q[m]
    BY <1>1, <1>2
  <2> QED
    BY <1>1, <2>1, SeqEqual
<1>3. PICK m \in Differ : \A y \in Differ : m <= y
  <2>1. Differ \subseteq Nat
    BY <1>1
  <2> QED
    BY <1>2, <2>1, MinIn
<1>4. /\ m \in DOMAIN p /\ p[m] # q[m]
      /\ \A k \in DOMAIN p : k < m => p[k] = q[k]
  <2>1. m \in DOMAIN p /\ p[m] # q[m]
    BY <1>3
  <2>2. ASSUME NEW k \in DOMAIN p, k < m PROVE p[k] = q[k]
    <3>1. ~(m <= k)
      BY <1>1, <2>1, <2>2
    <3> QED
      BY <1>3, <2>2, <3>1
  <2> QED
    BY <2>1, <2>2
<1> HIDE DEF Differ
<1>5. PICK k \in DOMAIN q : q[k] = p[m]
  <2>1. p[m] \in Range(q)
    BY <1>1, <1>4 DEF Range
  <2> QED
    BY <2>1 DEF Range
<1>6. PICK l \in DOMAIN p : p[l] = q[m]
  <2>1. q[m] \in Range(p)
    BY <1>1, <1>4 DEF Range
  <2> QED
    BY <2>1 DEF Range
<1>7. k > m
  <2>1. k # m
    BY <1>4, <1>5
  <2>2. ~(k < m)
    <3>1. SUFFICES ASSUME k < m PROVE FALSE
      OBVIOUS
    <3>2. p[k] = p[m]
      BY <1>1, <1>4, <1>5, <3>1
    <3>3. k = m
      BY <1>1, <1>4, <3>2, ListOnce
    <3> QED
      BY <2>1, <3>3
  <2> QED
    BY <1>1, <1>4, <2>1, <2>2
<1>8. l > m
  <2>1. l # m
    BY <1>4, <1>6
  <2>2. ~(l < m)
    <3>1. SUFFICES ASSUME l < m PROVE FALSE
      OBVIOUS
    <3>2. q[l] = q[m]
      BY <1>1, <1>4, <1>6, <3>1
    <3>3. l = m
      BY <1>1, <1>4, <3>2, ListOnce
    <3> QED
      BY <2>1, <3>3
  <2> QED
    BY <1>1, <1>4, <2>1, <2>2
<1>9. /\ p[m].amount >= p[l].amount /\ p[m].amount # p[l].amount
      /\ q[m].amount >= q[k].amount
      /\ p[m].amount \in Nat /\ p[l].amount \in Nat
  <2>1. p[m].amount >= p[l].amount /\ q[m].amount >= q[k].amount
    BY <1>1, <1>4, <1>7, <1>8, ListMembers
  <2>2. p[m].amount # p[l].amount
    BY <1>4, <1>8, <1>6 DEF Alike
  <2>3. p[m].amount \in Nat /\ p[l].amount \in Nat
    BY <1>4, ListMembers
  <2> QED
    BY <2>1, <2>2, <2>3
<1> QED
  BY <1>5, <1>6, <1>9

\* Taking a list's coins by their places takes the coins at those places.
LEMMA ByPlaces ==
  ASSUME NEW list, NEW S, NEW places \in Ascending(S)
  PROVE  /\ Range([n \in DOMAIN places |-> list[places[n]]]) = {list[i] : i \in S}
         /\ DOMAIN [n \in DOMAIN places |-> list[places[n]]] = 1 .. Cardinality(S)
<1>1. DOMAIN places = 1 .. Cardinality(S) /\ Range(places) = S
  BY DEF Ascending
<1>2. \A i \in S : \E n \in DOMAIN places : places[n] = i
  BY <1>1 DEF Range
<1>3. \A n \in DOMAIN places : places[n] \in S
  BY <1>1 DEF Range
<1> QED
  BY <1>1, <1>2, <1>3 DEF Range

-----------------------------------------------------------------------------
(* What a document makes of what was asked. *)

\* One output, or the rest as a second one.
LEMMA OneOrTwo ==
  ASSUME NEW a, NEW b, NEW t, t = <<>> \/ t = <<b>>
  PROVE  /\ (<<a>> \o t)[1] = a /\ Len(<<a>> \o t) = 1 + Len(t)
         /\ t = <<>> => Len(t) = 0
         /\ t = <<b>> => Len(t) = 1
<1> DEFINE S == {a, b}
<1>1. <<a>> \in Seq(S) /\ <<b>> \in Seq(S) /\ <<>> \in Seq(S)
  OBVIOUS
<1>2. /\ Len(<<a>>) = 1 /\ <<a>>[1] = a /\ Len(t) \in Nat
      /\ t = <<>> => Len(t) = 0
      /\ t = <<b>> => Len(t) = 1
  <2>1. CASE t = <<>>
    BY <2>1
  <2>2. CASE t = <<b>>
    BY <2>2
  <2> QED
    BY <2>1, <2>2
<1>3. t \in Seq(S)
  BY <1>1
<1>4. Len(<<a>> \o t) = 1 + Len(t)
  BY <1>1, <1>2, <1>3, ConcatProperties
<1>5. 1 \in 1 .. Len(<<a>>) + Len(t)
  BY <1>2
<1>6. (<<a>> \o t)[1] = IF 1 <= Len(<<a>>) THEN <<a>>[1] ELSE t[1 - Len(<<a>>)]
  BY <1>1, <1>3, <1>5, ConcatProperties
<1> QED
  BY <1>2, <1>4, <1>6

\* What is left goes to the wallet or is dust.
LEMMA RestGoes ==
  ASSUME NEW coins, NEW to, NEW amount \in Int, NEW fee \in Int, NEW next,
         Total(coins) \in Nat, Total(coins) >= amount + fee
  PROVE  LET outs == Outputs(coins, to, amount, fee, next)
             rest == IF Len(outs) = 1 THEN 0 ELSE outs[2].amount
         IN /\ Len(outs) \in 1 .. 2 /\ outs[1] = Output(to, amount)
            /\ Len(outs) = 2 => outs[2].to[1] = page.wallet /\ rest >= Dust
            /\ Total(coins) - (amount + rest) \in fee .. (fee + Dust - 1)
<1> DEFINE left == Total(coins) - amount - fee
           change == Output(<<page.wallet, next>>, left)
           first == Output(to, amount)
           more == IF left >= Dust THEN <<change>> ELSE <<>>
           outs == Outputs(coins, to, amount, fee, next)
<1>1. outs = <<first>> \o more
  BY DEF Outputs
<1>2. change.to[1] = page.wallet /\ change.amount = left
  BY DEF Output
<1>3. /\ left \in Nat /\ Dust \in Nat \ {0}
      /\ left < Dust => left + fee \in fee .. (fee + Dust - 1)
  BY AmountsAssumption
<1>4. Total(coins) - (amount + 0) = left + fee /\ Total(coins) - (amount + left) = fee
  BY AmountsAssumption
<1>5. fee \in fee .. (fee + Dust - 1)
  BY AmountsAssumption
<1> HIDE DEF change, first, left
<1>6. /\ more = <<>> \/ more = <<change>>
      /\ outs[1] = first /\ Len(outs) = 1 + Len(more)
      /\ more = <<>> => Len(more) = 0
      /\ more = <<change>> => Len(more) = 1
  <2>1. more = <<>> \/ more = <<change>>
    OBVIOUS
  <2> HIDE DEF more, outs
  <2> QED
    BY <1>1, <2>1, OneOrTwo
<1>7. CASE left >= Dust
  <2>1. more = <<change>>
    BY <1>7
  <2> HIDE DEF more, outs
  <2>2. Len(outs) = 2
    BY <1>6, <2>1
  <2>3. outs[2] = change
    <3>1. 2 \in 2 .. Len(<<first>> \o more)
      BY <1>1, <2>2
    <3> QED
      BY <1>1, <2>1, <3>1, Second
  <2>4. outs[2].to[1] = page.wallet /\ outs[2].amount = left
    BY <1>2, <2>3
  <2>5. /\ (IF Len(outs) = 1 THEN 0 ELSE outs[2].amount) = left
        /\ Total(coins) - (amount + left) \in fee .. (fee + Dust - 1)
    BY <1>4, <1>5, <2>2, <2>4
  <2>6. outs[1] = Output(to, amount)
    BY <1>6 DEF first
  <2> QED
    BY <1>7, <2>2, <2>4, <2>5, <2>6 DEF outs
<1>8. CASE ~(left >= Dust)
  <2>1. more = <<>>
    BY <1>8
  <2> HIDE DEF more, outs
  <2>2. Len(outs) = 1
    BY <1>6, <2>1
  <2>3. left < Dust
    BY <1>3, <1>8
  <2>4. /\ (IF Len(outs) = 1 THEN 0 ELSE outs[2].amount) = 0
        /\ Total(coins) - (amount + 0) \in fee .. (fee + Dust - 1)
    BY <1>3, <1>4, <2>2, <2>3
  <2>5. outs[1] = Output(to, amount)
    BY <1>6 DEF first
  <2> QED
    BY <2>2, <2>4, <2>5 DEF outs
<1> QED
  BY <1>7, <1>8

\* More coin weighs less.
LEMMA WeightOf ==
  ASSUME NEW amount \in Nat \ {0}
  PROVE  /\ Weight(amount) \in Nat
         /\ \A least \in Nat \ {0} : least <= amount => Weight(amount) <= Weight(least)
<1>1. MassC \in Nat
  BY AmountsAssumption
<1>2. MassC \div amount \in Nat
  BY <1>1
<1>3. \A least \in Nat \ {0} : least <= amount => MassC \div amount <= MassC \div least
  BY <1>1
<1> QED
  BY <1>2, <1>3 DEF Weight

\* What a payment weighs at most: its amount, and the least that can come back.
Ceiling(amount) == Weight(amount) + Weight(Dust)

LEMMA StorageAtMost ==
  ASSUME NEW coins, IsFiniteSet(coins), coins \subseteq Coins,
         NEW amount \in Nat \ {0}, NEW rest \in Nat, rest = 0 \/ rest >= Dust
  PROVE  /\ StorageFee(coins, amount, rest) \in Nat
         /\ StorageFee(coins, amount, rest) <= Ceiling(amount)
<1> DEFINE n    == Cardinality(coins)
           back == IF rest = 0 THEN 0 ELSE Weight(rest)
           outs == Weight(amount) + back
           mean == Max({Total(coins) \div n, 1})
           ins  == IF rest = 0 \/ n <= 2 THEN Relief(coins) ELSE n * Weight(mean)
<1>1. n \in Nat /\ Total(coins) \in Nat /\ Relief(coins) \in Nat
  BY FS_CardinalityType, AmountsAssumption
<1>2. Dust \in Nat \ {0} /\ Weight(Dust) \in Nat /\ Weight(amount) \in Nat
  BY AmountsAssumption, WeightOf
<1>3. back \in Nat /\ back <= Weight(Dust)
  <2>1. CASE rest = 0
    BY <1>2, <2>1
  <2>2. CASE rest # 0
    BY <1>2, <2>2, WeightOf
  <2> QED
    BY <2>1, <2>2
<1>4. ins \in Nat
  <2>1. CASE rest = 0 \/ n <= 2
    BY <1>1, <2>1
  <2>2. CASE ~(rest = 0 \/ n <= 2)
    <3> HIDE DEF n
    <3>1. n \in Nat \ {0}
      BY <1>1, <2>2
    <3>2. Total(coins) \div n \in Nat
      BY <1>1, <3>1
    <3> DEFINE t == Total(coins) \div n
    <3>3. t \in Nat
      BY <3>2
    <3> HIDE DEF t
    <3>4. {t, 1} \subseteq Nat /\ {t, 1} # {} /\ t + 1 \in Nat /\ \A y \in {t, 1} : y <= t + 1
      BY <3>3
    <3>5. Max({t, 1}) \in {t, 1} /\ \A y \in {t, 1} : y <= Max({t, 1})
      BY <3>4, MaxIn
    <3>6. Max({t, 1}) \in Nat \ {0}
      BY <3>3, <3>5
    <3>7. mean \in Nat \ {0}
      BY <3>6 DEF t
    <3> HIDE DEF mean
    <3>8. Weight(mean) \in Nat
      BY <3>7, WeightOf
    <3>9. n * Weight(mean) \in Nat
      BY <3>1, <3>8
    <3> QED
      BY <2>2, <3>9
  <2> QED
    BY <2>1, <2>2
<1>5. StorageFee(coins, amount, rest) = IF outs > ins THEN outs - ins ELSE 0
  BY DEF StorageFee
<1> HIDE DEF ins, back
<1>6. outs \in Nat /\ outs <= Ceiling(amount)
  BY <1>2, <1>3 DEF Ceiling
<1> HIDE DEF outs
<1>7. Ceiling(amount) \in Nat
  BY <1>2 DEF Ceiling
<1> QED
  BY <1>4, <1>5, <1>6, <1>7

\* The fee is never less than the one shown, and more only for what the payment
\* weighs.
LEMMA AgainAtMost ==
  ASSUME NEW coins, IsFiniteSet(coins), coins \subseteq Coins,
         NEW amount \in Nat \ {0}, NEW fee \in Nat
  PROVE  /\ Again(coins, amount, fee) \in Nat /\ Again(coins, amount, fee) >= Fee
         /\ (Again(coins, amount, fee) = Fee \/ Again(coins, amount, fee) <= Ceiling(amount))
<1> DEFINE left == Total(coins) - amount - fee
           rest == IF left >= Dust THEN left ELSE 0
           mass == StorageFee(coins, amount, rest)
<1>1. rest \in Nat /\ (rest = 0 \/ rest >= Dust)
  <2>1. Total(coins) \in Nat /\ Dust \in Nat
    BY AmountsAssumption
  <2> QED
    BY <2>1
<1> HIDE DEF rest
<1>2. mass \in Nat /\ mass <= Ceiling(amount)
  BY <1>1, StorageAtMost
<1>3. Again(coins, amount, fee) = Max({Fee, mass})
  BY DEF Again, rest
<1> HIDE DEF mass
<1>4. Max({Fee, mass}) \in {Fee, mass} /\ \A y \in {Fee, mass} : y <= Max({Fee, mass})
  <2>1. Fee \in Nat
    BY AmountsAssumption
  <2>2. /\ {Fee, mass} \subseteq Nat /\ {Fee, mass} # {} /\ Fee + mass \in Nat
        /\ \A y \in {Fee, mass} : y <= Fee + mass
    BY <1>2, <2>1
  <2> QED
    BY <2>2, MaxIn
<1>5. Fee \in Nat
  BY AmountsAssumption
<1> QED
  BY <1>2, <1>3, <1>4, <1>5

LEMMA RaisedAtMost ==
  ASSUME NEW coins, IsFiniteSet(coins), coins \subseteq Coins, NEW amount \in Nat \ {0}
  PROVE  /\ Raised(coins, amount) \in Nat /\ Raised(coins, amount) >= Fee
         /\ Raised(coins, amount) = Fee \/ Raised(coins, amount) <= Ceiling(amount)
<1>1. Fee \in Nat
  BY AmountsAssumption
<1>2. Again(coins, amount, Fee) \in Nat
  BY <1>1, AgainAtMost
<1>3. Again(coins, amount, Again(coins, amount, Fee)) \in Nat
  BY <1>2, AgainAtMost
<1> QED
  BY <1>3, AgainAtMost DEF Raised

\* The same of any document, whatever was asked, for any wallet.
AsWanted(doc, ask, wallet) ==
  LET ins  == {doc.ins[n].coin : n \in DOMAIN doc.ins}
      rest == IF Len(doc.outs) = 1 THEN 0 ELSE doc.outs[2].amount
      kept == Total(ins) - (ask.amount + rest)
  IN /\ ask.coins # None => ins = ask.coins
     /\ Len(doc.outs) \in 1..2 /\ doc.outs[1] = Output(ask.to, ask.amount)
     /\ Len(doc.outs) = 2 => doc.outs[2].to[1] = wallet /\ rest >= Dust
     /\ kept >= Fee
     /\ \/ kept < Fee + Dust
        \/ /\ ask.coins # None /\ ask.to = "payee"
           /\ kept < Weight(ask.amount) + Weight(Dust) + Dust

LEMMA WantedIs == AsAsked => desk.asked = None \/ AsWanted(desk.made, desk.asked, page.wallet)
BY DEF AsAsked, AsWanted

LEMMA WantedKept ==
  desk'.asked = None \/ AsWanted(desk'.made, desk'.asked, page'.wallet) => AsAsked'
BY DEF AsAsked, AsWanted

\* A document over coins, for an amount and a fee, is as asked.
LEMMA MadeAsAsked ==
  ASSUME Own, NEW q, NEW asked, NEW to, NEW amount, NEW fee \in Nat, NEW m,
         Make(q, asked, to, amount, fee, m), amount \in Int,
         IsFiniteSet(Range(q)), Range(q) \subseteq Coins,
         asked # None => asked = Range(q),
         fee >= Fee,
         fee = Fee \/ (asked # None /\ to = "payee" /\ fee <= Ceiling(amount))
  PROVE  AsAsked'
<1> DEFINE outs == Outputs(Range(q), to, amount, fee, NextIndex(m))
           ins  == [n \in DOMAIN q |-> Input(q[n])]
           want == [coins |-> asked, to |-> to, amount |-> amount]
           rest == IF Len(outs) = 1 THEN 0 ELSE outs[2].amount
           kept == Total(Range(q)) - (amount + rest)
<1>1. desk' = [InitDesk EXCEPT !.review = PlainDoc(ins, outs), !.made = PlainDoc(ins, outs),
                               !.asked = want]
  BY DEF Make
<1>2. /\ want.coins = asked /\ want.to = to /\ want.amount = amount
  OBVIOUS
<1>3. {ins[n].coin : n \in DOMAIN ins} = Range(q)
  <2>1. \A n \in DOMAIN q : ins[n].coin = q[n]
    BY DEF Input
  <2>2. DOMAIN ins = DOMAIN q
    OBVIOUS
  <2> HIDE DEF ins
  <2> QED
    BY <2>1, <2>2 DEF Range
<1>4. /\ Len(outs) \in 1 .. 2 /\ outs[1] = Output(to, amount)
      /\ Len(outs) = 2 => outs[2].to[1] = page.wallet /\ rest >= Dust
      /\ kept \in fee .. (fee + Dust - 1)
  <2>1. Total(Range(q)) \in Nat
    BY AmountsAssumption
  <2>2. Total(Range(q)) >= amount + fee
    BY DEF Make
  <2> DEFINE next == NextIndex(m)
  <2> HIDE DEF next
  <2>3. outs = Outputs(Range(q), to, amount, fee, next)
    BY DEF next
  <2>4. fee \in Int
    OBVIOUS
  <2> HIDE DEF outs
  <2> QED
    BY <2>1, <2>2, <2>3, <2>4, RestGoes
<1>5. page'.wallet = page.wallet
  BY DEF Make, Own, Shaped
<1> HIDE DEF outs, ins, want, kept, rest
<1>6. PlainDoc(ins, outs).outs = outs /\ PlainDoc(ins, outs).ins = ins
  BY DEF PlainDoc
<1>7. desk'.made = PlainDoc(ins, outs) /\ desk'.asked = want
  BY <1>1 DEF InitDesk
<1>8. /\ kept >= Fee
      /\ \/ kept < Fee + Dust
         \/ /\ asked # None /\ to = "payee"
            /\ kept < Weight(amount) + Weight(Dust) + Dust
  <2>1. Fee \in Nat /\ Dust \in Nat \ {0} /\ kept \in Int /\ fee <= kept /\ kept < fee + Dust
    BY <1>4, AmountsAssumption
  <2>2. CASE fee = Fee
    BY <2>1, <2>2
  <2>3. CASE asked # None /\ to = "payee" /\ fee <= Ceiling(amount)
    <3>1. amount \in Nat \ {0}
      BY DEF Make
    <3>2. Weight(amount) \in Nat /\ Weight(Dust) \in Nat
      BY <2>1, <3>1, WeightOf
    <3>3. Weight(amount) + Weight(Dust) \in Nat /\ fee <= Weight(amount) + Weight(Dust)
      BY <2>3, <3>2 DEF Ceiling
    <3> QED
      BY <2>1, <2>3, <3>3
  <2> QED
    BY <2>2, <2>3
<1>9. /\ rest = IF Len(desk'.made.outs) = 1 THEN 0 ELSE desk'.made.outs[2].amount
      /\ {desk'.made.ins[n].coin : n \in DOMAIN desk'.made.ins} = Range(q)
      /\ desk'.made.outs = outs
      /\ desk'.asked.coins = asked /\ desk'.asked.to = to /\ desk'.asked.amount = amount
  BY <1>2, <1>3, <1>6, <1>7 DEF rest
<1>10. AsWanted(desk'.made, desk'.asked, page.wallet)
  BY <1>4, <1>8, <1>9 DEF AsWanted, kept
<1> QED
  BY <1>5, <1>10, WantedKept

-----------------------------------------------------------------------------
(* The coin lists. *)

OneList == Quiet /\ "two lists" \notin Detours
Steady == OneList /\ {"list moved", "ties"} \cap Detours = {}

\* The coins there are; one list is waited for at most, and while it is, nothing
\* is ticked and no rows are shown.
There == IsFiniteSet(chain) /\ chain \subseteq Coins
Waits ==
  /\ \A one, two \in calls : one.kind \in Lists /\ two.kind \in Lists => one = two
  /\ \A call \in calls :
       /\ call.kind = "send" => page.list \in {"send", None} /\ page.cached = <<>>
       /\ call.kind = "utxos list" => page.list = None /\ page.ticked = {}

\* The rows shown are the list last answered, ticked at its places; unless a
\* coin has moved or addresses were derived, the coin list has the wallet's coins.
Rows ==
  /\ page.cached = <<>> \/ \E S : IsList(page.cached, S)
  /\ page.wallet = None => page.list = None
  /\ page.list \in {"send rows", "utxos"} =>
       /\ page.rows = page.cached /\ page.ticked \subseteq DOMAIN page.rows
       /\ \E S : IsList(page.rows, S)
  /\ page.list = "utxos" /\ ~told.moved =>
       IsList(page.rows, CoinsOf(page.wallet, page.derived))

Listed == There /\ Waits /\ Rows

\* A step that leaves the lists and what is waited for alone.
SameLists ==
  /\ chain' = chain /\ (~told'.moved => ~told.moved /\ page'.derived = page.derived)
  /\ page'.wallet = page.wallet /\ page'.cached = page.cached /\ page'.rows = page.rows
  /\ page'.ticked = page.ticked /\ page'.list = page.list
  /\ \A call \in calls' : call.kind \in Lists => call \in calls

LEMMA SameListed ==
  ASSUME Listed, SameLists
  PROVE  Listed'
<1>1. There'
  BY DEF Listed, There, SameLists
<1>2. Waits'
  BY DEF Listed, Waits, SameLists, Lists
<1>3. Rows'
  <2>1. ~told'.moved =>
          CoinsOf(page.wallet, page.derived)' = CoinsOf(page.wallet, page.derived)
    BY DEF CoinsOf, Owned, SameLists
  <2>2. page.cached = <<>> \/ \E S : IsList(page.cached, S)
    BY DEF Listed, Rows
  <2> QED
    BY <2>1, <2>2 DEF Listed, Rows, SameLists
<1> QED
  BY <1>1, <1>2, <1>3 DEF Listed

\* Other calls leave the list calls alone.
LEMMA OtherCalls ==
  ASSUME NEW kind, kind \notin Lists,
         Ask(kind) \/ \E call \in calls : Follows(call, kind)
  PROVE  \A other \in calls' : other.kind \in Lists => other \in calls
<1>1. \A no : Call(kind, no).kind = kind
  BY CallMembers
<1>2. CASE Ask(kind)
  <2>1. PICK no : calls' = calls \cup {Call(kind, no)}
    BY <1>2 DEF Ask
  <2> QED
    BY <1>1, <2>1
<1>3. CASE \E call \in calls : Follows(call, kind)
  <2>1. PICK call, nos : calls' = (calls \ {call}) \cup {Call(kind, no) : no \in nos}
    BY <1>3 DEF Follows
  <2>2. ASSUME NEW other \in calls', other.kind \in Lists PROVE other \in calls
    <3>1. CASE other \in calls
      BY <3>1
    <3>2. CASE \E no \in nos : other = Call(kind, no)
      BY <1>1, <2>2, <3>2
    <3> QED
      BY <2>1, <3>1, <3>2
  <2> QED
    BY <2>2
<1> QED
  BY <1>2, <1>3

\* Answers to other calls, and the desk.
LEMMA ElsewhereLists ==
  ASSUME Own, StartRefresh \/ BalanceAnswers \/ BalanceFails \/ UtxosAnswer \/ UtxosFail
              \/ ScanAnswers \/ Derives \/ ListFails \/ AtDesk \/ UNCHANGED vars
  PROVE  SameLists
<1>0. {"balance", "utxos", "scan"} \cap Lists = {}
  BY DEF Lists
<1>1. CASE StartRefresh
  <2>1. Ask("balance") /\ page' = [page EXCEPT !.refreshing = TRUE]
        /\ UNCHANGED <<chain, told>>
    BY <1>1 DEF StartRefresh
  <2>2. \A call \in calls' : call.kind \in Lists => call \in calls
    BY <1>0, <2>1, OtherCalls
  <2> QED
    BY <2>1, <2>2 DEF SameLists, Own, Shaped
<1>2. CASE BalanceAnswers
  <2>1. PICK call \in calls : Follows(call, "utxos")
    BY <1>2, BalanceEffect
  <2>2. \A other \in calls' : other.kind \in Lists => other \in calls
    BY <1>0, <2>1, OtherCalls
  <2> QED
    BY <1>2, <2>2, BalanceEffect DEF SameLists, SameWorld
<1>3. CASE BalanceFails
  BY <1>3 DEF BalanceFails, Answered, SameLists, Own, Shaped
<1>4. CASE UtxosAnswer
  <2>1. PICK call \in calls : Follows(call, "scan")
    BY <1>4, UtxosEffect
  <2>2. \A other \in calls' : other.kind \in Lists => other \in calls
    BY <1>0, <2>1, OtherCalls
  <2> QED
    BY <1>4, <2>2, UtxosEffect DEF SameLists, SameWorld
<1>5. CASE UtxosFail
  <2>1. PICK call \in calls : Follows(call, "scan")
    BY <1>5 DEF UtxosFail
  <2>2. \A other \in calls' : other.kind \in Lists => other \in calls
    BY <1>0, <2>1, OtherCalls
  <2> QED
    BY <1>5, <2>2 DEF UtxosFail, SameLists, Own, Shaped
<1>6. CASE ScanAnswers
  <2>1. PICK call, S, m :
          /\ page'.derived = m /\ told'.moved = (told.moved \/ m # page.derived)
          /\ calls' \subseteq calls \cup {CallOf("balance", call.no, m)}
    BY <1>6, ScanEffect
  <2>2. CallOf("balance", call.no, m).kind \notin Lists
    BY <1>0, CallMembers
  <2>3. \A other \in calls' : other.kind \in Lists => other \in calls
    BY <2>1, <2>2
  <2> QED
    BY <1>6, <2>1, <2>3, ScanEffect DEF SameLists, SameWorld
<1>7. CASE ListFails
  BY <1>7 DEF ListFails, SameLists
<1>8. CASE AtDesk
  BY <1>8, AtDeskStill DEF SameLists
<1>9. CASE UNCHANGED vars
  BY <1>9 DEF vars, SameLists
<1>10. CASE Derives
  <2>1. PICK m : page' = [page EXCEPT !.derived = m]
    BY <1>10 DEF Derives
  <2>2. told' = [told EXCEPT !.moved = TRUE] /\ UNCHANGED <<chain, calls>>
    BY <1>10 DEF Derives
  <2> QED
    BY <2>1, <2>2 DEF SameLists, Own, Shaped
<1> QED
  BY <1>1, <1>2, <1>3, <1>4, <1>5, <1>6, <1>7, <1>8, <1>9, <1>10

LEMMA InitListed == Init => Listed /\ AsAsked
<1> SUFFICES ASSUME Init PROVE Listed /\ AsAsked
  OBVIOUS
<1>1. chain = Early /\ calls = {} /\ page.cached = <<>> /\ page.list = None
  BY DEF Init, InitPage
<1>2. page.list \notin {"send rows", "utxos"}
  BY <1>1, NoneAssumption
<1>3. desk.asked = None
  BY DEF Init, InitDesk
<1> QED
  BY <1>1, <1>2, <1>3, PageAssumption DEF Listed, There, Waits, Rows, AsAsked

\* Coins come and go.
LEMMA MovesListed ==
  ASSUME Own, Listed, Arrives \/ Leaves
  PROVE  Listed'
<1>1. /\ page' = page /\ calls' = calls /\ told' = [told EXCEPT !.moved = TRUE]
  BY DEF Arrives, Leaves, Moves
<1>2. told'.moved
  BY <1>1 DEF Own, Shaped
<1>3. There'
  <2>1. CASE Arrives
    <3>1. PICK c \in Coins : chain' = chain \cup {c}
      BY <2>1 DEF Arrives
    <3> QED
      BY <3>1, FS_AddElement DEF Listed, There
  <2>2. CASE Leaves
    <3>1. PICK c : chain' = chain \ {c}
      BY <2>2 DEF Leaves
    <3> QED
      BY <3>1, FS_RemoveElement DEF Listed, There
  <2> QED
    BY <2>1, <2>2
<1>4. Waits'
  BY <1>1 DEF Listed, Waits
<1>5. Rows'
  BY <1>1, <1>2 DEF Listed, Rows
<1> QED
  BY <1>3, <1>4, <1>5 DEF Listed

\* A wallet comes to a page without a list and goes from one that waits for
\* nothing.
LEMMA WalletListed ==
  ASSUME Quiet, Own, Listed, Import \/ Reset
  PROVE  Listed'
<1>1. CASE Import
  <2>1. PICK w \in Wallets : page' = [page EXCEPT !.wallet = w, !.refreshing = FALSE]
    BY <1>1 DEF Import
  <2>2. /\ calls' = calls /\ told' = told /\ chain' = chain /\ Bare /\ page.list = None
    BY <1>1 DEF Import, Own, Listed, Rows
  <2>3. /\ page'.cached = page.cached /\ page'.list = None /\ page'.ticked = page.ticked
        /\ calls' = {}
    BY <2>1, <2>2 DEF Own, Shaped, Bare
  <2>4. page'.list \notin {"send rows", "utxos"}
    BY <2>3, NoneAssumption
  <2> QED
    BY <2>2, <2>3, <2>4 DEF Listed, There, Waits, Rows, Bare
<1>2. CASE Reset
  <2>1. page' = InitPage(page.refreshing) /\ calls' = calls /\ chain' = chain /\ calls = {}
    BY <1>2 DEF Reset, Quiet
  <2>2. page'.cached = <<>> /\ page'.list = None
    BY <2>1 DEF InitPage
  <2>3. page'.list \notin {"send rows", "utxos"}
    BY <2>2, NoneAssumption
  <2> QED
    BY <2>1, <2>2, <2>3 DEF Listed, There, Waits, Rows
<1> QED
  BY <1>1, <1>2

\* A list is asked for when none is waited for.
LEMMA AskListed ==
  ASSUME OneList, Own, Listed, OpenSend \/ ShowUtxos
  PROVE  Listed'
<1>1. ~(\E call \in calls : call.kind \in Lists) /\ page.wallet # None
  BY DEF OpenSend, ShowUtxos, MayAsk, Waiting, OneList
<1>2. UNCHANGED <<chain, told>>
  BY DEF OpenSend, ShowUtxos
<1>3. CASE OpenSend
  <2>1. /\ page' = [page EXCEPT !.cached = <<>>, !.ticked = {}, !.list = "send"]
        /\ Ask("send")
    BY <1>3 DEF OpenSend
  <2>2. PICK no : calls' = calls \cup {Call("send", no)}
    BY <2>1 DEF Ask
  <2>3. page'.cached = <<>> /\ page'.list = "send" /\ page'.wallet = page.wallet
    BY <2>1 DEF Own, Shaped
  <2>4. Call("send", no).kind = "send"
    BY CallMembers
  <2>5. Waits'
    BY <1>1, <2>2, <2>3, <2>4 DEF Waits, Lists
  <2> QED
    BY <1>1, <1>2, <2>3, <2>5 DEF Listed, There, Rows
<1>4. CASE ShowUtxos
  <2>1. /\ page' = [page EXCEPT !.ticked = {}, !.list = None]
        /\ Ask("utxos list")
    BY <1>4 DEF ShowUtxos
  <2>2. PICK no : calls' = calls \cup {Call("utxos list", no)}
    BY <2>1 DEF Ask
  <2>3. /\ page'.cached = page.cached /\ page'.list = None /\ page'.ticked = {}
        /\ page'.wallet = page.wallet
    BY <2>1 DEF Own, Shaped
  <2>4. Call("utxos list", no).kind = "utxos list"
    BY CallMembers
  <2>5. Waits'
    BY <1>1, <2>2, <2>3, <2>4 DEF Waits, Lists
  <2>6. page'.list \notin {"send rows", "utxos"}
    BY <2>3, NoneAssumption
  <2> QED
    BY <1>1, <1>2, <2>3, <2>5, <2>6 DEF Listed, There, Rows
<1> QED
  BY <1>3, <1>4

\* A wallet's coins are as finite as all.
LEMMA OwnedThere ==
  ASSUME There, NEW w, NEW n
  PROVE  IsFiniteSet(CoinsOf(w, n)) /\ CoinsOf(w, n) \subseteq Coins
<1>1. CoinsOf(w, n) \subseteq chain
  BY DEF CoinsOf, Owned
<1> QED
  BY <1>1, FS_Subset DEF There

LEMMA AnswerListed ==
  ASSUME OneList, Own, Listed, SendAnswers \/ UtxosListAnswers
  PROVE  Listed'
<1>1. CASE SendAnswers
  <2>0. PICK call \in calls :
          /\ Answered(call, "send")
          /\ \E n \in Reach(call) : \E q \in Ordered(CoinsOf(call.of, n)) :
               page' = [page EXCEPT !.cached = q]
    BY <1>1 DEF SendAnswers
  <2>1. PICK n, q : q \in Ordered(CoinsOf(call.of, n)) /\ page' = [page EXCEPT !.cached = q]
    BY <2>0
  <2>2. call.kind = "send" /\ calls' = calls \ {call} /\ UNCHANGED <<chain, told>>
    BY <1>1, <2>0 DEF Answered, SendAnswers
  <2>3. page'.cached = q /\ page'.list = page.list /\ page'.wallet = page.wallet
    BY <2>1 DEF Own, Shaped
  <2>4. page.list \in {"send", None}
    BY <2>2 DEF Listed, Waits
  <2>5. \A other \in calls' : other.kind \notin Lists
    BY <2>2 DEF Listed, Waits, Lists
  <2>6. IsList(q, CoinsOf(call.of, n))
    BY OwnedThere, <2>1 DEF Listed, IsList, Ordered
  <2>7. page'.list \notin {"send rows", "utxos"}
    BY <2>3, <2>4, NoneAssumption
  <2>8. Waits'
    BY <2>5 DEF Waits, Lists
  <2>9. Rows'
    BY <2>3, <2>6, <2>7 DEF Listed, Rows
  <2> QED
    BY <2>2, <2>8, <2>9 DEF Listed, There
<1>2. CASE UtxosListAnswers
  <2>0. PICK call \in calls :
          /\ Answered(call, "utxos list")
          /\ \E n \in Reach(call) :
               /\ \E q \in ByAmount(CoinsOf(call.of, n)) :
                    page' = [page EXCEPT !.cached = q, !.rows = q, !.list = "utxos"]
               /\ told' = [told EXCEPT !.moved = n # page.derived]
    BY <1>2 DEF UtxosListAnswers
  <2>1. PICK n, q :
          /\ q \in ByAmount(CoinsOf(call.of, n))
          /\ page' = [page EXCEPT !.cached = q, !.rows = q, !.list = "utxos"]
          /\ told' = [told EXCEPT !.moved = n # page.derived]
    BY <2>0
  <2>2. call.kind = "utxos list" /\ calls' = calls \ {call} /\ chain' = chain
    BY <1>2, <2>0 DEF Answered, UtxosListAnswers
  <2>3. /\ page'.cached = q /\ page'.rows = q /\ page'.list = "utxos"
        /\ page'.wallet = page.wallet /\ page'.ticked = page.ticked
        /\ page'.derived = page.derived /\ (~told'.moved => n = page.derived)
    BY <2>1 DEF Own, Shaped
  <2>4. page.ticked = {}
    BY <2>2 DEF Listed, Waits
  <2>5. \A other \in calls' : other.kind \notin Lists
    BY <2>2 DEF Listed, Waits, Lists
  <2>6. IsList(q, CoinsOf(call.of, n))
    BY OwnedThere, <2>1 DEF Listed, IsList
  <2>7. call.of = page.wallet /\ page.wallet # None
    BY DEF Own, Bare
  <2>8. Waits'
    BY <2>5 DEF Waits, Lists
  <2>9. CoinsOf(page.wallet, page.derived)' = CoinsOf(page.wallet, page.derived)
    BY <2>2, <2>3 DEF CoinsOf, Owned
  <2>10. Rows'
    BY <2>3, <2>4, <2>6, <2>7, <2>9 DEF Listed, Rows
  <2> QED
    BY <2>2, <2>8, <2>10 DEF Listed, There
<1> QED
  BY <1>1, <1>2

\* Rows are shown of an answered list and ticked at its places.
LEMMA RowsListed ==
  ASSUME Own, Listed, ShowRows \/ Tick
  PROVE  Listed'
<1>1. UNCHANGED <<chain, calls, told>>
  BY DEF ShowRows, Tick
<1>2. "send" # None
  BY NoneAssumption
<1>3. CASE ShowRows
  <2>1. /\ page' = [page EXCEPT !.rows = page.cached, !.ticked = {}, !.list = "send rows"]
        /\ page.list = "send" /\ page.cached # <<>>
    BY <1>3 DEF ShowRows
  <2>2. /\ page'.rows = page.cached /\ page'.ticked = {} /\ page'.list = "send rows"
        /\ page'.cached = page.cached /\ page'.wallet = page.wallet
    BY <2>1 DEF Own, Shaped
  <2>3. page.wallet # None
    BY <1>2, <2>1 DEF Listed, Rows
  <2>4. Waits'
    <3>1. \A call \in calls : call.kind # "send" /\ call.kind # "utxos list"
      BY <1>2, <2>1 DEF Listed, Waits
    <3> QED
      BY <1>1, <3>1 DEF Waits, Lists
  <2>5. Rows'
    BY <2>1, <2>2, <2>3 DEF Listed, Rows
  <2> QED
    BY <1>1, <2>4, <2>5 DEF Listed, There
<1>4. CASE Tick
  <2>1. PICK i \in DOMAIN page.rows : page' = [page EXCEPT !.ticked = @ \cup {i}]
    BY <1>4 DEF Tick
  <2>2. /\ page'.ticked = page.ticked \cup {i} /\ page'.list = page.list
        /\ page'.cached = page.cached /\ page'.rows = page.rows /\ page'.wallet = page.wallet
        /\ page'.derived = page.derived
    BY <2>1 DEF Own, Shaped
  <2>3. page.list \in {"send rows", "utxos"}
    BY <1>4 DEF Tick
  <2>4. Waits'
    <3>1. \A call \in calls : call.kind # "send" /\ call.kind # "utxos list"
      BY <2>3, NoneAssumption DEF Listed, Waits
    <3> QED
      BY <1>1, <3>1 DEF Waits, Lists
  <2>5. CoinsOf(page.wallet, page.derived)' = CoinsOf(page.wallet, page.derived)
    BY <1>1, <2>2 DEF CoinsOf, Owned
  <2>6. Rows'
    BY <1>1, <2>1, <2>2, <2>3, <2>5 DEF Listed, Rows
  <2> QED
    BY <1>1, <2>4, <2>6 DEF Listed, There
<1> QED
  BY <1>3, <1>4

\* A document closes the list.
LEMMA MakesListed ==
  ASSUME Own, Listed, Makes, page.list # None
  PROVE  Listed'
<1>1. /\ page'.list = None /\ page'.cached = page.cached /\ page'.wallet = page.wallet
      /\ page'.ticked = page.ticked /\ UNCHANGED <<chain, calls, told>>
  BY DEF Makes, Own, Shaped
<1>2. page'.list \notin {"send rows", "utxos"}
  BY <1>1, NoneAssumption
<1>3. Waits'
  BY <1>1 DEF Listed, Waits
<1>4. Rows'
  BY <1>1, <1>2 DEF Listed, Rows
<1> QED
  BY <1>1, <1>3, <1>4 DEF Listed, There

LEMMA ListedStep ==
  ASSUME OneList, Own, Listed, [Next]_vars
  PROVE  Listed'
<1>0. Quiet
  BY DEF OneList
<1>1. CASE StartRefresh \/ BalanceAnswers \/ BalanceFails \/ UtxosAnswer \/ UtxosFail
           \/ ScanAnswers \/ Derives \/ ListFails \/ AtDesk \/ UNCHANGED vars
  BY <1>1, ElsewhereLists, SameListed
<1>2. CASE Arrives \/ Leaves
  BY <1>2, MovesListed
<1>3. CASE Import \/ Reset
  BY <1>0, <1>3, WalletListed
<1>4. CASE OpenSend \/ ShowUtxos
  BY <1>4, AskListed
<1>5. CASE SendAnswers \/ UtxosListAnswers
  BY <1>5, AnswerListed
<1>6. CASE ShowRows \/ Tick
  BY <1>6, RowsListed
<1>7. CASE Documents
  <2>1. page.list # None
    BY <1>7, NoneAssumption DEF Documents, CreateTicked, CreateSend, Consolidate,
                                ConsolidateTicked
  <2>2. Makes
    BY <1>7, DocumentsMake DEF Documents
  <2> QED
    BY <2>1, <2>2, MakesListed
<1> QED
  BY <1>1, <1>2, <1>3, <1>4, <1>5, <1>6, <1>7 DEF Next, Documents, AtDesk

-----------------------------------------------------------------------------
(* What is asked for. *)

\* The coins at the ticked places of a list.
Taken(list, T) == {list[i] : i \in T}

LEMMA TickedOf ==
  ASSUME NEW S, NEW list, IsList(list, S), NEW T, T \subseteq DOMAIN list
  PROVE  /\ {i \in T : i <= Len(list)} = T
         /\ IsFiniteSet(Taken(list, T)) /\ Taken(list, T) \subseteq Coins
         /\ Total(Taken(list, T)) \in Nat
<1>1. /\ DOMAIN list = 1 .. Cardinality(S) /\ Cardinality(S) \in Nat
      /\ Len(list) = Cardinality(S) /\ \A i \in DOMAIN list : list[i] \in S
  BY ListMembers
<1>2. Taken(list, T) \subseteq S /\ IsFiniteSet(S) /\ S \subseteq Coins
  BY <1>1 DEF IsList, Taken
<1>3. IsFiniteSet(Taken(list, T))
  BY <1>2, FS_Subset
<1>4. {i \in T : i <= Len(list)} = T
  BY <1>1
<1> HIDE DEF IsList
<1>5. Taken(list, T) \in SUBSET Coins
  BY <1>2
<1> QED
  BY <1>3, <1>4, <1>5, AmountsAssumption

\* A first part of a list.
LEMMA FirstOf ==
  ASSUME NEW S, NEW list, IsList(list, S), NEW m \in 0 .. Len(list)
  PROVE  LET q == SubSeq(list, 1, m)
         IN IsFiniteSet(Range(q)) /\ Range(q) \subseteq Coins /\ Total(Range(q)) \in Nat
<1> DEFINE q == SubSeq(list, 1, m)
<1>1. list \in Seq(S) /\ Len(list) = Cardinality(S) /\ Cardinality(S) \in Nat
  BY ListMembers
<1>2. 1 \in 1 .. Len(list) + 1 /\ m \in 1 - 1 .. Len(list)
  BY <1>1
<1>3. q \in Seq(S)
  BY <1>1, <1>2, SubSeqProperties
<1> HIDE DEF q
<1>4. Range(q) \subseteq S
  <2>1. DOMAIN q = 1 .. Len(q) /\ \A i \in 1 .. Len(q) : q[i] \in S
    BY <1>3, LenProperties, ElementOfSeq
  <2> QED
    BY <2>1 DEF Range
<1>5. IsFiniteSet(Range(q)) /\ Range(q) \subseteq Coins
  BY <1>4, FS_Subset DEF IsList
<1>6. Total(Range(q)) \in Nat
  BY <1>5, AmountsAssumption
<1> QED
  BY <1>5, <1>6 DEF q

LEMMA CreateTickedAsked ==
  ASSUME Own, Listed, CreateTicked
  PROVE  AsAsked'
<1>1. /\ page.list = "send rows"
      /\ page.rows = page.cached /\ page.ticked \subseteq DOMAIN page.cached
  BY DEF CreateTicked, Listed, Rows
<1>2. PICK S : IsList(page.cached, S)
  BY <1>1 DEF Listed, Rows
<1> DEFINE kept == {i \in page.ticked : i <= Len(page.cached)}
           Take(places) == [n \in DOMAIN places |-> page.cached[places[n]]]
<1>3. /\ kept = page.ticked /\ TickedCoins = {page.cached[i] : i \in kept}
      /\ IsFiniteSet(TickedCoins) /\ TickedCoins \subseteq Coins /\ Total(TickedCoins) \in Nat
  <2>0. page.ticked \cap DOMAIN page.rows = page.ticked
    BY <1>1
  <2>1. TickedCoins = Taken(page.cached, page.ticked)
    BY <1>1, <2>0 DEF TickedCoins, Taken
  <2>2. kept = page.ticked
    BY <1>1, <1>2, TickedOf
  <2>3. /\ IsFiniteSet(Taken(page.cached, page.ticked))
        /\ Taken(page.cached, page.ticked) \subseteq Coins
        /\ Total(Taken(page.cached, page.ticked)) \in Nat
    BY <1>1, <1>2, TickedOf
  <2>4. TickedCoins = {page.cached[i] : i \in kept}
    BY <2>1, <2>2 DEF Taken
  <2>5. IsFiniteSet(TickedCoins) /\ TickedCoins \subseteq Coins
    BY <2>1, <2>3, Zenon
  <2>6. Total(TickedCoins) \in Nat
    BY <2>1, <2>3, Zenon
  <2> QED
    BY <2>2, <2>4, <2>5, <2>6
<1>4. PICK places, m, amount :
        /\ places \in Ascending(kept)
        /\ amount \in Amounts \cup {Max({Total(TickedCoins), Fee}) - Fee}
        /\ amount > 0
        /\ Make(Take(places), TickedCoins, "payee", amount, Raised(Range(Take(places)), amount), m)
  BY DEF CreateTicked
<1>5. amount \in Nat \ {0}
  <2>1. Total(TickedCoins) \in Nat /\ Fee \in Nat /\ Amounts \subseteq Nat
    BY <1>3, AmountsAssumption
  <2> DEFINE t == Total(TickedCoins)
  <2> HIDE DEF t
  <2>2. Max({t, Fee}) \in Nat
    <3>1. t \in Nat /\ t + Fee \in Nat /\ \A y \in {t, Fee} : y <= t + Fee
      BY <2>1 DEF t
    <3>2. {t, Fee} \subseteq Nat /\ {t, Fee} # {}
      BY <2>1, <3>1
    <3> QED
      BY <3>1, <3>2, MaxIn
  <2>3. Max({t, Fee}) - Fee \in Int
    BY <2>1, <2>2
  <2> QED
    BY <1>4, <2>1, <2>3 DEF t
<1>6. Range(Take(places)) = TickedCoins
  BY <1>3, <1>4, ByPlaces
<1> DEFINE fee == Raised(TickedCoins, amount)
           q == Take(places)
<1> HIDE DEF Take, kept
<1>7. /\ fee \in Nat /\ fee >= Fee
      /\ fee = Fee \/ fee <= Ceiling(amount)
  BY <1>3, <1>5, RaisedAtMost
<1>8. /\ Make(q, TickedCoins, "payee", amount, fee, m) /\ Range(q) = TickedCoins
  BY <1>4, <1>6
<1>9. TickedCoins # None
  <2>1. TickedCoins \in SUBSET Coins
    BY <1>3
  <2> QED
    BY <2>1, PageAssumption
<1>10. amount \in Int
  BY <1>5
<1> HIDE DEF fee, q
<1> QED
  BY <1>3, <1>7, <1>8, <1>9, <1>10, MadeAsAsked

LEMMA CreateSendAsked ==
  ASSUME Own, Listed, CreateSend
  PROVE  AsAsked'
<1>1. PICK amount, m, list :
        /\ amount \in Amounts
        /\ list \in ByAmount(CoinsOf(page.wallet, m))
        /\ Reaching(list, amount + Fee) # <<>>
        /\ Make(Reaching(list, amount + Fee), None, "payee", amount, Fee, m)
  BY DEF CreateSend
<1>2. IsList(list, CoinsOf(page.wallet, m))
  BY <1>1, OwnedThere DEF Listed, IsList
<1> DEFINE enough == {n \in DOMAIN list : Total(Range(SubSeq(list, 1, n))) >= amount + Fee}
           q == Reaching(list, amount + Fee)
<1>3. /\ DOMAIN list = 1 .. Len(list) /\ Len(list) \in Nat
  BY <1>2, ListMembers
<1>4. enough # {} /\ q = SubSeq(list, 1, Min(enough))
  BY <1>1 DEF Reaching
<1>5. Min(enough) \in 0 .. Len(list)
  <2>1. enough \subseteq Nat
    BY <1>3
  <2>2. Min(enough) \in enough
    BY <1>4, <2>1, MinIn
  <2> QED
    BY <1>3, <2>2
<1> HIDE DEF enough
<1>6. IsFiniteSet(Range(q)) /\ Range(q) \subseteq Coins
  BY <1>2, <1>4, <1>5, FirstOf
<1>7. amount \in Int /\ Fee \in Nat
  BY <1>1, AmountsAssumption
<1>8. Make(q, None, "payee", amount, Fee, m)
  BY <1>1
<1> HIDE DEF q
<1> QED
  BY <1>6, <1>7, <1>8, MadeAsAsked

LEMMA ConsolidateAsked ==
  ASSUME Own, Listed, Consolidate
  PROVE  AsAsked'
<1>1. PICK m, list :
        /\ list \in ByAmount(CoinsOf(page.wallet, m))
        /\ Make(Largest(list), None, <<page.wallet, 1>>, Total(Range(Largest(list))) - Fee, Fee, m)
  BY DEF Consolidate
<1>2. IsList(list, CoinsOf(page.wallet, m))
  BY <1>1, OwnedThere DEF Listed, IsList
<1> DEFINE q == Largest(list)
           n == Min({Len(list), MaxTicked})
<1>3. q = SubSeq(list, 1, n)
  BY DEF Largest
<1>4. n \in 0 .. Len(list)
  <2>1. {Len(list), MaxTicked} \subseteq Nat /\ {Len(list), MaxTicked} # {}
    BY <1>2, ListMembers, PageAssumption
  <2>2. n \in {Len(list), MaxTicked} /\ n <= Len(list)
    BY <2>1, MinIn
  <2> HIDE DEF n
  <2> QED
    BY <2>1, <2>2
<1> HIDE DEF q, n
<1>5. IsFiniteSet(Range(q)) /\ Range(q) \subseteq Coins /\ Total(Range(q)) \in Nat
  BY <1>2, <1>3, <1>4, FirstOf
<1>6. Total(Range(q)) - Fee \in Int /\ Fee \in Nat
  BY <1>5, AmountsAssumption
<1>7. Make(q, None, <<page.wallet, 1>>, Total(Range(q)) - Fee, Fee, m)
  BY <1>1 DEF q
<1> QED
  BY <1>5, <1>6, <1>7, MadeAsAsked

\* When more addresses had to be derived, the next one is not among the old.
LEMMA FoundAmongOld ==
  ASSUME Reached, NEW m \in Deriving, NextIndex(m) <= page.derived
  PROVE  m = page.derived
<1>1. SUFFICES ASSUME m # page.derived PROVE FALSE
  OBVIOUS
<1>2. 1..page.derived \subseteq Skipped /\ m \in Nat /\ m > page.derived /\ page.derived \in Nat
  <2>1. m \in page.derived + 1 .. MaxDerived /\ 1..page.derived \subseteq Skipped
    BY <1>1 DEF Deriving, Derivations, Skipped
  <2>2. page.derived \in Nat /\ MaxDerived \in Nat
    BY PageAssumption DEF Reached
  <2> QED
    BY <2>1, <2>2
<1> DEFINE free == (1..m) \ Skipped
<1>3. NextIndex(m) = IF free = {} THEN m ELSE Min(free)
  BY DEF NextIndex
<1>4. CASE free = {}
  BY <1>2, <1>3, <1>4
<1>5. CASE free # {}
  <2>1. free \subseteq Nat
    OBVIOUS
  <2>2. Min(free) \in free
    BY <1>5, <2>1, MinIn
  <2>3. Min(free) \notin 1..page.derived /\ Min(free) \in 1..m
    BY <1>2, <2>2
  <2> HIDE DEF free
  <2> QED
    BY <1>2, <1>3, <1>5, <2>3
<1> QED
  BY <1>4, <1>5

LEMMA ConsolidateTickedAsked ==
  ASSUME Steady, Own, Reached, Listed, ConsolidateTicked
  PROVE  AsAsked'
<1>1. /\ page.list = "utxos" /\ ~told.moved /\ ~Alike(page.rows)
      /\ page.rows = page.cached /\ page.ticked \subseteq DOMAIN page.cached
      /\ IsList(page.rows, CoinsOf(page.wallet, page.derived))
  BY DEF ConsolidateTicked, Steady, Listed, Rows
<1> DEFINE kept == {i \in page.ticked : i <= Len(page.cached)}
           Take(list, places) == [n \in DOMAIN places |-> list[places[n]]]
           amount == Total({page.cached[i] : i \in kept}) - Fee
<1>2. /\ kept = page.ticked /\ TickedCoins = {page.cached[i] : i \in kept}
      /\ IsFiniteSet(TickedCoins) /\ TickedCoins \subseteq Coins /\ Total(TickedCoins) \in Nat
  <2>0. page.ticked \cap DOMAIN page.rows = page.ticked
    BY <1>1
  <2>1. TickedCoins = Taken(page.cached, page.ticked)
    BY <1>1, <2>0 DEF TickedCoins, Taken
  <2>2. kept = page.ticked
    BY <1>1, TickedOf
  <2>3. /\ IsFiniteSet(Taken(page.cached, page.ticked))
        /\ Taken(page.cached, page.ticked) \subseteq Coins
        /\ Total(Taken(page.cached, page.ticked)) \in Nat
    BY <1>1, TickedOf
  <2>4. TickedCoins = {page.cached[i] : i \in kept}
    BY <2>1, <2>2 DEF Taken
  <2>5. IsFiniteSet(TickedCoins) /\ TickedCoins \subseteq Coins
    BY <2>1, <2>3, Zenon
  <2>6. Total(TickedCoins) \in Nat
    BY <2>1, <2>3, Zenon
  <2> QED
    BY <2>2, <2>4, <2>5, <2>6
<1>3. PICK m, fresh, places :
        /\ m \in Deriving /\ NextIndex(m) <= page.derived
        /\ fresh \in Ordered(CoinsOf(page.wallet, m)) /\ places \in Ascending(page.ticked)
        /\ Make(Take(fresh, places), TickedCoins, <<page.wallet, NextIndex(m)>>, amount, Fee, m)
  BY DEF ConsolidateTicked
<1>3a. m = page.derived
  BY <1>3, FoundAmongOld
<1>4. fresh = page.cached
  <2>1. IsList(fresh, CoinsOf(page.wallet, page.derived))
    BY <1>1, <1>3, <1>3a DEF IsList, Ordered
  <2> QED
    BY <1>1, <2>1, OneOrder
<1>5. amount \in Int /\ Fee \in Nat
  BY <1>2, AmountsAssumption
<1>6. Range(Take(fresh, places)) = TickedCoins
  BY <1>2, <1>3, <1>4, ByPlaces
<1> HIDE DEF Take, kept, amount
<1> QED
  BY <1>2, <1>3, <1>5, <1>6, MadeAsAsked

\* Other steps keep what was asked and made, for the wallet it was made for, or
\* leave the desk.
LEMMA AskedKept ==
  ASSUME Own, DeskShaped, AsAsked, [Next]_vars, ~Documents
  PROVE  AsAsked'
<1>1. \/ desk'.asked = None
      \/ desk'.asked = desk.asked /\ desk'.made = desk.made /\ page'.wallet = page.wallet
  <2>1. CASE Import \/ Reset
    <3>1. desk' = InitDesk
      BY <2>1 DEF Import, Reset
    <3> QED
      BY <3>1 DEF InitDesk
  <2>2. CASE Open
    <3>1. PICK doc \in Docs : desk' = [InitDesk EXCEPT !.review = doc, !.made = doc]
      BY <2>2 DEF Open
    <3> QED
      BY <3>1 DEF InitDesk
  <2>3. CASE Back
    BY <2>3 DEF Back, InitDesk, DeskShaped, Desk
  <2>4. CASE Sign
    <3>1. PICK answer : desk' = [desk EXCEPT !.answer = answer]
      BY <2>4 DEF Sign
    <3> QED
      BY <2>4, <3>1 DEF DeskShaped, Sign, Desk
  <2>5. CASE Scan
    BY <2>5 DEF Scan, DeskShaped, Desk
  <2>6. CASE Finalize
    <3>1. PICK sent : desk' = [desk EXCEPT !.sent = sent]
      BY <2>6 DEF Finalize
    <3> QED
      BY <2>6, <3>1 DEF DeskShaped, Finalize, Desk
  <2>7. CASE \E route \in {"bundle", "compact"} : Show(route)
    <3>1. PICK route : desk' = [desk EXCEPT !.shown = route, !.answer = None] /\ Desk
      BY <2>7 DEF Show
    <3> QED
      BY <3>1 DEF DeskShaped, Desk
  <2>8. CASE UNCHANGED desk /\ page'.wallet = page.wallet
    BY <2>8
  <2>9. CASE Arrives \/ Leaves \/ UNCHANGED vars
    BY <2>8, <2>9 DEF Arrives, Leaves, Moves, vars
  <2>10. CASE StartRefresh \/ BalanceFails \/ UtxosFail \/ OpenSend \/ ShowUtxos \/ ListFails
              \/ ShowRows
    BY <2>8, <2>10 DEF StartRefresh, BalanceFails, UtxosFail, OpenSend, ShowUtxos, ListFails,
                       ShowRows, Own, Shaped
  <2>11. CASE BalanceAnswers
    BY <2>8, <2>11, BalanceEffect DEF BalanceAnswers
  <2>12. CASE UtxosAnswer
    BY <2>8, <2>12, UtxosEffect DEF UtxosAnswer
  <2>13. CASE ScanAnswers \/ Derives
    <3>1. desk' = desk
      BY <2>13 DEF ScanAnswers, Derives
    <3>2. page'.wallet = page.wallet
      <4>1. CASE ScanAnswers
        BY <4>1, ScanEffect
      <4>2. CASE Derives
        <5>1. PICK m : page' = [page EXCEPT !.derived = m]
          BY <4>2 DEF Derives
        <5> QED
          BY <5>1 DEF Own, Shaped
      <4> QED
        BY <2>13, <4>1, <4>2
    <3> QED
      BY <2>8, <3>1, <3>2
  <2>14. CASE SendAnswers
    <3>1. PICK q : page' = [page EXCEPT !.cached = q]
      BY <2>14 DEF SendAnswers
    <3> QED
      BY <2>8, <2>14, <3>1 DEF SendAnswers, Own, Shaped
  <2>15. CASE UtxosListAnswers
    <3>1. PICK q : page' = [page EXCEPT !.cached = q, !.rows = q, !.list = "utxos"]
      BY <2>15 DEF UtxosListAnswers
    <3> QED
      BY <2>8, <2>15, <3>1 DEF UtxosListAnswers, Own, Shaped
  <2>16. CASE Tick
    <3>1. PICK i : page' = [page EXCEPT !.ticked = @ \cup {i}]
      BY <2>16 DEF Tick
    <3> QED
      BY <2>8, <2>16, <3>1 DEF Tick, Own, Shaped
  <2> QED
    BY <2>1, <2>2, <2>3, <2>4, <2>5, <2>6, <2>7, <2>9, <2>10, <2>11, <2>12, <2>13, <2>14,
       <2>15, <2>16 DEF Next, Documents
<1> QED
  BY <1>1, WantedIs, WantedKept

\* A document spends the coins that were ticked, pays what was typed to whom it
\* was typed, and returns the rest: for any coins, amounts, fee and dust, when
\* one list is waited for at a time, no coin moves between listing and
\* consolidating and the coins listed have different amounts.
THEOREM MadeIsAsked ==
  ASSUME {"switch in flight", "two lists", "list moved", "ties"} \cap Detours = {}
  PROVE  Spec => []AsAsked
<1> DEFINE Inv == Own /\ Reached /\ DeskShaped /\ Listed /\ AsAsked
<1>1. Quiet /\ OneList /\ Steady
  BY DEF Quiet, OneList, Steady
<1>2. Init => Inv
  BY InitStraight, InitListed DEF Straight
<1>3. Inv /\ [Next]_vars => Inv'
  <2>1. SUFFICES ASSUME Inv, [Next]_vars PROVE Inv'
    OBVIOUS
  <2>2. Own'
    BY <1>1, <2>1, OwnStep
  <2>2a. Reached'
    BY <1>1, <2>1, ReachedStep DEF Listed, There
  <2>3. DeskShaped'
    BY <2>1, DeskStep
  <2>4. Listed'
    BY <1>1, <2>1, ListedStep
  <2>5. AsAsked'
    BY <1>1, <2>1, AskedKept, CreateTickedAsked, CreateSendAsked, ConsolidateAsked,
       ConsolidateTickedAsked DEF Documents
  <2> QED
    BY <2>2, <2>2a, <2>3, <2>4, <2>5
<1> QED
  BY <1>2, <1>3, PTL DEF Spec
=============================================================================
